---------------------------- MODULE HeapProofs ----------------------------
(***************************************************************************)
(* Theorems about module Heap for every size of headers, pages and heap,   *)
(* every set of request sizes and every number of kept pointers.  The      *)
(* argument: the list is a chain of blocks that fills the heap.  The walk  *)
(* of kmalloc visits exactly the blocks of a chain; splitting a block,     *)
(* absorbing the next one and adding pages at the end make a chain of a    *)
(* chain; and the operations are made of these three.                      *)
(***************************************************************************)
EXTENDS Heap, FiniteSetTheorems, Recursion

USE HeapAssumption

-----------------------------------------------------------------------------
(* Chains.                                                                 *)

Addr   == HEAP_START .. Limit
Header == [size : 0 .. Limit - HEAP_START, free : BOOLEAN,
           next : Addr \cup {NULL}, prev : Addr \cup {NULL}]
Headers(h) == DOMAIN h \subseteq Addr /\ h \in [DOMAIN h -> Header]

End(h, b) == b + HEADER + h[b].size

(***************************************************************************)
(* The blocks B are linked by the headers h from heap_head on, forwards    *)
(* and backwards, and fill the heap up to brk.  Other headers may be there *)
(* too: those of blocks that were merged away.                             *)
(***************************************************************************)
Chain(h, B, brk) ==
    /\ Headers(h) /\ brk \in Addr
    /\ B \subseteq DOMAIN h /\ heap_head \in B
    /\ \A b \in B :
         /\ h[b].next \in B \cup {NULL}
         /\ End(h, b) = IF h[b].next = NULL THEN brk ELSE h[b].next
         /\ h[b].next # NULL => h[h[b].next].prev = b
    /\ h[heap_head].prev = NULL
    /\ \A b \in B \ {heap_head} : h[b].prev \in B /\ h[h[b].prev].next = b

\* What the proofs need of the constants.
LEMMA Constants ==
    /\ Limit \in Nat /\ HEAP_START \in Nat /\ HEAP_START > 0 /\ HEAP_START + PAGE_SIZE <= Limit
    /\ HEADER \in Nat /\ HEADER > 0 /\ NULL = 0 /\ heap_head = HEAP_START
    /\ Addr \subseteq Nat \ {0} /\ IsFiniteSet(Addr)
    /\ PAGE_SIZE \in Nat /\ ALIGN \in Nat
<1>1. MaxPages * PAGE_SIZE \in Nat /\ MaxPages * PAGE_SIZE >= PAGE_SIZE
  OBVIOUS
<1>2. Limit \in Nat /\ HEAP_START + PAGE_SIZE <= Limit
  BY <1>1 DEF Limit
<1>3. IsFiniteSet(Addr)
  BY <1>2, FS_Interval DEF Addr
<1> QED BY <1>2, <1>3 DEF Addr, NULL, heap_head

\* The fields of a header of a chain have their types, and a next block lies
\* behind its predecessor.
LEMMA ChainFields ==
    ASSUME NEW h, NEW B, NEW brk, Chain(h, B, brk)
    PROVE  /\ \A a \in DOMAIN h :
                /\ a \in Addr /\ a \in Int /\ a >= HEAP_START
                /\ h[a] \in Header
                /\ h[a].size \in Int /\ h[a].size >= 0 /\ h[a].free \in BOOLEAN
                /\ End(h, a) \in Int /\ End(h, a) > a
           /\ \A b \in B : b \in DOMAIN h /\ (h[b].next # NULL => h[b].next > b)
           /\ IsFiniteSet(DOMAIN h) /\ Cardinality(DOMAIN h) \in Nat
<1>1. \A a \in DOMAIN h : a \in Addr /\ a \in Int /\ a >= HEAP_START /\ h[a] \in Header
  BY Constants DEF Chain, Headers, Addr
<1>2. \A a \in DOMAIN h : h[a].size \in Int /\ h[a].size >= 0 /\ h[a].free \in BOOLEAN
  BY <1>1 DEF Header
<1>3. \A a \in DOMAIN h : End(h, a) \in Int /\ End(h, a) > a
  BY <1>1, <1>2, Constants DEF End
<1>4. \A b \in B : b \in DOMAIN h /\ (h[b].next # NULL => h[b].next > b)
  BY <1>3 DEF Chain
<1>5. IsFiniteSet(DOMAIN h)
  BY Constants, FS_Subset DEF Chain, Headers
<1>6. Cardinality(DOMAIN h) \in Nat
  BY <1>5, FS_CardinalityType
<1> QED BY <1>1, <1>2, <1>3, <1>4, <1>5, <1>6

\* The blocks of a chain lie one behind the other.
LEMMA ChainOrdered ==
    ASSUME NEW h, NEW B, NEW brk, Chain(h, B, brk)
    PROVE  \A b, c \in B : b < c => End(h, b) <= c
<1> DEFINE T == {c \in B : \E b \in B : b < c /\ c < End(h, b)}
<1> SUFFICES ASSUME T # {} PROVE FALSE
  BY ChainFields
<1>1. T \subseteq Nat
  BY ChainFields, Constants
<1>2. PICK c \in T : \A k \in T : c <= k
  <2> HIDE DEF T
  <2> QED BY <1>1, NatMin
<1>3. PICK b \in B : b < c /\ c < End(h, b)
  OBVIOUS
<1>4. c \in B /\ c # heap_head
  BY <1>3, ChainFields, Constants
<1>5. PICK p \in B : p = h[c].prev /\ h[p].next = c /\ End(h, p) = c /\ p < c
  BY <1>4, ChainFields, Constants DEF Chain
<1>6. p \in Int /\ b \in Int /\ c \in Int
  BY ChainFields, <1>4
<1>7. CASE p = b
  BY <1>3, <1>5, <1>6, <1>7
<1>8. CASE p < b
  <2>1. b \in T
    BY <1>3, <1>5, <1>8
  <2> QED BY <1>2, <1>3, <1>6, <2>1
<1>9. CASE b < p
  <2>1. p < End(h, b)
    BY <1>3, <1>5, <1>6, ChainFields
  <2>2. p \in T
    BY <1>9, <2>1
  <2> QED BY <1>2, <1>5, <1>6, <2>2
<1> QED BY <1>6, <1>7, <1>8, <1>9

\* A chain has a last block, which ends where the heap ends.
LEMMA ChainLast ==
    ASSUME NEW h, NEW B, NEW brk, Chain(h, B, brk)
    PROVE  /\ \E b \in B : h[b].next = NULL
           /\ \A b \in B : h[b].next = NULL => End(h, b) = brk /\ \A c \in B : c <= b
           /\ \A b \in B : b < brk /\ End(h, b) <= brk
<1> DEFINE T == {Limit - b : b \in B}
<1>1. \A b \in B : b \in Addr /\ b \in Int /\ b <= Limit
  BY ChainFields DEF Addr
<1>2. T \subseteq Nat /\ T # {}
  BY <1>1, Constants DEF Chain
<1>3. PICK m \in T : \A k \in T : m <= k
  <2> HIDE DEF T
  <2> QED BY <1>2, NatMin
<1>4. PICK b \in B : m = Limit - b
  OBVIOUS
<1>5. ASSUME NEW c \in B PROVE c <= b
  <2>1. Limit - c \in T
    OBVIOUS
  <2> QED BY <1>1, <1>3, <1>4, <2>1, Constants
<1>6. h[b].next = NULL
  <2>1. h[b].next \in B => h[b].next <= b
    BY <1>5
  <2>2. h[b].next \in B => ~(h[b].next <= b)
    BY <1>1, <1>4, ChainFields, Constants
  <2> QED BY <2>1, <2>2, <1>4 DEF Chain
<1>7. \A c \in B : h[c].next = NULL => End(h, c) = brk
  BY DEF Chain
<1>8. \A c \in B : c < b => End(h, c) <= b
  BY <1>4, ChainOrdered
<1>9. b < brk /\ brk \in Int
  BY <1>6, <1>7, <1>4, ChainFields
<1>10. \A c \in B : c # b => h[c].next # NULL
  <2> SUFFICES ASSUME NEW c \in B, c # b, h[c].next = NULL PROVE FALSE
    OBVIOUS
  <2>1. c < b
    BY <1>1, <1>4, <1>5
  <2>2. End(h, c) <= b /\ End(h, c) = brk
    BY <1>7, <1>8, <2>1
  <2> QED BY <1>1, <1>4, <1>9, <2>2
<1>11. ASSUME NEW c \in B PROVE c < brk /\ End(h, c) <= brk
  <2>1. CASE c = b
    BY <1>6, <1>7, <1>9, <2>1
  <2>2. CASE c < b
    BY <1>1, <1>4, <1>8, <1>9, <2>2, ChainFields
  <2> QED BY <1>1, <1>4, <1>5, <2>1, <2>2
<1> QED BY <1>4, <1>5, <1>6, <1>7, <1>10, <1>11

-----------------------------------------------------------------------------
(* The walk.                                                               *)

\* The walk over a chain (heap.c:87-105) is the list of its blocks, then NULL.
LEMMA WalkIs ==
    ASSUME NEW h, NEW B, NEW brk, Chain(h, B, brk)
    PROVE  LET w == Walk(h)
               n == Cardinality(DOMAIN h)
           IN  /\ w \in [0 .. n -> B \cup {NULL}] /\ n \in Nat
               /\ w[0] = heap_head
               /\ \A i \in 1 .. n : w[i] = IF w[i-1] = NULL THEN NULL ELSE h[w[i-1]].next
<1> DEFINE n == Cardinality(DOMAIN h)
           S == B \cup {NULL}
           step == [i \in 1 .. n |-> [b \in S |-> IF b = NULL THEN NULL ELSE h[b].next]]
           D(g) == [i \in 0 .. n |->
                      IF i = 0 THEN heap_head
                      ELSE LET b == g[i-1] IN IF b = NULL THEN NULL ELSE h[b].next]
<1>1. n \in Nat /\ heap_head \in S
  BY ChainFields DEF Chain
<1>2. step \in [1 .. n -> [S -> S]]
  BY DEF Chain
<1>3. PICK g \in [0 .. n -> S] : g[0] = heap_head /\ \A i \in 1 .. n : g[i] = step[i][g[i-1]]
  <2> HIDE DEF n, S, step
  <2> QED BY <1>1, <1>2, PrimitiveRecursion
<1>4. \A i \in 1 .. n : g[i] = IF g[i-1] = NULL THEN NULL ELSE h[g[i-1]].next
  <2> SUFFICES ASSUME NEW i \in 1 .. n
               PROVE  g[i] = IF g[i-1] = NULL THEN NULL ELSE h[g[i-1]].next
    OBVIOUS
  <2>1. g[i-1] \in S
    BY <1>1, <1>3
  <2> QED BY <1>3, <2>1
<1>5. g = D(g)
  <2> HIDE DEF n
  <2> QED BY <1>1, <1>3, <1>4
<1>6. Walk(h) = CHOOSE v : v = D(v)
  BY DEF Walk
<1>7. Walk(h) = D(Walk(h))
  <2> HIDE DEF D
  <2> QED BY <1>5, <1>6
<1>8. \A i \in 0 .. n : Walk(h)[i] \in S
  <2> DEFINE T == {i \in 0 .. n : Walk(h)[i] \in S}
  <2>1. 0 \in T
    BY <1>1, <1>7
  <2>2. ASSUME NEW i \in 0 .. n, i < n, i \in T PROVE i + 1 \in T
    <3>1. i + 1 \in 1 .. n /\ i + 1 \in 0 .. n /\ i + 1 # 0 /\ (i + 1) - 1 = i
      BY <1>1, <2>2
    <3> DEFINE b == Walk(h)[i]
    <3>2. Walk(h)[i + 1] = IF b = NULL THEN NULL ELSE h[b].next
      <4> HIDE DEF n
      <4> QED BY <1>7, <3>1
    <3>3. b \in S
      BY <2>2
    <3> QED BY <3>1, <3>2, <3>3 DEF Chain
  <2> HIDE DEF T, n
  <2>3. \A i \in 0 .. n : i \in T
    BY <1>1, <2>1, <2>2, IntervalInduction
  <2> QED BY <2>3 DEF T
<1> HIDE DEF n
<1>9. Walk(h) \in [0 .. n -> S]
  <2>1. Walk(h) = [i \in 0 .. n |-> Walk(h)[i]]
    BY <1>7
  <2> QED BY <1>8, <2>1
<1> QED BY <1>1, <1>7, <1>9 DEF n

\* The walk moves up in memory: no block comes twice, and NULL ends it.
LEMMA WalkRises ==
    ASSUME NEW h, NEW B, NEW brk, Chain(h, B, brk)
    PROVE  \A j \in 0 .. Cardinality(DOMAIN h) : Walk(h)[j] # NULL =>
              \A i \in 0 .. j - 1 : Walk(h)[i] # NULL /\ Walk(h)[i] < Walk(h)[j]
<1> DEFINE w == Walk(h)
           n == Cardinality(DOMAIN h)
           Rises(j) == w[j] # NULL => \A i \in 0 .. j - 1 : w[i] # NULL /\ w[i] < w[j]
           T == {j \in 0 .. n : Rises(j)}
<1>1. /\ w \in [0 .. n -> B \cup {NULL}] /\ n \in Nat
      /\ \A i \in 1 .. n : w[i] = IF w[i-1] = NULL THEN NULL ELSE h[w[i-1]].next
  BY WalkIs
<1>2. \A b \in B : b \in Int /\ (h[b].next # NULL => h[b].next > b)
  BY ChainFields
<1> HIDE DEF w, n
<1>3. 0 \in T
  BY <1>1
<1>4. ASSUME NEW j \in 0 .. n, j < n, j \in T PROVE j + 1 \in T
  <2>1. j + 1 \in 1 .. n /\ j + 1 \in 0 .. n /\ (j + 1) - 1 = j
    BY <1>1, <1>4
  <2>2. w[j + 1] = IF w[j] = NULL THEN NULL ELSE h[w[j]].next
    BY <1>1, <2>1
  <2>3. ASSUME w[j + 1] # NULL, NEW i \in 0 .. j PROVE w[i] # NULL /\ w[i] < w[j + 1]
    <3>1. w[j] # NULL /\ w[j] \in B /\ w[j + 1] \in B /\ w[j] < w[j + 1]
      BY <1>1, <1>2, <2>1, <2>2, <2>3
    <3>2. CASE i = j
      BY <3>1, <3>2
    <3>3. CASE i # j
      <4>1. i \in 0 .. j - 1 /\ i \in 0 .. n
        BY <1>1, <3>3
      <4>2. w[i] # NULL /\ w[i] < w[j] /\ w[i] \in B
        BY <1>1, <1>4, <3>1, <4>1
      <4> QED BY <1>2, <3>1, <4>2
    <3> QED BY <3>2, <3>3
  <2>4. Rises(j + 1)
    BY <2>3
  <2> QED BY <2>1, <2>4
<1>5. \A j \in 0 .. n : j \in T
  <2> HIDE DEF T
  <2>1. 0 \in Nat /\ 0 <= n
    BY <1>1
  <2> QED BY <1>1, <1>3, <1>4, <2>1, IntervalInduction
<1> QED BY <1>5 DEF n, w

\* It has room to reach the end of the list.
LEMMA WalkEnds ==
    ASSUME NEW h, NEW B, NEW brk, Chain(h, B, brk)
    PROVE  Walk(h)[Cardinality(DOMAIN h)] = NULL
<1> DEFINE w == Walk(h)
           n == Cardinality(DOMAIN h)
<1>1. w \in [0 .. n -> B \cup {NULL}] /\ n \in Nat
  BY WalkIs
<1>2. \A j \in 0 .. n : w[j] # NULL => \A i \in 0 .. j - 1 : w[i] # NULL /\ w[i] < w[j]
  BY WalkRises
<1>3. /\ B \subseteq DOMAIN h /\ IsFiniteSet(DOMAIN h) /\ \A b \in B : b \in Int
  BY ChainFields DEF Chain
<1> SUFFICES ASSUME w[n] # NULL PROVE FALSE
  OBVIOUS
<1> HIDE DEF w
<1>4. \A i \in 0 .. n : w[i] # NULL /\ w[i] \in DOMAIN h
  <2>1. \A i \in 0 .. n : w[i] # NULL
    <3> HIDE DEF n
    <3>1. n \in 0 .. n /\ \A i \in 0 .. n : i = n \/ i \in 0 .. n - 1
      BY <1>1
    <3> QED BY <1>2, <3>1
  <2> HIDE DEF n
  <2> QED BY <1>1, <1>3, <2>1
<1>5. \A i, j \in 0 .. n : i # j => w[i] # w[j]
  <2> HIDE DEF n
  <2> SUFFICES ASSUME NEW i \in 0 .. n, NEW j \in 0 .. n, i < j PROVE w[i] # w[j]
    BY <1>1
  <2>1. i \in 0 .. j - 1
    BY <1>1
  <2>2. w[i] < w[j] /\ w[i] \in Int /\ w[j] \in Int
    BY <1>1, <1>2, <1>3, <1>4, <2>1
  <2> QED BY <2>2
<1>6. w \in Injection(0 .. n, DOMAIN h)
  <2>1. w \in [0 .. n -> DOMAIN h]
    BY <1>1, <1>4
  <2> HIDE DEF n
  <2> QED BY <1>5, <2>1 DEF Injection, IsInjective
<1>7. Cardinality(0 .. n) <= n
  BY <1>3, <1>6, FS_Injection
<1>8. Cardinality(0 .. n) = n + 1
  <2> HIDE DEF n
  <2> QED BY <1>1, FS_Interval
<1> QED BY <1>1, <1>7, <1>8

\* Blocks, read off the walk, are the blocks of the chain.
LEMMA BlocksAre ==
    ASSUME NEW h, NEW B, NEW brk, Chain(h, B, brk)
    PROVE  Blocks(h) = B
<1> DEFINE w == Walk(h)
           n == Cardinality(DOMAIN h)
           U == {b \in B : \A i \in 0 .. n : w[i] # b}
<1>1. /\ w \in [0 .. n -> B \cup {NULL}] /\ n \in Nat /\ w[0] = heap_head
      /\ \A i \in 1 .. n : w[i] = IF w[i-1] = NULL THEN NULL ELSE h[w[i-1]].next
  BY WalkIs
<1>2. w[n] = NULL
  BY WalkEnds
<1>3. \A b \in B : b \in Nat /\ b # NULL
  BY ChainFields, Constants
<1>4. Blocks(h) = {w[i] : i \in 0 .. n} \ {NULL}
  <2>1. DOMAIN w = 0 .. n
    BY <1>1
  <2> QED BY <2>1 DEF Blocks
<1> HIDE DEF w, n
<1>5. U = {}
  <2> SUFFICES ASSUME U # {} PROVE FALSE
    OBVIOUS
  <2>1. PICK b \in U : \A k \in U : b <= k
    <3>1. U \subseteq Nat
      BY <1>3
    <3> HIDE DEF U
    <3> QED BY <3>1, NatMin
  <2>2. b \in B /\ b # heap_head
    BY <1>1
  <2>3. PICK p \in B : h[p].next = b /\ p < b
    BY <2>2, ChainFields, <1>3 DEF Chain
  <2>4. p \notin U
    BY <1>3, <2>1, <2>2, <2>3
  <2>5. PICK i \in 0 .. n : w[i] = p
    BY <2>4
  <2>6. i + 1 \in 1 .. n /\ (i + 1) - 1 = i
    BY <1>1, <1>2, <1>3, <2>5
  <2>7. w[i + 1] = b
    BY <1>1, <1>3, <2>3, <2>5, <2>6
  <2> QED BY <1>1, <2>1, <2>6, <2>7
<1> QED BY <1>1, <1>3, <1>4, <1>5

\* The search of kmalloc finds a block that fits, if the chain has one.
LEMMA FirstFitIs ==
    ASSUME NEW h, NEW B, NEW brk, Chain(h, B, brk), NEW size
    PROVE  \/ FirstFit(h, size) \in B /\ Fits(h, FirstFit(h, size), size)
           \/ FirstFit(h, size) = NULL /\ \A b \in B : ~Fits(h, b, size)
<1> DEFINE w == Walk(h)
           n == Cardinality(DOMAIN h)
           F == {i \in 0 .. n : w[i] # NULL /\ Fits(h, w[i], size)}
<1>1. w \in [0 .. n -> B \cup {NULL}] /\ n \in Nat
  BY WalkIs
<1>2. FirstFit(h, size) = IF F = {} THEN NULL ELSE w[CHOOSE i \in F : \A j \in F : i <= j]
  <2>1. DOMAIN w = 0 .. n
    BY <1>1
  <2> QED BY <2>1 DEF FirstFit
<1>3. CASE F = {}
  <2>1. ASSUME NEW b \in B, Fits(h, b, size) PROVE FALSE
    <3>1. b \in Blocks(h)
      BY BlocksAre
    <3>2. PICK i \in 0 .. n : w[i] = b /\ b # NULL
      BY <1>1, <3>1 DEF Blocks
    <3>3. i \in F
      BY <2>1, <3>2
    <3> QED BY <1>3, <3>3
  <2> QED BY <1>2, <1>3, <2>1
<1>4. CASE F # {}
  <2>1. F \subseteq Nat
    BY <1>1
  <2> HIDE DEF F, w
  <2>2. \E i \in F : \A j \in F : i <= j
    BY <1>4, <2>1, NatMin
  <2>3. PICK i \in F : FirstFit(h, size) = w[i]
    BY <1>2, <1>4, <2>2
  <2>4. w[i] # NULL /\ Fits(h, w[i], size) /\ i \in 0 .. n
    BY <2>3 DEF F
  <2> QED BY <1>1, <2>3, <2>4
<1> QED BY <1>3, <1>4

-----------------------------------------------------------------------------
(* Merging.                                                                *)

\* Assigning to the next field of a header leaves a header.
LEMMA HeaderNext ==
    ASSUME NEW x \in Header, NEW next \in Addr \cup {NULL}
    PROVE  LET y == [x EXCEPT !.next = next]
           IN  /\ y \in Header /\ y.next = next
               /\ y.size = x.size /\ y.free = x.free /\ y.prev = x.prev
BY DEF Header

\* The same for the prev field.
LEMMA HeaderPrev ==
    ASSUME NEW x \in Header, NEW prev \in Addr \cup {NULL}
    PROVE  LET y == [x EXCEPT !.prev = prev]
           IN  /\ y \in Header /\ y.prev = prev
               /\ y.size = x.size /\ y.free = x.free /\ y.next = x.next
BY DEF Header

\* And for the free flag.
LEMMA HeaderFree ==
    ASSUME NEW x \in Header, NEW free \in BOOLEAN
    PROVE  LET y == [x EXCEPT !.free = free]
           IN  /\ y \in Header /\ y.free = free
               /\ y.size = x.size /\ y.next = x.next /\ y.prev = x.prev
BY DEF Header

\* Block b and the block behind it become one (heap.c:45-47 and 50-52).
Absorb(h, b) ==
    LET n == h[b].next
    IN  SetPrev([h EXCEPT ![b].size = @ + HEADER + h[n].size, ![b].next = h[n].next],
                h[n].next, b)

\* What it does to each field of each header.
LEMMA AbsorbFields ==
    ASSUME NEW h, NEW B, NEW brk, Chain(h, B, brk), NEW b \in B, h[b].next # NULL
    PROVE  LET n == h[b].next
               r == Absorb(h, b)
           IN  /\ DOMAIN r = DOMAIN h /\ r \in [DOMAIN h -> Header]
               /\ \A a \in DOMAIN h :
                    /\ r[a].free = h[a].free
                    /\ r[a].size = IF a = b THEN h[b].size + HEADER + h[n].size ELSE h[a].size
                    /\ r[a].next = IF a = b THEN h[n].next ELSE h[a].next
                    /\ r[a].prev = IF a = h[n].next THEN b ELSE h[a].prev
<1> DEFINE n == h[b].next
           m == h[n].next
           size == h[b].size + HEADER + h[n].size
           g == [h EXCEPT ![b].size = @ + HEADER + h[n].size, ![b].next = h[n].next]
           r == Absorb(h, b)
<1>1. n \in B /\ m \in B \cup {NULL} /\ n > b /\ b \in DOMAIN h /\ n \in DOMAIN h
  BY ChainFields DEF Chain
<1>2. m # NULL => m \in DOMAIN h /\ m > n /\ m # b
  BY <1>1, ChainFields
<1>3. size \in 0 .. Limit - HEAP_START
  <2>1. End(h, n) <= brk /\ End(h, b) = n
    BY <1>1, ChainLast DEF Chain
  <2>2. b + size + HEADER = End(h, n)
    BY <2>1, <1>1, ChainFields, Constants DEF End
  <2>3. brk \in Int /\ brk <= Limit /\ b >= HEAP_START /\ b \in Int
    <3>1. brk \in Addr
      BY DEF Chain
    <3> QED BY <1>1, <3>1, ChainFields, Constants DEF Addr
  <2>4. size \in Int /\ size >= 0 /\ End(h, n) \in Int
    BY <1>1, ChainFields, Constants
  <2> QED BY <2>1, <2>2, <2>3, <2>4, Constants
<1>4. /\ h \in [DOMAIN h -> Header] /\ m \in Addr \cup {NULL} /\ b \in Addr
      /\ NULL \notin DOMAIN h
  BY <1>1, <1>2, ChainFields, Constants DEF Chain, Headers
<1> HIDE DEF n, m, size
<1>5. g = [h EXCEPT ![b] = [h[b] EXCEPT !.size = size, !.next = m]]
  BY <1>1 DEF n, m, size
<1> HIDE DEF g
<1>6. LET y == [h[b] EXCEPT !.size = size, !.next = m]
      IN  /\ y \in Header /\ y.size = size /\ y.next = m
          /\ y.free = h[b].free /\ y.prev = h[b].prev
  <2>1. PICK x \in Header : x = h[b]
    BY <1>1, <1>4
  <2>2. m \in Addr \cup {NULL}
    BY <1>4
  <2>3. LET y == [x EXCEPT !.size = size, !.next = m]
        IN  y \in Header /\ y.size = size /\ y.next = m /\ y.free = x.free /\ y.prev = x.prev
    BY <1>3, <2>2 DEF Header
  <2> QED BY <2>1, <2>3
<1>7. /\ g \in [DOMAIN h -> Header]
      /\ \A a \in DOMAIN h :
           /\ g[a].free = h[a].free /\ g[a].prev = h[a].prev
           /\ g[a].size = IF a = b THEN size ELSE h[a].size
           /\ g[a].next = IF a = b THEN m ELSE h[a].next
  <2> DEFINE y == [h[b] EXCEPT !.size = size, !.next = m]
  <2>1. y \in Header /\ g = [h EXCEPT ![b] = y]
    BY <1>5, <1>6
  <2>2. y.size = size /\ y.next = m /\ y.free = h[b].free /\ y.prev = h[b].prev
    BY <1>6
  <2> HIDE DEF y
  <2> QED BY <1>1, <1>4, <2>1, <2>2
<1>8. r = IF m = NULL THEN g ELSE [g EXCEPT ![m].prev = b]
  BY DEF Absorb, SetPrev, g, m, n
<1> HIDE DEF r
<1>9. /\ r \in [DOMAIN h -> Header]
      /\ \A a \in DOMAIN h :
           /\ r[a].free = g[a].free /\ r[a].size = g[a].size /\ r[a].next = g[a].next
           /\ r[a].prev = IF a = m THEN b ELSE g[a].prev
  <2>1. CASE m = NULL
    BY <2>1, <1>4, <1>7, <1>8
  <2>2. CASE m # NULL
    <3> DEFINE y == [g[m] EXCEPT !.prev = b]
    <3>1. y \in Header /\ y.prev = b
      /\ y.size = g[m].size /\ y.free = g[m].free /\ y.next = g[m].next
      <4>1. g[m] \in Header /\ b \in Addr \cup {NULL}
        BY <2>2, <1>2, <1>4, <1>7
      <4> HIDE DEF g, m
      <4> QED BY <4>1, HeaderPrev
    <3>2. r = [g EXCEPT ![m] = y]
      BY <2>2, <1>8
    <3> HIDE DEF y
    <3> QED BY <2>2, <3>1, <3>2, <1>2, <1>4, <1>7
  <2> QED BY <2>1, <2>2
<1> QED BY <1>7, <1>9, <1>4 DEF n, m, size, r

\* And that the chain loses only the block behind b.
LEMMA AbsorbChain ==
    ASSUME NEW h, NEW B, NEW brk, Chain(h, B, brk), NEW b \in B, h[b].next # NULL
    PROVE  Chain(Absorb(h, b), B \ {h[b].next}, brk)
<1> DEFINE n == h[b].next
           m == h[n].next
           C == B \ {n}
           r == Absorb(h, b)
<1>1. /\ B \subseteq DOMAIN h /\ DOMAIN h \subseteq Addr /\ brk \in Addr /\ heap_head \in B
      /\ n \in B /\ m \in B \cup {NULL} /\ NULL \notin DOMAIN h /\ b \in B
  BY ChainFields, Constants DEF Chain, Headers
<1>2. \A c \in B : /\ h[c].next \in B \cup {NULL}
                   /\ End(h, c) = IF h[c].next = NULL THEN brk ELSE h[c].next
                   /\ h[c].next # NULL => h[h[c].next].prev = c
  BY DEF Chain
<1>3. /\ h[heap_head].prev = NULL
      /\ \A c \in B \ {heap_head} : h[c].prev \in B /\ h[h[c].prev].next = c
  BY DEF Chain
<1>4. \A c \in B : c \in Int /\ c >= heap_head /\ (h[c].next # NULL => h[c].next > c)
  BY <1>1, ChainFields, Constants
<1>5. n # b /\ m # n /\ m # b /\ n # heap_head /\ m # heap_head /\ h[n].prev = b
  BY <1>1, <1>2, <1>4
<1>6. DOMAIN r = DOMAIN h /\ r \in [DOMAIN h -> Header]
  BY AbsorbFields
<1>7. \A a \in DOMAIN h :
        /\ r[a].size = IF a = b THEN h[b].size + HEADER + h[n].size ELSE h[a].size
        /\ r[a].next = IF a = b THEN m ELSE h[a].next
        /\ r[a].prev = IF a = m THEN b ELSE h[a].prev
  BY AbsorbFields
<1>8. End(r, b) = End(h, n) /\ \A c \in C : c # b => End(r, c) = End(h, c)
  <2>1. r[b].size = h[b].size + HEADER + h[n].size
    BY <1>1, <1>7
  <2>2. h[b].size \in Int /\ h[n].size \in Int
    BY <1>1, ChainFields
  <2>3. n = b + HEADER + h[b].size
    BY <1>1, <1>2 DEF End
  <2>4. End(r, b) = End(h, n)
    <3> HIDE DEF n, r
    <3> QED BY <1>1, <1>4, <2>1, <2>2, <2>3, Constants DEF End
  <2> HIDE DEF r
  <2> QED BY <1>1, <1>7, <2>4 DEF End
<1> HIDE DEF n, m, r
<1>9. \A c \in B : c # b => h[c].next # n
  BY <1>1, <1>2, <1>5
<1>10. \A c \in B : c # n => h[c].next # m \/ m = NULL
  BY <1>1, <1>2 DEF m
<1>11. ASSUME NEW c \in C
       PROVE  /\ r[c].next \in C \cup {NULL}
              /\ End(r, c) = IF r[c].next = NULL THEN brk ELSE r[c].next
              /\ r[c].next # NULL => r[r[c].next].prev = c
  <2>1. CASE c = b
    BY <1>1, <1>2, <1>5, <1>7, <1>8, <2>1 DEF m
  <2>2. CASE c # b
    <3>1. r[c].next = h[c].next /\ End(r, c) = End(h, c)
      BY <1>1, <1>7, <1>8, <2>2
    <3>2. h[c].next # n /\ (h[c].next # NULL => h[c].next # m)
      BY <1>9, <1>10, <2>2
    <3> QED BY <1>1, <1>2, <1>7, <3>1, <3>2
  <2> QED BY <2>1, <2>2
<1>12. r[heap_head].prev = NULL
  BY <1>1, <1>3, <1>5, <1>7
<1>13. ASSUME NEW c \in C \ {heap_head} PROVE r[c].prev \in C /\ r[r[c].prev].next = c
  <2>1. CASE c = m
    BY <1>1, <1>5, <1>7, <2>1
  <2>2. CASE c # m
    <3>1. r[c].prev = h[c].prev /\ h[c].prev \in B /\ h[h[c].prev].next = c
      BY <1>1, <1>3, <1>7, <2>2
    <3>2. h[c].prev # n /\ h[c].prev # b
      BY <2>2, <3>1 DEF n, m
    <3> QED BY <1>1, <1>7, <3>1, <3>2
  <2> QED BY <2>1, <2>2
<1>14. Chain(r, C, brk)
  BY <1>1, <1>5, <1>6, <1>11, <1>12, <1>13 DEF Chain, Headers
<1> QED BY <1>14 DEF n, r

\* The headers r with the blocks C have the blocks in use of h with B.
Keeps(h, B, r, C) ==
    /\ C \subseteq B /\ DOMAIN r = DOMAIN h
    /\ \A a \in DOMAIN h : r[a].free = h[a].free
    /\ \A b \in B : ~h[b].free => b \in C /\ r[b].size = h[b].size

\* No two neighbours are free, unless the second one is b.
QuietBut(h, B, b) ==
    \A c \in B : h[c].free /\ h[c].next # NULL /\ h[c].next # b => ~h[h[c].next].free
Quiet(h, B) ==
    \A c \in B : h[c].free /\ h[c].next # NULL => ~h[h[c].next].free

\* The first half of coalesce (heap.c:44-48).
LEMMA MergeNextChain ==
    ASSUME NEW h, NEW B, NEW brk, Chain(h, B, brk), NEW b \in B, h[b].free,
           \A c \in B \ {b} : h[c].free /\ h[c].next # NULL /\ h[c].next # b
                                => ~h[h[c].next].free
    PROVE  \E C : /\ Chain(MergeNext(h, b), C, brk) /\ Keeps(h, B, MergeNext(h, b), C)
                  /\ b \in C /\ MergeNext(h, b)[b].size >= h[b].size
                  /\ QuietBut(MergeNext(h, b), C, b)
<1> DEFINE n == h[b].next
           m == h[n].next
           g == MergeNext(h, b)
<1>1. /\ B \subseteq DOMAIN h /\ \A c \in B : h[c].next \in B \cup {NULL}
      /\ \A c \in B : h[c].next # NULL => h[h[c].next].prev = c
      /\ b \in DOMAIN h
  BY DEF Chain
<1>2. \A c \in DOMAIN h : h[c].size \in Int /\ h[c].size >= 0 /\ h[c].free \in BOOLEAN
  BY ChainFields
<1>3. CASE n # NULL /\ h[n].free
  <2>1. g = Absorb(h, b)
    BY <1>3 DEF MergeNext, Absorb
  <2>2. Chain(g, B \ {n}, brk)
    BY <1>3, <2>1, AbsorbChain
  <2>3. n \in B /\ n > b /\ b \in Int /\ (m # NULL => m > n) /\ n \in Int
    BY <1>1, <1>3, ChainFields
  <2>4. /\ DOMAIN g = DOMAIN h
        /\ \A a \in DOMAIN h :
             /\ g[a].free = h[a].free
             /\ g[a].size = IF a = b THEN h[b].size + HEADER + h[n].size ELSE h[a].size
             /\ g[a].next = IF a = b THEN m ELSE h[a].next
    BY <1>3, <2>1, AbsorbFields
  <2> HIDE DEF n, m, g
  <2>5. Keeps(h, B, g, B \ {n})
    <3>1. \A c \in B : ~h[c].free => c \in B \ {n} /\ g[c].size = h[c].size
      BY <1>1, <1>3, <2>4
    <3> QED BY <2>4, <3>1 DEF Keeps
  <2>6. b \in B \ {n} /\ g[b].size >= h[b].size
    BY <1>1, <1>2, <2>3, <2>4, Constants
  <2>7. ASSUME NEW c \in B \ {n}, g[c].free, g[c].next # NULL, g[c].next # b
        PROVE  ~g[g[c].next].free
    <3>1. CASE c = b
      <4>1. g[c].next = m /\ m \in B /\ m # b
        BY <1>1, <2>3, <2>4, <2>7, <3>1 DEF m
      <4>2. ~h[m].free
        BY <1>3, <2>3, <4>1, <2>7 DEF m
      <4> QED BY <1>1, <2>4, <4>1, <4>2
    <3>2. CASE c # b
      <4>1. g[c].next = h[c].next /\ h[c].free /\ h[c].next \in B
        BY <1>1, <2>4, <2>7, <3>2
      <4>2. ~h[h[c].next].free
        BY <2>7, <3>2, <4>1
      <4> QED BY <1>1, <2>4, <4>1, <4>2
    <3> QED BY <3>1, <3>2
  <2> QED BY <2>2, <2>5, <2>6, <2>7 DEF QuietBut, g
<1>4. CASE ~(n # NULL /\ h[n].free)
  <2>1. g = h
    BY <1>4 DEF MergeNext
  <2>2. Keeps(h, B, h, B) /\ h[b].size >= h[b].size
    BY <1>1, <1>2 DEF Keeps
  <2>3. QuietBut(h, B, b)
    BY <1>4 DEF QuietBut
  <2> QED BY <2>1, <2>2, <2>3
<1> QED BY <1>3, <1>4

\* The second half (heap.c:49-53).
LEMMA MergePrevChain ==
    ASSUME NEW h, NEW B, NEW brk, Chain(h, B, brk), NEW b \in B, h[b].free, QuietBut(h, B, b)
    PROVE  \E C : /\ Chain(MergePrev(h, b), C, brk) /\ Keeps(h, B, MergePrev(h, b), C)
                  /\ Quiet(MergePrev(h, b), C)
                  /\ \E d \in C : /\ MergePrev(h, b)[d].free
                                  /\ MergePrev(h, b)[d].size >= h[b].size
<1> DEFINE p == h[b].prev
           r == MergePrev(h, b)
<1>1. /\ B \subseteq DOMAIN h /\ \A c \in B : h[c].next \in B \cup {NULL}
      /\ \A c \in B : h[c].next # NULL => h[h[c].next].prev = c
      /\ b \in DOMAIN h
  BY DEF Chain
<1>2. \A c \in DOMAIN h : h[c].size \in Int /\ h[c].size >= 0 /\ h[c].free \in BOOLEAN
  BY ChainFields
<1>3. CASE p # NULL /\ h[p].free
  <2>1. p \in B /\ h[p].next = b /\ b # NULL
    <3>1. b # heap_head
      BY <1>3 DEF Chain
    <3> QED BY <3>1, <1>1, ChainFields, Constants DEF Chain
  <2>2. r = Absorb(h, p)
    BY <1>3, <2>1 DEF MergePrev, Absorb
  <2>3. Chain(r, B \ {b}, brk)
    BY <2>1, <2>2, AbsorbChain
  <2>4. b > p /\ p \in Int /\ b \in Int /\ (h[b].next # NULL => h[b].next > b)
    BY <1>1, <2>1, ChainFields
  <2>5. /\ DOMAIN r = DOMAIN h
        /\ \A a \in DOMAIN h :
             /\ r[a].free = h[a].free
             /\ r[a].size = IF a = p THEN h[p].size + HEADER + h[b].size ELSE h[a].size
             /\ r[a].next = IF a = p THEN h[b].next ELSE h[a].next
    BY <2>1, <2>2, AbsorbFields
  <2> HIDE DEF p, r
  <2>6. Keeps(h, B, r, B \ {b})
    <3>1. \A c \in B : ~h[c].free => c \in B \ {b} /\ r[c].size = h[c].size
      BY <1>1, <1>3, <2>5
    <3> QED BY <2>5, <3>1 DEF Keeps
  <2>7. p \in B \ {b} /\ r[p].free /\ r[p].size >= h[b].size
    BY <1>1, <1>2, <1>3, <2>1, <2>4, <2>5, Constants
  <2>8. ASSUME NEW c \in B \ {b}, r[c].free, r[c].next # NULL
        PROVE  ~r[r[c].next].free
    <3>1. CASE c = p
      <4>1. r[c].next = h[b].next /\ h[b].next # b /\ h[b].next \in B
        BY <1>1, <2>1, <2>4, <2>5, <2>8, <3>1
      <4>2. ~h[h[b].next].free
        BY <4>1, <2>8 DEF QuietBut
      <4> QED BY <1>1, <2>5, <4>1, <4>2
    <3>2. CASE c # p
      <4>1. r[c].next = h[c].next /\ h[c].free /\ h[c].next \in B
        BY <1>1, <2>5, <2>8, <3>2
      <4>2. h[c].next # b
        BY <1>1, <2>8, <3>2, <4>1 DEF p
      <4>3. ~h[h[c].next].free
        BY <2>8, <4>1, <4>2 DEF QuietBut
      <4> QED BY <1>1, <2>5, <4>1, <4>3
    <3> QED BY <3>1, <3>2
  <2> QED BY <2>3, <2>6, <2>7, <2>8 DEF Quiet, r
<1>4. CASE ~(p # NULL /\ h[p].free)
  <2>1. r = h
    BY <1>4 DEF MergePrev
  <2>2. Keeps(h, B, h, B) /\ h[b].size >= h[b].size
    BY <1>1, <1>2 DEF Keeps
  <2>3. \A c \in B : c # NULL
    BY <1>1, ChainFields, Constants
  <2>4. Quiet(h, B)
    BY <1>1, <1>4, <2>3 DEF QuietBut, Quiet
  <2> QED BY <2>1, <2>2, <2>4
<1> QED BY <1>3, <1>4

\* coalesce of a free block keeps the blocks in use, leaves no two free
\* neighbours, and the block is part of a free one.
LEMMA CoalesceChain ==
    ASSUME NEW h, NEW B, NEW brk, Chain(h, B, brk), NEW b \in B, h[b].free,
           \A c \in B \ {b} : h[c].free /\ h[c].next # NULL /\ h[c].next # b
                                => ~h[h[c].next].free
    PROVE  \E C : /\ Chain(coalesce(h, b), C, brk) /\ Keeps(h, B, coalesce(h, b), C)
                  /\ Quiet(coalesce(h, b), C)
                  /\ \E d \in C : coalesce(h, b)[d].free /\ coalesce(h, b)[d].size >= h[b].size
<1> DEFINE g == MergeNext(h, b)
           r == MergePrev(g, b)
<1>1. PICK C : /\ Chain(g, C, brk) /\ Keeps(h, B, g, C)
               /\ b \in C /\ g[b].size >= h[b].size
               /\ QuietBut(g, C, b)
  BY MergeNextChain
<1> HIDE DEF g
<1>2. B \subseteq DOMAIN h /\ C \subseteq DOMAIN g
  BY <1>1 DEF Chain
<1>3. g[b].free
  BY <1>1, <1>2 DEF Keeps
<1>4. PICK D : /\ Chain(r, D, brk) /\ Keeps(g, C, r, D) /\ Quiet(r, D)
               /\ \E d \in D : r[d].free /\ r[d].size >= g[b].size
  <2> HIDE DEF r
  <2> QED BY <1>1, <1>3, MergePrevChain DEF r
<1>5. coalesce(h, b) = r
  BY DEF coalesce, g
<1> HIDE DEF r
<1>6. Keeps(h, B, r, D)
  BY <1>1, <1>2, <1>4 DEF Keeps
<1>7. PICK d \in D : r[d].free /\ r[d].size >= g[b].size
  BY <1>4
<1>8. r[d].size >= h[b].size
  <2>1. d \in DOMAIN r /\ b \in DOMAIN g /\ b \in DOMAIN h
    BY <1>1, <1>2, <1>4 DEF Chain
  <2>2. r[d].size \in Int /\ g[b].size \in Int /\ h[b].size \in Int
    BY <1>1, <1>4, <2>1, ChainFields
  <2> QED BY <1>1, <1>7, <2>2
<1> QED BY <1>4, <1>5, <1>6, <1>7, <1>8

-----------------------------------------------------------------------------
(* Taking and splitting.                                                   *)

Used(h, B) == {b \in B : ~h[b].free}

\* r is h with block b marked free or used.
MarkedAs(h, b, f, r) ==
    /\ DOMAIN r = DOMAIN h
    /\ \A a \in DOMAIN h :
         /\ r[a].free = IF a = b THEN f ELSE h[a].free
         /\ r[a].size = h[a].size /\ r[a].next = h[a].next /\ r[a].prev = h[a].prev

\* Marking a block keeps the chain.
LEMMA Marked ==
    ASSUME NEW h, NEW B, NEW brk, Chain(h, B, brk), NEW b \in B, NEW f \in BOOLEAN,
           NEW r, r = [h EXCEPT ![b].free = f]
    PROVE  Chain(r, B, brk) /\ MarkedAs(h, b, f, r)
<1>1. B \subseteq DOMAIN h /\ h \in [DOMAIN h -> Header] /\ b \in DOMAIN h
  BY DEF Chain, Headers
<1>2. PICK y \in Header : /\ y = [h[b] EXCEPT !.free = f] /\ y.free = f
                          /\ y.size = h[b].size /\ y.next = h[b].next /\ y.prev = h[b].prev
  <2>1. PICK x \in Header : x = h[b]
    BY <1>1
  <2>2. LET y == [x EXCEPT !.free = f]
        IN  /\ y \in Header /\ y.free = f
            /\ y.size = x.size /\ y.next = x.next /\ y.prev = x.prev
    BY HeaderFree
  <2> QED BY <2>1, <2>2
<1>3. r \in [DOMAIN h -> Header] /\ MarkedAs(h, b, f, r)
  <2>1. r = [h EXCEPT ![b] = y]
    BY <1>2
  <2> QED BY <1>1, <1>2, <2>1 DEF MarkedAs
<1> SUFFICES ASSUME NEW g \in [DOMAIN h -> Header], MarkedAs(h, b, f, g)
             PROVE  Chain(g, B, brk)
  BY <1>3
<1>4. /\ DOMAIN g = DOMAIN h
      /\ \A a \in DOMAIN h :
           g[a].size = h[a].size /\ g[a].next = h[a].next /\ g[a].prev = h[a].prev
  BY DEF MarkedAs
<1>5. \A a \in DOMAIN h : End(g, a) = End(h, a)
  BY <1>4 DEF End
<1>6. Headers(h) /\ brk \in Addr /\ heap_head \in B
  BY DEF Chain
<1>7. \A c \in B : /\ g[c].next \in B \cup {NULL}
                   /\ End(g, c) = IF g[c].next = NULL THEN brk ELSE g[c].next
                   /\ g[c].next # NULL => g[g[c].next].prev = c
  BY <1>1, <1>4, <1>5 DEF Chain
<1>8. g[heap_head].prev = NULL
  BY <1>1, <1>4, <1>6 DEF Chain
<1>9. \A c \in B \ {heap_head} : g[c].prev \in B /\ g[g[c].prev].next = c
  BY <1>1, <1>4 DEF Chain
<1>10. Chain(g, B, brk)
  BY <1>1, <1>4, <1>6, <1>7, <1>8, <1>9 DEF Chain, Headers
<1> QED BY <1>10

\* r is h after block b gave the words behind its first n to a new block s.
SplitAt(h, B, b, n, s, r) ==
    /\ s \in Addr /\ s = b + HEADER + n /\ b < s /\ s < End(h, b) /\ s \notin B
    /\ DOMAIN r = DOMAIN h \cup {s} /\ r \in [DOMAIN h \cup {s} -> Header]
    /\ r[s].size = h[b].size - n - HEADER /\ r[s].free = TRUE
    /\ r[s].next = h[b].next /\ r[s].prev = b
    /\ \A a \in DOMAIN h \ {s} :
         /\ r[a].free = IF a = b THEN FALSE ELSE h[a].free
         /\ r[a].size = IF a = b THEN n ELSE h[a].size
         /\ r[a].next = IF a = b THEN s ELSE h[a].next
         /\ r[a].prev = IF a = h[b].next THEN s ELSE h[a].prev

\* What splitting block b after n words does to each field (heap.c:93-99).
LEMMA SplitFields ==
    ASSUME NEW h, NEW B, NEW brk, Chain(h, B, brk), NEW b \in B,
           NEW n \in Nat, CanSplit(h, b, n)
    PROVE  SplitAt(h, B, b, n, b + HEADER + n, TakeBlock(h, b, n))
<1> DEFINE s == b + HEADER + n
           m == h[b].next
           r == TakeBlock(h, b, n)
           rest == [size |-> h[b].size - n - HEADER, free |-> TRUE, next |-> m, prev |-> b]
           f == [h EXCEPT ![b].size = n, ![b].next = s, ![b].free = FALSE]
           g == SetPrev(f, m, s)
<1>1. /\ B \subseteq DOMAIN h /\ h \in [DOMAIN h -> Header] /\ b \in DOMAIN h /\ b \in Addr
      /\ m \in B \cup {NULL} /\ m \in Addr \cup {NULL} /\ NULL \notin DOMAIN h
      /\ h[b] \in Header
  BY ChainFields, Constants DEF Chain, Headers
<1>2. /\ h[b].size \in Int /\ h[b].size >= n + HEADER + ALIGN /\ b \in Int
      /\ h[b].size <= Limit - HEAP_START /\ b >= HEAP_START
  <2>1. h[b].size \in 0 .. Limit - HEAP_START
    BY <1>1 DEF Header
  <2> QED BY <2>1, ChainFields, <1>1, Constants DEF CanSplit
<1>3. s \in Int /\ b < s /\ s < End(h, b)
  BY <1>2, Constants DEF End
<1>4. s \in Addr
  <2>1. brk \in Int /\ brk <= Limit /\ End(h, b) <= brk /\ End(h, b) \in Int
    <3>1. brk \in Addr
      BY DEF Chain
    <3>2. End(h, b) <= brk /\ End(h, b) \in Int
      BY <1>1, ChainLast, ChainFields
    <3> QED BY <3>1, <3>2, Constants DEF Addr
  <2>2. HEAP_START \in Int /\ Limit \in Int /\ s > HEAP_START /\ s < Limit
    <3> HIDE DEF s
    <3> QED BY <1>2, <1>3, <2>1, Constants
  <2> HIDE DEF s
  <2> QED BY <1>3, <2>2 DEF Addr
<1>5. s \notin B
  <2> SUFFICES ASSUME s \in B PROVE FALSE
    OBVIOUS
  <2>1. End(h, b) <= s
    <3> QED BY <1>3, ChainOrdered
  <2>2. End(h, b) \in Int
    BY <1>1, ChainFields
  <2> QED BY <1>3, <2>1, <2>2
<1>6. n \in 0 .. Limit - HEAP_START /\ h[b].size - n - HEADER \in 0 .. Limit - HEAP_START
  BY <1>2, Constants
<1> HIDE DEF s, m
<1>7. PICK y \in Header : /\ y = [h[b] EXCEPT !.size = n, !.next = s, !.free = FALSE]
                          /\ y.size = n /\ y.next = s /\ y.free = FALSE
                          /\ y.prev = h[b].prev
  <2>1. PICK x \in Header : x = h[b]
    BY <1>1
  <2>2. LET y == [x EXCEPT !.size = n, !.next = s, !.free = FALSE]
        IN  /\ y \in Header /\ y.size = n /\ y.next = s /\ y.free = FALSE
            /\ y.prev = x.prev
    BY <1>4, <1>6 DEF Header
  <2> QED BY <2>1, <2>2
<1>8. f = [h EXCEPT ![b] = y]
  BY <1>7
<1>9. m # b /\ m # s
  <2>1. m # NULL => m > b
    BY ChainFields DEF m
  <2> QED BY <1>1, <1>2, <1>4, <1>5, <2>1, Constants
<1> HIDE DEF f
<1>10. /\ f \in [DOMAIN h -> Header]
       /\ \A a \in DOMAIN h :
            /\ f[a].free = IF a = b THEN FALSE ELSE h[a].free
            /\ f[a].size = IF a = b THEN n ELSE h[a].size
            /\ f[a].next = IF a = b THEN s ELSE h[a].next
            /\ f[a].prev = h[a].prev
  BY <1>1, <1>7, <1>8
<1>11. /\ g \in [DOMAIN h -> Header]
       /\ \A a \in DOMAIN h :
            /\ g[a].free = f[a].free /\ g[a].size = f[a].size /\ g[a].next = f[a].next
            /\ g[a].prev = IF a = m THEN s ELSE f[a].prev
  <2>1. CASE m = NULL
    BY <2>1, <1>1, <1>10 DEF SetPrev
  <2>2. CASE m # NULL
    <3>1. PICK x \in Header : x = f[m] /\ m \in DOMAIN h
      BY <1>1, <1>10, <2>2
    <3>2. PICK z \in Header : /\ z = [x EXCEPT !.prev = s] /\ z.prev = s
                              /\ z.size = x.size /\ z.free = x.free /\ z.next = x.next
      BY <1>4, HeaderPrev
    <3>3. g = [f EXCEPT ![m] = z]
      BY <2>2, <3>1, <3>2 DEF SetPrev
    <3> HIDE DEF g
    <3> QED BY <2>2, <1>1, <1>10, <3>1, <3>2, <3>3
  <2> QED BY <2>1, <2>2
<1>12. /\ rest \in Header /\ rest.size = h[b].size - n - HEADER /\ rest.free = TRUE
       /\ rest.next = m /\ rest.prev = b
  BY <1>1, <1>6 DEF Header
<1>13. r = Put(g, s, rest)
  BY DEF TakeBlock, g, f, s, m
<1>14. DOMAIN g = DOMAIN h
  BY <1>11
<1> HIDE DEF g, r, rest
<1>15. r = [a \in DOMAIN h \cup {s} |-> IF a = s THEN rest ELSE g[a]]
  BY <1>13, <1>14 DEF Put
<1>16. /\ DOMAIN r = DOMAIN h \cup {s} /\ r \in [DOMAIN h \cup {s} -> Header]
       /\ r[s] = rest /\ \A a \in DOMAIN h \ {s} : r[a] = g[a]
  BY <1>11, <1>12, <1>15
<1>17. /\ r[s].size = h[b].size - n - HEADER /\ r[s].free = TRUE
       /\ r[s].next = m /\ r[s].prev = b
  BY <1>12, <1>16
<1>18. \A a \in DOMAIN h \ {s} :
         /\ r[a].free = IF a = b THEN FALSE ELSE h[a].free
         /\ r[a].size = IF a = b THEN n ELSE h[a].size
         /\ r[a].next = IF a = b THEN s ELSE h[a].next
         /\ r[a].prev = IF a = m THEN s ELSE h[a].prev
  <2> SUFFICES ASSUME NEW a \in DOMAIN h \ {s}
               PROVE  /\ r[a].free = IF a = b THEN FALSE ELSE h[a].free
                      /\ r[a].size = IF a = b THEN n ELSE h[a].size
                      /\ r[a].next = IF a = b THEN s ELSE h[a].next
                      /\ r[a].prev = IF a = m THEN s ELSE h[a].prev
    OBVIOUS
  <2>1. r[a] = g[a] /\ a \in DOMAIN h
    BY <1>16
  <2> QED BY <1>10, <1>11, <2>1
<1> QED BY <1>3, <1>4, <1>5, <1>16, <1>17, <1>18 DEF r, s, m, SplitAt

\* A split puts one block into the chain.
LEMMA SplitChain ==
    ASSUME NEW h, NEW B, NEW brk, Chain(h, B, brk), NEW b \in B,
           NEW n \in Nat, NEW s, NEW r, SplitAt(h, B, b, n, s, r)
    PROVE  Chain(r, B \cup {s}, brk)
<1> DEFINE m == h[b].next
           C == B \cup {s}
<1>1. /\ B \subseteq DOMAIN h /\ DOMAIN h \subseteq Addr /\ brk \in Addr /\ heap_head \in B
      /\ m \in B \cup {NULL} /\ NULL \notin DOMAIN h /\ b \in DOMAIN h /\ NULL \notin Addr
  BY ChainFields, Constants DEF Chain, Headers
<1>2. \A c \in B : /\ h[c].next \in B \cup {NULL}
                   /\ End(h, c) = IF h[c].next = NULL THEN brk ELSE h[c].next
                   /\ h[c].next # NULL => h[h[c].next].prev = c
  BY DEF Chain
<1>3. /\ h[heap_head].prev = NULL
      /\ \A c \in B \ {heap_head} : h[c].prev \in B /\ h[h[c].prev].next = c
  BY DEF Chain
<1>4. \A c \in B : c \in Int /\ c >= heap_head /\ (h[c].next # NULL => h[c].next > c)
  BY <1>1, ChainFields, Constants
<1>5. /\ s \in Addr /\ s = b + HEADER + n /\ b < s /\ s < End(h, b) /\ s \notin B
      /\ DOMAIN r = DOMAIN h \cup {s} /\ r \in [DOMAIN h \cup {s} -> Header]
      /\ r[s].size = h[b].size - n - HEADER
      /\ r[s].next = m /\ r[s].prev = b
      /\ \A a \in DOMAIN h \ {s} :
           /\ r[a].size = IF a = b THEN n ELSE h[a].size
           /\ r[a].next = IF a = b THEN s ELSE h[a].next
           /\ r[a].prev = IF a = m THEN s ELSE h[a].prev
  BY DEF SplitAt
<1>6. End(r, b) = s
  BY <1>1, <1>5 DEF End
<1>7. End(r, s) = End(h, b)
  <2>1. h[b].size \in Int /\ b \in Int
    BY <1>1, ChainFields
  <2> QED BY <1>5, <2>1, Constants DEF End
<1> HIDE DEF m
<1>8. b # s /\ m # s /\ m # b /\ m # heap_head /\ s # heap_head /\ s # NULL /\ b # NULL
  BY <1>1, <1>4, <1>5, Constants DEF m
<1>9. \A c \in B : c # s /\ End(r, c) = IF c = b THEN s ELSE End(h, c)
  BY <1>1, <1>5, <1>6 DEF End
<1>10. \A c \in B : c # b => h[c].next # m \/ m = NULL
  BY <1>1, <1>2 DEF m
<1>11. ASSUME NEW c \in C
       PROVE  /\ r[c].next \in C \cup {NULL}
              /\ End(r, c) = IF r[c].next = NULL THEN brk ELSE r[c].next
              /\ r[c].next # NULL => r[r[c].next].prev = c
  <2>1. CASE c = b
    <3>1. r[c].next = s
      BY <1>1, <1>5, <1>8, <2>1
    <3> QED BY <1>5, <1>6, <1>8, <2>1, <3>1
  <2>2. CASE c = s
    <3>1. m # NULL => r[m].prev = s
      BY <1>1, <1>5, <1>8
    <3>2. End(h, b) = IF m = NULL THEN brk ELSE m
      BY <1>2 DEF m
    <3> QED BY <1>1, <1>5, <1>7, <2>2, <3>1, <3>2
  <2>3. CASE c # b /\ c # s
    <3>1. c \in B /\ r[c].next = h[c].next /\ End(r, c) = End(h, c)
      BY <1>1, <1>5, <1>9, <2>3
    <3>2. h[c].next # NULL => h[c].next # m /\ h[c].next \in B /\ h[c].next # s
      BY <1>2, <1>9, <1>10, <2>3, <3>1
    <3>3. h[c].next # NULL => r[h[c].next].prev = h[h[c].next].prev
      BY <1>1, <1>5, <3>2
    <3> QED BY <1>2, <3>1, <3>2, <3>3
  <2> QED BY <2>1, <2>2, <2>3
<1>12. r[heap_head].prev = NULL
  BY <1>1, <1>3, <1>5, <1>8
<1>13. ASSUME NEW c \in C \ {heap_head} PROVE r[c].prev \in C /\ r[r[c].prev].next = c
  <2>1. CASE c = s
    BY <1>1, <1>5, <1>8, <2>1
  <2>2. CASE c = m /\ c # s
    BY <1>1, <1>5, <2>2
  <2>3. CASE c # m /\ c # s
    <3>1. r[c].prev = h[c].prev /\ h[c].prev \in B /\ h[h[c].prev].next = c
      BY <1>1, <1>3, <1>5, <2>3
    <3>2. h[c].prev # b /\ h[c].prev # s
      BY <2>3, <3>1, <1>9 DEF m
    <3> QED BY <1>1, <1>5, <3>1, <3>2
  <2> QED BY <2>1, <2>2, <2>3
<1>14. Chain(r, C, brk)
  BY <1>1, <1>5, <1>11, <1>12, <1>13 DEF Chain, Headers
<1> QED BY <1>14

\* A block that fits is taken for n words: it is in use afterwards, large
\* enough, and the other blocks in use are as before.
LEMMA TakeBlockChain ==
    ASSUME NEW h, NEW B, NEW brk, Chain(h, B, brk), Quiet(h, B), NEW b \in B,
           NEW n \in Nat, Fits(h, b, n)
    PROVE  LET r == TakeBlock(h, b, n)
           IN  \E C : /\ Chain(r, C, brk) /\ Quiet(r, C) /\ DOMAIN h \subseteq DOMAIN r
                      /\ Used(r, C) = Used(h, B) \cup {b} /\ b \notin Used(h, B)
                      /\ r[b].size >= n
                      /\ \A c \in Used(h, B) : r[c].size = h[c].size
<1> DEFINE r == TakeBlock(h, b, n)
           s == b + HEADER + n
<1>1. B \subseteq DOMAIN h /\ (\A c \in B : h[c].next \in B \cup {NULL}) /\ b \notin Used(h, B)
  BY DEF Chain, Fits, Used
<1>2. CASE CanSplit(h, b, n)
  <2>1. SplitAt(h, B, b, n, s, r)
    BY <1>2, SplitFields
  <2> HIDE DEF r, s
  <2>2. /\ s \notin B /\ DOMAIN r = DOMAIN h \cup {s} /\ b # s
        /\ r[s].free = TRUE /\ r[s].next = h[b].next
        /\ \A a \in DOMAIN h \ {s} : /\ r[a].free = IF a = b THEN FALSE ELSE h[a].free
                                     /\ r[a].size = IF a = b THEN n ELSE h[a].size
                                     /\ r[a].next = IF a = b THEN s ELSE h[a].next
    BY <2>1 DEF SplitAt
  <2>3. \A c \in B : /\ r[c].free = IF c = b THEN FALSE ELSE h[c].free
                     /\ r[c].size = IF c = b THEN n ELSE h[c].size
                     /\ r[c].next = IF c = b THEN s ELSE h[c].next
    BY <1>1, <2>2
  <2>4. Used(r, B \cup {s}) = Used(h, B) \cup {b}
    BY <2>2, <2>3 DEF Used
  <2>5. h[b].free /\ \A c \in B : h[c].free /\ h[c].next # NULL => ~h[h[c].next].free
    BY DEF Quiet, Fits
  <2>6. \A c \in B : ~h[c].free => ~r[c].free
    BY <2>3
  <2>7. ASSUME NEW c \in B \cup {s}, r[c].free, r[c].next # NULL PROVE ~r[r[c].next].free
    <3>1. CASE c = s
      BY <1>1, <2>2, <2>5, <2>6, <2>7, <3>1
    <3>2. CASE c # s
      <4>1. c \in B /\ c # b
        BY <2>3, <2>7, <3>2
      <4> QED BY <1>1, <2>3, <2>5, <2>6, <2>7, <4>1
    <3> QED BY <3>1, <3>2
  <2>8. r[b].size >= n
    <3>1. r[b].size = n
      BY <2>3, Zenon
    <3> QED BY <3>1
  <2>9. \A c \in Used(h, B) : r[c].size = h[c].size
    BY <1>1, <2>3 DEF Used
  <2>10. Chain(r, B \cup {s}, brk)
    BY <2>1, SplitChain
  <2>11. Quiet(r, B \cup {s}) /\ DOMAIN h \subseteq DOMAIN r
    BY <2>2, <2>7 DEF Quiet
  <2> QED BY <1>1, <2>4, <2>8, <2>9, <2>10, <2>11 DEF r
<1>3. CASE ~CanSplit(h, b, n)
  <2>1. r = [h EXCEPT ![b].free = FALSE]
    BY <1>3 DEF TakeBlock
  <2>2. Chain(r, B, brk) /\ MarkedAs(h, b, FALSE, r)
    BY <2>1, Marked
  <2> HIDE DEF r
  <2>3. Used(r, B) = Used(h, B) \cup {b}
    BY <1>1, <2>2 DEF Used, MarkedAs
  <2>4. Quiet(r, B)
    BY <1>1, <2>2 DEF Quiet, MarkedAs
  <2>5. r[b].size >= n /\ \A c \in Used(h, B) : r[c].size = h[c].size
    BY <1>1, <2>2 DEF Used, Fits, MarkedAs
  <2>6. DOMAIN h \subseteq DOMAIN r
    BY <2>2 DEF MarkedAs
  <2> QED BY <1>1, <2>2, <2>3, <2>4, <2>5, <2>6 DEF r
<1> QED BY <1>2, <1>3

-----------------------------------------------------------------------------
(* Growing.                                                                *)

\* Sizes are rounded up, not down (heap.c:21-25, 79).
LEMMA RoundUpIs ==
    ASSUME NEW n \in Nat, NEW unit \in Nat \ {0}
    PROVE  RoundUp(n, unit) \in Nat /\ RoundUp(n, unit) >= n
<1> DEFINE x == n + unit - 1
           q == x \div unit
           m == x % unit
<1>1. x \in Nat
  OBVIOUS
<1> HIDE DEF x
<1>2. q \in Nat /\ m \in 0 .. unit - 1 /\ x = q * unit + m
  BY <1>1
<1>3. q * unit \in Nat
  BY <1>2
<1>4. q * unit >= n
  BY <1>2, <1>3 DEF x
<1> QED BY <1>3, <1>4 DEF RoundUp, x

\* r is h with a new free block at e behind the block last.
AppendedAt(h, last, e, size, r) ==
    /\ DOMAIN r = DOMAIN h \cup {e} /\ r \in [DOMAIN h \cup {e} -> Header]
    /\ r[e].size = size /\ r[e].free = TRUE /\ r[e].next = NULL /\ r[e].prev = last
    /\ \A a \in DOMAIN h \ {e} :
         /\ r[a].free = h[a].free /\ r[a].size = h[a].size /\ r[a].prev = h[a].prev
         /\ r[a].next = IF a = last THEN e ELSE h[a].next

\* What heap_expand does before it merges (heap.c:62-73).
LEMMA AppendFields ==
    ASSUME NEW h, NEW B, NEW brk, Chain(h, B, brk), NEW last \in B,
           NEW size \in 0 .. Limit - HEAP_START
    PROVE  AppendedAt(h, last, brk, size,
              [Put(h, brk, [size |-> size, free |-> TRUE, next |-> NULL, prev |-> last])
                 EXCEPT ![last].next = brk])
<1> DEFINE newb == [size |-> size, free |-> TRUE, next |-> NULL, prev |-> last]
           g == Put(h, brk, newb)
           r == [g EXCEPT ![last].next = brk]
<1>1. h \in [DOMAIN h -> Header] /\ last \in DOMAIN h /\ brk \in Addr /\ last \in Addr
  BY ChainFields DEF Chain, Headers
<1>2. newb \in Header
  BY <1>1 DEF Header
<1>3. last # brk
  <2>1. last < brk /\ last \in Int
    BY <1>1, ChainLast, ChainFields
  <2> QED BY <2>1
<1>4. /\ newb.size = size /\ newb.free = TRUE /\ newb.next = NULL /\ newb.prev = last
  OBVIOUS
<1> HIDE DEF newb
<1>5. g = [a \in DOMAIN h \cup {brk} |-> IF a = brk THEN newb ELSE h[a]]
  BY DEF Put
<1> HIDE DEF g
<1>6. /\ g \in [DOMAIN h \cup {brk} -> Header] /\ g[brk] = newb
      /\ \A a \in DOMAIN h \ {brk} : g[a] = h[a]
  BY <1>1, <1>2, <1>5
<1>7. PICK x \in Header : x = g[last]
  BY <1>1, <1>6
<1>8. PICK y \in Header : /\ y = [x EXCEPT !.next = brk] /\ y.next = brk
                          /\ y.size = x.size /\ y.free = x.free /\ y.prev = x.prev
  BY <1>1, HeaderNext
<1>9. r = [g EXCEPT ![last] = y]
  BY <1>7, <1>8
<1> HIDE DEF r
<1>10. /\ r \in [DOMAIN h \cup {brk} -> Header] /\ r[brk] = newb /\ r[last] = y
       /\ \A a \in DOMAIN h \ {brk, last} : r[a] = h[a]
  BY <1>1, <1>3, <1>6, <1>9
<1>11. x = h[last]
  BY <1>1, <1>3, <1>6, <1>7
<1>12. AppendedAt(h, last, brk, size, r)
  <2>1. /\ r[brk].size = size /\ r[brk].free = TRUE
        /\ r[brk].next = NULL /\ r[brk].prev = last
    BY <1>4, <1>10
  <2>2. /\ r[last].size = h[last].size /\ r[last].free = h[last].free
        /\ r[last].next = brk /\ r[last].prev = h[last].prev
    BY <1>8, <1>10, <1>11
  <2> QED BY <1>10, <2>1, <2>2 DEF AppendedAt
<1> QED BY <1>12 DEF r, g, newb

\* A block behind the last makes the chain longer.
LEMMA AppendChain ==
    ASSUME NEW h, NEW B, NEW brk, Chain(h, B, brk), NEW last \in B, h[last].next = NULL,
           NEW size \in 0 .. Limit - HEAP_START, brk + HEADER + size <= Limit,
           NEW r, AppendedAt(h, last, brk, size, r)
    PROVE  Chain(r, B \cup {brk}, brk + HEADER + size)
<1> DEFINE C == B \cup {brk}
           end == brk + HEADER + size
<1>1. /\ B \subseteq DOMAIN h /\ DOMAIN h \subseteq Addr /\ brk \in Addr /\ heap_head \in B
      /\ NULL \notin Addr /\ last \in DOMAIN h
  BY Constants DEF Chain, Headers
<1>2. \A c \in B : /\ h[c].next \in B \cup {NULL}
                   /\ End(h, c) = IF h[c].next = NULL THEN brk ELSE h[c].next
                   /\ h[c].next # NULL => h[h[c].next].prev = c
  BY DEF Chain
<1>3. /\ h[heap_head].prev = NULL
      /\ \A c \in B \ {heap_head} : h[c].prev \in B /\ h[h[c].prev].next = c
  BY DEF Chain
<1>4. brk \notin B /\ (\A c \in B : h[c].next = NULL => c = last)
  <2>1. \A c \in B : c \in Int /\ c < brk
    BY ChainLast, ChainFields
  <2>2. \A c \in B : h[c].next = NULL => c <= last /\ last <= c
    BY ChainLast
  <2>3. brk \notin B
    BY <2>1
  <2> QED BY <2>1, <2>2, <2>3
<1>5. end \in Addr /\ brk \in Int
  BY <1>1, Constants DEF Addr
<1>6. /\ DOMAIN r = DOMAIN h \cup {brk} /\ r \in [DOMAIN h \cup {brk} -> Header]
      /\ r[brk].size = size /\ r[brk].next = NULL /\ r[brk].prev = last
      /\ \A c \in B : /\ r[c].size = h[c].size /\ r[c].prev = h[c].prev
                      /\ r[c].next = IF c = last THEN brk ELSE h[c].next
  BY <1>1, <1>4 DEF AppendedAt
<1>7. End(r, brk) = end /\ \A c \in B : End(r, c) = End(h, c)
  BY <1>6 DEF End
<1> HIDE DEF end
<1>8. ASSUME NEW c \in C
      PROVE  /\ r[c].next \in C \cup {NULL}
             /\ End(r, c) = IF r[c].next = NULL THEN end ELSE r[c].next
             /\ r[c].next # NULL => r[r[c].next].prev = c
  <2>1. CASE c = brk
    BY <1>6, <1>7, <2>1
  <2>2. CASE c = last
    <3>1. r[c].next = brk /\ brk # NULL /\ End(h, c) = brk
      BY <1>1, <1>2, <1>6, <2>2
    <3> QED BY <1>6, <1>7, <2>2, <3>1
  <2>3. CASE c # brk /\ c # last
    <3>1. c \in B /\ r[c].next = h[c].next /\ h[c].next # NULL /\ h[c].next \in B
      BY <1>2, <1>4, <1>6, <2>3
    <3> QED BY <1>2, <1>6, <1>7, <3>1
  <2> QED BY <2>1, <2>2, <2>3
<1>9. r[heap_head].prev = NULL
  BY <1>1, <1>3, <1>6
<1>10. ASSUME NEW c \in C \ {heap_head} PROVE r[c].prev \in C /\ r[r[c].prev].next = c
  <2>1. CASE c = brk
    BY <1>6, <2>1
  <2>2. CASE c # brk
    <3>1. r[c].prev = h[c].prev /\ h[c].prev \in B /\ h[h[c].prev].next = c /\ c \in B
      BY <1>3, <1>6, <2>2
    <3>2. h[c].prev # last
      BY <1>1, <3>1
    <3> QED BY <1>6, <3>1, <3>2
  <2> QED BY <2>1, <2>2
<1>11. Headers(r)
  BY <1>1, <1>6 DEF Headers
<1>12. Chain(r, C, end)
  BY <1>1, <1>5, <1>6, <1>8, <1>9, <1>10, <1>11 DEF Chain
<1> QED BY <1>12 DEF end

\* The size of an expansion is enough for the request and a header.
LEMMA GrowthIs ==
    ASSUME NEW n \in Nat
    PROVE  Growth(n) \in Nat /\ Growth(n) >= n + HEADER + PAGE_SIZE
<1>1. PAGE_SIZE \in Nat \ {0} /\ n + HEADER + PAGE_SIZE \in Nat
  BY Constants
<1> QED BY <1>1, RoundUpIs DEF Growth

\* heap_expand leaves a chain of the larger heap, with the same blocks in use
\* and a free block large enough for the request.
LEMMA ExpandChain ==
    ASSUME NEW h, NEW B, Chain(h, B, heap_brk), Quiet(h, B), NEW n \in Nat,
           heap_brk + Growth(n) <= Limit
    PROVE  LET r == Expand(h, n)
           IN  \E C : /\ Chain(r, C, heap_brk + Growth(n)) /\ Quiet(r, C)
                      /\ DOMAIN h \subseteq DOMAIN r
                      /\ Used(r, C) = Used(h, B)
                      /\ \A c \in Used(h, B) : r[c].size = h[c].size
                      /\ \E d \in C : Fits(r, d, n)
<1> DEFINE last == CHOOSE b \in Blocks(h) : h[b].next = NULL
           size == Growth(n) - HEADER
           g == [Put(h, heap_brk, [size |-> size, free |-> TRUE, next |-> NULL, prev |-> last])
                   EXCEPT ![last].next = heap_brk]
           r == coalesce(g, heap_brk)
           end == heap_brk + Growth(n)
           D == B \cup {heap_brk}
<1>1. last \in B /\ h[last].next = NULL
  <2>1. Blocks(h) = B
    BY BlocksAre
  <2>2. \E b \in B : h[b].next = NULL
    BY ChainLast
  <2> QED BY <2>1, <2>2
<1>2. Expand(h, n) = r
  BY DEF Expand
<1> HIDE DEF last
<1>3. heap_brk \in Addr
  BY DEF Chain
<1>4. /\ size \in 0 .. Limit - HEAP_START /\ heap_brk + HEADER + size = end /\ end <= Limit
      /\ size >= n
  <2>1. heap_brk \in Int /\ heap_brk >= HEAP_START /\ Growth(n) \in Nat
    BY <1>3, Constants, GrowthIs DEF Addr
  <2>2. Growth(n) >= n + HEADER + PAGE_SIZE
    BY GrowthIs
  <2> QED BY <2>1, <2>2, Constants
<1>5. AppendedAt(h, last, heap_brk, size, g)
  <2> HIDE DEF size
  <2> QED BY <1>1, <1>4, AppendFields
<1> HIDE DEF size, g, end
<1>6. Chain(g, D, end)
  BY <1>1, <1>4, <1>5, AppendChain
<1>7. heap_brk \notin B
  <2>1. \A c \in B : c \in Int /\ c < heap_brk
    BY ChainLast, ChainFields
  <2> QED BY <2>1, <1>3, Constants
<1>8. /\ B \subseteq DOMAIN h /\ \A c \in B : h[c].next \in B \cup {NULL}
  BY DEF Chain
<1>9. /\ g[heap_brk].free = TRUE /\ g[heap_brk].size = size
      /\ DOMAIN g = DOMAIN h \cup {heap_brk}
      /\ \A c \in B : /\ g[c].free = h[c].free /\ g[c].size = h[c].size
                      /\ g[c].next = IF c = last THEN heap_brk ELSE h[c].next
  BY <1>5, <1>7, <1>8 DEF AppendedAt
<1>10. \A c \in D \ {heap_brk} : g[c].free /\ g[c].next # NULL /\ g[c].next # heap_brk
                                  => ~g[g[c].next].free
  BY <1>8, <1>9 DEF Quiet
<1>11. PICK C : /\ Chain(r, C, end) /\ Keeps(g, D, r, C) /\ Quiet(r, C)
                /\ \E d \in C : r[d].free /\ r[d].size >= g[heap_brk].size
  <2>1. heap_brk \in D /\ g[heap_brk].free
    BY <1>9
  <2> HIDE DEF D
  <2> QED BY <1>6, <1>10, <2>1, CoalesceChain
<1>12. C \subseteq DOMAIN r
  BY <1>11 DEF Chain
<1> HIDE DEF r
<1>13. Used(r, C) = Used(h, B)
  <2>1. Used(g, D) = Used(h, B)
    BY <1>9 DEF Used
  <2>2. Used(r, C) = Used(g, D)
    <3>1. D \subseteq DOMAIN g
      BY <1>8, <1>9
    <3> HIDE DEF D
    <3> QED BY <1>11, <3>1 DEF Keeps, Used
  <2> QED BY <2>1, <2>2
<1>14. \A c \in Used(h, B) : r[c].size = h[c].size
  BY <1>9, <1>11 DEF Used, Keeps
<1>15. PICK d \in C : r[d].free /\ r[d].size >= g[heap_brk].size
  BY <1>11
<1>16. Fits(r, d, n)
  <2>1. r[d].size \in Int
    BY <1>11, <1>12, ChainFields
  <2> QED BY <1>4, <1>9, <1>15, <2>1 DEF Fits
<1>17. DOMAIN h \subseteq DOMAIN r
  BY <1>9, <1>11 DEF Keeps
<1> QED BY <1>2, <1>11, <1>13, <1>14, <1>16, <1>17 DEF r, end

-----------------------------------------------------------------------------
(* kmalloc and kfree on chains.                                            *)

\* kmalloc takes one more block, large enough for the request, and leaves the
\* other blocks in use alone.
LEMMA KmallocChain ==
    ASSUME NEW h, NEW B, Chain(h, B, heap_brk), Quiet(h, B), NEW size \in Nat,
           Affordable(h, size)
    PROVE  LET r == Kmalloc(h, size)
           IN  \E C : /\ Chain(r.hdr, C, r.brk) /\ Quiet(r.hdr, C)
                      /\ DOMAIN h \subseteq DOMAIN r.hdr
                      /\ Used(r.hdr, C) = Used(h, B) \cup {r.block}
                      /\ r.block \notin Used(h, B)
                      /\ r.hdr[r.block].size >= size
                      /\ \A c \in Used(h, B) : r.hdr[c].size = h[c].size
<1> DEFINE n  == RoundUp(size, ALIGN)
           b0 == FirstFit(h, n)
           h1 == IF b0 = NULL THEN Expand(h, n) ELSE h
           e  == IF b0 = NULL THEN heap_brk + Growth(n) ELSE heap_brk
           b  == FirstFit(h1, n)
           g  == TakeBlock(h1, b, n)
<1>1. n \in Nat /\ n >= size
  BY RoundUpIs
<1>2. Kmalloc(h, size) = [hdr |-> g, brk |-> e, block |-> b]
  BY DEF Kmalloc
<1>3. b0 # NULL \/ heap_brk + Growth(n) <= Limit
  BY DEF Affordable
<1> HIDE DEF n, b0
<1>4. PICK D : /\ Chain(h1, D, e) /\ Quiet(h1, D) /\ DOMAIN h \subseteq DOMAIN h1
               /\ Used(h1, D) = Used(h, B)
               /\ \A c \in Used(h, B) : h1[c].size = h[c].size
               /\ \E d \in D : Fits(h1, d, n)
  <2>1. CASE b0 = NULL
    <3>1. h1 = Expand(h, n) /\ e = heap_brk + Growth(n) /\ heap_brk + Growth(n) <= Limit
      BY <1>3, <2>1
    <3> HIDE DEF h1, e
    <3> QED BY <1>1, <3>1, ExpandChain
  <2>2. CASE b0 # NULL
    <3>1. h1 = h /\ e = heap_brk
      BY <2>2
    <3>2. b0 \in B /\ Fits(h, b0, n)
      BY <2>2, FirstFitIs DEF b0
    <3> HIDE DEF h1, e
    <3> QED BY <3>1, <3>2
  <2> QED BY <2>1, <2>2
<1> HIDE DEF h1, e
<1>5. b \in D /\ Fits(h1, b, n)
  BY <1>4, FirstFitIs
<1> HIDE DEF b
<1>6. PICK C : /\ Chain(g, C, e) /\ Quiet(g, C) /\ DOMAIN h1 \subseteq DOMAIN g
               /\ Used(g, C) = Used(h1, D) \cup {b} /\ b \notin Used(h1, D)
               /\ g[b].size >= n
               /\ \A c \in Used(h1, D) : g[c].size = h1[c].size
  BY <1>1, <1>4, <1>5, TakeBlockChain
<1> HIDE DEF g
<1>7. g[b].size >= size
  <2>1. b \in DOMAIN g
    BY <1>6 DEF Used, Chain
  <2>2. g[b].size \in Int
    BY <1>6, <2>1, ChainFields
  <2> QED BY <1>1, <1>6, <2>2
<1>8. \A c \in Used(h, B) : g[c].size = h[c].size
  BY <1>4, <1>6
<1> QED BY <1>2, <1>4, <1>6, <1>7, <1>8

\* kfree of a block in use takes it from the blocks in use.
LEMMA FreedChain ==
    ASSUME NEW h, NEW B, NEW brk, Chain(h, B, brk), Quiet(h, B),
           NEW p, p - HEADER \in Used(h, B)
    PROVE  LET r == Freed(h, p)
           IN  \E C : /\ Chain(r, C, brk) /\ Quiet(r, C) /\ DOMAIN r = DOMAIN h
                      /\ Used(r, C) = Used(h, B) \ {p - HEADER}
                      /\ \A c \in Used(h, B) \ {p - HEADER} : r[c].size = h[c].size
<1> DEFINE b == p - HEADER
           g == [h EXCEPT ![b].free = TRUE]
           r == coalesce(g, b)
<1>1. Freed(h, p) = r
  BY DEF Freed
<1>2. b \in B /\ b \in Used(h, B)
  BY DEF Used
<1> HIDE DEF b
<1>3. Chain(g, B, brk) /\ MarkedAs(h, b, TRUE, g)
  BY <1>2, Marked
<1> HIDE DEF g
<1>4. B \subseteq DOMAIN h /\ \A c \in B : h[c].next \in B \cup {NULL}
  BY DEF Chain
<1>5. /\ DOMAIN g = DOMAIN h
      /\ \A c \in DOMAIN h : /\ g[c].free = IF c = b THEN TRUE ELSE h[c].free
                             /\ g[c].size = h[c].size /\ g[c].next = h[c].next
  BY <1>3 DEF MarkedAs
<1>6. g[b].free
  BY <1>2, <1>4, <1>5
<1>7. \A c \in B \ {b} : g[c].free /\ g[c].next # NULL /\ g[c].next # b => ~g[g[c].next].free
  BY <1>4, <1>5 DEF Quiet
<1>8. PICK C : Chain(r, C, brk) /\ Keeps(g, B, r, C) /\ Quiet(r, C)
  BY <1>2, <1>3, <1>6, <1>7, CoalesceChain
<1> HIDE DEF r
<1>9. Used(g, B) = Used(h, B) \ {b}
  BY <1>2, <1>4, <1>5 DEF Used
<1>10. Used(r, C) = Used(g, B)
  BY <1>4, <1>5, <1>8 DEF Keeps, Used
<1>11. \A c \in Used(h, B) \ {b} : r[c].size = h[c].size
  BY <1>4, <1>5, <1>8 DEF Keeps, Used
<1>12. DOMAIN r = DOMAIN h
  BY <1>5, <1>8 DEF Keeps
<1> QED BY <1>1, <1>8, <1>9, <1>10, <1>11, <1>12 DEF b

\* Dropping headers that are on no list keeps the chain.
LEMMA RestrictChain ==
    ASSUME NEW h, NEW B, NEW brk, Chain(h, B, brk), NEW S, B \subseteq S, S \subseteq DOMAIN h
    PROVE  LET r == [a \in S |-> h[a]]
           IN  Chain(r, B, brk) /\ Used(r, B) = Used(h, B) /\ (Quiet(h, B) => Quiet(r, B))
<1> DEFINE r == [a \in S |-> h[a]]
<1>1. DOMAIN r = S /\ \A a \in S : r[a] = h[a]
  OBVIOUS
<1>2. Headers(r)
  BY DEF Chain, Headers
<1> HIDE DEF r
<1>3. \A c \in B : r[c] = h[c] /\ End(r, c) = End(h, c)
  BY <1>1 DEF End
<1>4. Chain(r, B, brk)
  BY <1>1, <1>2, <1>3 DEF Chain
<1>5. Used(r, B) = Used(h, B)
  BY <1>3 DEF Used
<1>6. Quiet(h, B) => Quiet(r, B)
  <2>1. \A c \in B : h[c].next \in B \cup {NULL}
    BY DEF Chain
  <2> QED BY <1>3, <2>1 DEF Quiet
<1> QED BY <1>4, <1>5, <1>6 DEF r

-----------------------------------------------------------------------------
(* The invariant.                                                          *)

\* The callers' pointers L are the blocks in use among B, each large enough.
Owned(h, B, L) ==
    /\ L \subseteq Int \X Requests
    /\ Used(h, B) = {l[1] - HEADER : l \in L}
    /\ \A l \in L : h[l[1] - HEADER].size >= l[2]
    /\ \A l, k \in L : l[1] = k[1] => l = k

\* The headers h are those of a heap that ends at brk, where callers hold the
\* pointers L and still know the freed pointers K.
Sound(h, brk, L, K) ==
    /\ \A p \in K : p - HEADER \in DOMAIN h
    /\ \E B : Chain(h, B, brk) /\ Quiet(h, B) /\ Owned(h, B, L)

IInv ==
    /\ Sound(hdr, heap_brk, live, stale)
    /\ Cardinality(stale) <= MaxStale

\* The memory areas of the blocks in use.
Area(h, b) == <<b + HEADER, h[b].size>>
AreasOf(h) == {Area(h, b) : b \in Used(h, Blocks(h))}

\* The headers r have one area less than h.
LosesOne(h, r) == \E a \in AreasOf(h) : AreasOf(r) = AreasOf(h) \ {a}

\* kmalloc hands out a pointer nobody has.
LEMMA SoundKmalloc ==
    ASSUME NEW h, NEW L, NEW K, Sound(h, heap_brk, L, K), NEW size \in Requests,
           Affordable(h, size)
    PROVE  LET r == Kmalloc(h, size)
           IN  /\ Sound(r.hdr, r.brk, L \cup {<<r.block + HEADER, size>>}, K)
               /\ \A l \in L : l[1] # r.block + HEADER
<1> DEFINE r == Kmalloc(h, size)
           new == <<r.block + HEADER, size>>
           M == L \cup {new}
<1>1. PICK B : Chain(h, B, heap_brk) /\ Quiet(h, B) /\ Owned(h, B, L)
  BY DEF Sound
<1>2. size \in Nat
  OBVIOUS
<1>3. PICK C : /\ Chain(r.hdr, C, r.brk) /\ Quiet(r.hdr, C)
               /\ DOMAIN h \subseteq DOMAIN r.hdr
               /\ Used(r.hdr, C) = Used(h, B) \cup {r.block} /\ r.block \notin Used(h, B)
               /\ r.hdr[r.block].size >= size
               /\ \A c \in Used(h, B) : r.hdr[c].size = h[c].size
  BY <1>1, <1>2, KmallocChain
<1> HIDE DEF r
<1>4. r.block \in Int
  <2>1. r.block \in DOMAIN r.hdr
    BY <1>3 DEF Used, Chain
  <2> QED BY <1>3, <2>1, ChainFields
<1>5. /\ new \in Int \X Requests /\ new[1] - HEADER = r.block /\ new[2] = size
      /\ new[1] = r.block + HEADER
  BY <1>4, Constants
<1>6. /\ L \subseteq Int \X Requests /\ Used(h, B) = {l[1] - HEADER : l \in L}
      /\ (\A l \in L : h[l[1] - HEADER].size >= l[2])
      /\ (\A l, k \in L : l[1] = k[1] => l = k)
  BY <1>1 DEF Owned
<1> HIDE DEF new
<1>7. \A l \in L : l[1] # new[1]
  BY <1>3, <1>5, <1>6
<1>8. Owned(r.hdr, C, M)
  <2>1. Used(r.hdr, C) = {l[1] - HEADER : l \in M}
    BY <1>3, <1>5, <1>6
  <2>2. ASSUME NEW l \in M PROVE r.hdr[l[1] - HEADER].size >= l[2]
    <3>1. CASE l = new
      BY <1>3, <1>5, <3>1
    <3>2. CASE l # new
      BY <1>3, <1>6, <3>2
    <3> QED BY <3>1, <3>2
  <2>3. \A l, k \in M : l[1] = k[1] => l = k
    BY <1>6, <1>7
  <2> QED BY <1>5, <1>6, <2>1, <2>2, <2>3 DEF Owned
<1>9. \A p \in K : p - HEADER \in DOMAIN r.hdr
  BY <1>3 DEF Sound
<1>10. Sound(r.hdr, r.brk, M, K)
  BY <1>3, <1>8, <1>9 DEF Sound
<1> QED BY <1>5, <1>7, <1>10 DEF r, new

\* Different blocks of a chain are disjoint areas.
LEMMA ChainDisjoint ==
    ASSUME NEW h, NEW B, NEW brk, Chain(h, B, brk), NEW b \in B, NEW c \in B, b # c
    PROVE  Alloc!Disjoint(Area(h, b), Area(h, c))
<1>1. b \in Int /\ c \in Int /\ h[b].size \in Int /\ h[c].size \in Int
  BY ChainFields
<1>2. b < c => End(h, b) <= c
  BY ChainOrdered
<1>3. c < b => End(h, c) <= b
  BY ChainOrdered
<1> QED BY <1>1, <1>2, <1>3, Constants DEF Alloc!Disjoint, Area, End

\* kmalloc adds one area, disjoint from all others.
LEMMA AreasKmalloc ==
    ASSUME NEW h, NEW L, NEW K, Sound(h, heap_brk, L, K), NEW size \in Requests,
           Affordable(h, size)
    PROVE  \E a : /\ AreasOf(Kmalloc(h, size).hdr) = AreasOf(h) \cup {a}
                  /\ a \notin AreasOf(h)
                  /\ \A x \in AreasOf(h) : Alloc!Disjoint(a, x)
<1> DEFINE r == Kmalloc(h, size)
           b == r.block
           a == Area(r.hdr, b)
<1>1. PICK B : Chain(h, B, heap_brk) /\ Quiet(h, B)
  BY DEF Sound
<1>2. PICK C : /\ Chain(r.hdr, C, r.brk) /\ Quiet(r.hdr, C)
               /\ DOMAIN h \subseteq DOMAIN r.hdr
               /\ Used(r.hdr, C) = Used(h, B) \cup {b} /\ b \notin Used(h, B)
               /\ r.hdr[b].size >= size
               /\ \A c \in Used(h, B) : r.hdr[c].size = h[c].size
  BY <1>1, KmallocChain
<1> HIDE DEF r, b
<1>3. Blocks(h) = B /\ Blocks(r.hdr) = C
  BY <1>1, <1>2, BlocksAre
<1>4. \A c \in Used(h, B) : Area(r.hdr, c) = Area(h, c)
  BY <1>2 DEF Area
<1>5. \A c \in Used(h, B) : c # b /\ c \in C /\ b \in C
  BY <1>2 DEF Used
<1>6. \A c \in Used(h, B) : Alloc!Disjoint(a, Area(h, c))
  <2> SUFFICES ASSUME NEW c \in Used(h, B) PROVE Alloc!Disjoint(a, Area(r.hdr, c))
    BY <1>4
  <2> QED BY <1>2, <1>5, ChainDisjoint
<1>7. \A c \in Used(h, B) : a # Area(h, c)
  <2> SUFFICES ASSUME NEW c \in Used(h, B), a = Area(h, c) PROVE FALSE
    OBVIOUS
  <2>1. c \in Int /\ b \in Int /\ c # b
    BY <1>2, <1>5, ChainFields
  <2>2. b + HEADER = c + HEADER
    BY DEF Area
  <2> QED BY <2>1, <2>2, Constants
<1> HIDE DEF a
<1>8. AreasOf(h) = {Area(h, c) : c \in Used(h, B)}
  BY <1>3 DEF AreasOf
<1>9. AreasOf(r.hdr) = AreasOf(h) \cup {a}
  BY <1>2, <1>3, <1>4, <1>8 DEF AreasOf, a
<1> QED BY <1>6, <1>7, <1>8, <1>9 DEF r

\* kfree takes back a pointer, and the headers nobody can reach are gone.
LEMMA SoundFree ==
    ASSUME NEW h, NEW brk, NEW L, NEW K, Sound(h, brk, L, K), NEW l \in L,
           NEW J, J \subseteq K \cup {l[1]}
    PROVE  /\ Sound(Readable(Freed(h, l[1]), L \ {l}, J), brk, L \ {l}, J)
           /\ LosesOne(h, Readable(Freed(h, l[1]), L \ {l}, J))
<1> DEFINE M == L \ {l}
           b == l[1] - HEADER
           g == Freed(h, l[1])
           r == Readable(g, M, J)
<1>1. PICK B : Chain(h, B, brk) /\ Quiet(h, B) /\ Owned(h, B, L)
  BY DEF Sound
<1>2. /\ L \subseteq Int \X Requests /\ Used(h, B) = {k[1] - HEADER : k \in L}
      /\ (\A k \in L : h[k[1] - HEADER].size >= k[2])
      /\ (\A k, m \in L : k[1] = m[1] => k = m)
  BY <1>1 DEF Owned
<1>3. b \in Used(h, B)
  BY <1>2
<1>4. PICK C : /\ Chain(g, C, brk) /\ Quiet(g, C) /\ DOMAIN g = DOMAIN h
               /\ Used(g, C) = Used(h, B) \ {b}
               /\ \A c \in Used(h, B) \ {b} : g[c].size = h[c].size
  <2> HIDE DEF g
  <2> QED BY <1>1, <1>3, FreedChain DEF g
<1> HIDE DEF g
<1>5. Blocks(g) = C
  BY <1>4, BlocksAre
<1> DEFINE S == C \cup {k[1] - HEADER : k \in M} \cup {p - HEADER : p \in J}
<1>6. r = [a \in S |-> g[a]]
  BY <1>5 DEF Readable
<1>7. \A k \in M : k[1] - HEADER \in Used(g, C)
  <2> SUFFICES ASSUME NEW k \in M, k[1] - HEADER = l[1] - HEADER PROVE FALSE
    BY <1>2, <1>4
  <2>1. k[1] \in Int /\ l[1] \in Int
    BY <1>2
  <2>2. k[1] = l[1]
    BY <2>1, Constants
  <2> QED BY <1>2, <2>2
<1>8. S \subseteq DOMAIN g /\ C \subseteq S
  <2>1. C \subseteq DOMAIN g
    BY <1>4 DEF Chain
  <2>2. \A k \in M : k[1] - HEADER \in C
    BY <1>7 DEF Used
  <2>3. \A p \in J : p - HEADER \in DOMAIN g
    <3>1. b \in DOMAIN h
      BY <1>1, <1>3 DEF Used, Chain
    <3>2. \A p \in K : p - HEADER \in DOMAIN h
      BY DEF Sound
    <3> QED BY <1>4, <3>1, <3>2
  <2> QED BY <2>1, <2>2, <2>3
<1>9. Chain(r, C, brk) /\ Used(r, C) = Used(g, C) /\ Quiet(r, C)
  <2> HIDE DEF S, r
  <2> QED BY <1>4, <1>6, <1>8, RestrictChain
<1>10. Owned(r, C, M)
  <2>1. Used(r, C) = {k[1] - HEADER : k \in M}
    <3>1. \A a \in Used(g, C) : \E k \in M : a = k[1] - HEADER
      BY <1>2, <1>4
    <3> HIDE DEF M, r
    <3> QED BY <1>7, <1>9, <3>1
  <2>2. ASSUME NEW k \in M PROVE r[k[1] - HEADER].size >= k[2]
    <3> DEFINE c == k[1] - HEADER
    <3>1. c \in Used(h, B) \ {b}
      BY <1>4, <1>7
    <3>2. g[c].size = h[c].size /\ h[c].size >= k[2]
      BY <1>2, <1>4, <3>1
    <3>3. c \in S
      OBVIOUS
    <3> HIDE DEF S, c
    <3>4. r[c].size = g[c].size
      BY <1>6, <3>3
    <3> QED BY <3>2, <3>4 DEF c
  <2> HIDE DEF r
  <2> QED BY <1>2, <2>1, <2>2 DEF Owned
<1>11. \A p \in J : p - HEADER \in DOMAIN r
  BY <1>6
<1> DEFINE a == Area(h, b)
<1>12. a \in AreasOf(h) /\ AreasOf(r) = AreasOf(h) \ {a}
  <2>1. Blocks(h) = B /\ Blocks(r) = C
    <3> HIDE DEF r
    <3> QED BY <1>1, <1>9, BlocksAre
  <2>2. \A c \in Used(h, B) \ {b} : Area(r, c) = Area(h, c)
    <3> SUFFICES ASSUME NEW c \in Used(h, B) \ {b} PROVE Area(r, c) = Area(h, c)
      OBVIOUS
    <3>1. g[c].size = h[c].size /\ c \in S
      BY <1>4 DEF Used
    <3> HIDE DEF S
    <3>2. r[c] = g[c]
      BY <1>6, <3>1
    <3> HIDE DEF r
    <3> QED BY <3>1, <3>2 DEF Area
  <2>3. Used(r, C) = Used(h, B) \ {b}
    BY <1>4, <1>9
  <2>4. \A c \in Used(h, B) \ {b} : Area(h, c) # Area(h, b)
    <3> SUFFICES ASSUME NEW c \in Used(h, B), Area(h, c) = Area(h, b) PROVE c = b
      OBVIOUS
    <3>1. c \in Int /\ b \in Int
      BY <1>1, <1>3, ChainFields DEF Used
    <3>2. c + HEADER = b + HEADER
      BY DEF Area
    <3> HIDE DEF b
    <3> QED BY <3>1, <3>2, Constants
  <2> HIDE DEF r, b
  <2> QED BY <1>3, <2>1, <2>2, <2>3, <2>4 DEF AreasOf
<1> HIDE DEF r, a
<1>13. Sound(r, brk, M, J)
  BY <1>4, <1>9, <1>10, <1>11 DEF Sound
<1>14. LosesOne(h, r)
  BY <1>12 DEF LosesOne
<1> QED BY <1>13, <1>14 DEF r, g

-----------------------------------------------------------------------------
(* The invariant is inductive.                                             *)

\* heap_init makes a chain of one free block.
LEMMA InitSound == Init => IInv
<1> SUFFICES ASSUME Init PROVE IInv
  OBVIOUS
<1> DEFINE first == [size |-> PAGE_SIZE - HEADER, free |-> TRUE, next |-> NULL, prev |-> NULL]
           B == {HEAP_START}
<1>1. /\ hdr = [a \in B |-> first] /\ heap_brk = HEAP_START + PAGE_SIZE
      /\ live = {} /\ stale = {}
  BY DEF Init
<1>2. HEAP_START \in Addr /\ heap_brk \in Addr /\ PAGE_SIZE - HEADER \in 0 .. Limit - HEAP_START
  BY <1>1, Constants DEF Addr
<1>3. first \in Header
  BY <1>2 DEF Header
<1>4. /\ DOMAIN hdr = B /\ hdr[HEAP_START] = first
      /\ first.next = NULL /\ first.prev = NULL /\ first.free = TRUE
      /\ first.size = PAGE_SIZE - HEADER
  BY <1>1
<1>5. End(hdr, HEAP_START) = heap_brk
  BY <1>1, <1>4, Constants DEF End
<1> HIDE DEF first
<1>6. Headers(hdr)
  BY <1>1, <1>2, <1>3 DEF Headers
<1>7. Chain(hdr, B, heap_brk)
  BY <1>2, <1>4, <1>5, <1>6, Constants DEF Chain
<1>8. Quiet(hdr, B) /\ Owned(hdr, B, live)
  BY <1>1, <1>4 DEF Quiet, Owned, Used
<1>9. Cardinality(stale) <= MaxStale
  BY <1>1, FS_EmptySet
<1> QED BY <1>1, <1>7, <1>8, <1>9 DEF IInv, Sound

\* krealloc of a block that is large enough only changes the size asked for.
LEMMA SoundResize ==
    ASSUME NEW h, NEW brk, NEW L, NEW K, Sound(h, brk, L, K), NEW l \in L,
           NEW size \in Requests, h[l[1] - HEADER].size >= size
    PROVE  Sound(h, brk, (L \ {l}) \cup {<<l[1], size>>}, K)
<1> DEFINE new == <<l[1], size>>
           M == (L \ {l}) \cup {new}
<1>1. PICK B : Chain(h, B, brk) /\ Quiet(h, B) /\ Owned(h, B, L)
  BY DEF Sound
<1>2. /\ L \subseteq Int \X Requests /\ Used(h, B) = {k[1] - HEADER : k \in L}
      /\ (\A k \in L : h[k[1] - HEADER].size >= k[2])
      /\ (\A k, m \in L : k[1] = m[1] => k = m)
  BY <1>1 DEF Owned
<1>3. new \in Int \X Requests /\ new[1] = l[1] /\ new[2] = size
  BY <1>2
<1> HIDE DEF new
<1>4. Used(h, B) = {k[1] - HEADER : k \in M}
  BY <1>2, <1>3
<1>5. \A k \in M : h[k[1] - HEADER].size >= k[2]
  BY <1>2, <1>3
<1>6. \A k, m \in M : k[1] = m[1] => k = m
  BY <1>2, <1>3
<1>7. Owned(h, B, M)
  BY <1>2, <1>3, <1>4, <1>5, <1>6 DEF Owned
<1> QED BY <1>1, <1>7 DEF Sound, new

\* Every operation of Next keeps the invariant.
LEMMA NextSound == IInv /\ [Next]_vars => IInv'
<1> SUFFICES ASSUME IInv, [Next]_vars PROVE IInv'
  OBVIOUS
<1>1. Sound(hdr, heap_brk, live, stale) /\ Cardinality(stale) <= MaxStale
  BY DEF IInv
<1>2. ASSUME NEW size \in Requests, kmalloc(size) PROVE IInv'
  <2> DEFINE r == Kmalloc(hdr, size)
             new == <<r.block + HEADER, size>>
  <2>1. /\ Affordable(hdr, size) /\ hdr' = r.hdr /\ heap_brk' = r.brk
        /\ live' = live \cup {new} /\ stale' = stale
    BY <1>2 DEF kmalloc
  <2>2. Sound(r.hdr, r.brk, live \cup {new}, stale)
    BY <1>1, <2>1, SoundKmalloc
  <2> HIDE DEF r, new
  <2> QED BY <1>1, <2>1, <2>2 DEF IInv
<1>3. ASSUME NEW l \in live, kfree(l) PROVE IInv'
  <2>1. /\ live' = live \ {l} /\ stale' \subseteq stale \cup {l[1]}
        /\ Cardinality(stale') <= MaxStale /\ heap_brk' = heap_brk
        /\ hdr' = Readable(Freed(hdr, l[1]), live', stale')
    BY <1>3 DEF kfree
  <2>2. Sound(Readable(Freed(hdr, l[1]), live \ {l}, stale'), heap_brk, live \ {l}, stale')
    BY <1>1, <2>1, SoundFree
  <2> QED BY <2>1, <2>2 DEF IInv
<1>4. ASSUME NEW l \in live, NEW size \in Requests, krealloc(l, size) PROVE IInv'
  <2>1. CASE hdr[l[1] - HEADER].size >= size
    <3>1. /\ live' = (live \ {l}) \cup {<<l[1], size>>}
          /\ hdr' = hdr /\ heap_brk' = heap_brk /\ stale' = stale
      BY <1>4, <2>1 DEF krealloc
    <3>2. Sound(hdr, heap_brk, (live \ {l}) \cup {<<l[1], size>>}, stale)
      BY <1>1, <2>1, SoundResize
    <3> QED BY <1>1, <3>1, <3>2 DEF IInv
  <2>2. CASE ~(hdr[l[1] - HEADER].size >= size)
    <3> DEFINE r == Kmalloc(hdr, size)
               new == <<r.block + HEADER, size>>
    <3>1. /\ Affordable(hdr, size) /\ heap_brk' = r.brk /\ stale' = stale
          /\ live' = (live \ {l}) \cup {new}
          /\ hdr' = Readable(Freed(r.hdr, l[1]), live', stale)
      BY <1>4, <2>2 DEF krealloc
    <3>2. /\ Sound(r.hdr, r.brk, live \cup {new}, stale)
          /\ \A k \in live : k[1] # r.block + HEADER
      BY <1>1, <3>1, SoundKmalloc
    <3>3. l # new
      BY <3>2
    <3> HIDE DEF r, new
    <3>4. (live \cup {new}) \ {l} = live'
      BY <3>1, <3>3
    <3>5. stale \subseteq stale \cup {l[1]} /\ l \in live \cup {new}
      OBVIOUS
    <3>6. Sound(Readable(Freed(r.hdr, l[1]), (live \cup {new}) \ {l}, stale), r.brk,
                (live \cup {new}) \ {l}, stale)
      BY <3>2, <3>5, SoundFree
    <3> QED BY <1>1, <3>1, <3>4, <3>6 DEF IInv
  <2> QED BY <2>1, <2>2
<1>5. CASE UNCHANGED vars
  BY <1>1, <1>5 DEF vars, IInv
<1> QED BY <1>2, <1>3, <1>4, <1>5 DEF Next

\* What the invariant says of the properties of the runs.
LEMMA InvariantMeans ==
    ASSUME IInv
    PROVE  /\ Chain(hdr, Blocks(hdr), heap_brk) /\ Quiet(hdr, Blocks(hdr))
           /\ Owned(hdr, Blocks(hdr), live)
<1>1. PICK B : Chain(hdr, B, heap_brk) /\ Quiet(hdr, B) /\ Owned(hdr, B, live)
  BY DEF IInv, Sound
<1> QED BY <1>1, BlocksAre

\* The list is a doubly linked chain that fills the heap, every pointer a caller
\* holds has a block of its own, and the blocks in use are exactly those.
THEOREM Inductive == Spec => []IInv
<1>1. Init => IInv
  BY InitSound
<1>2. IInv /\ [Next]_vars => IInv'
  BY NextSound
<1> QED BY <1>1, <1>2, PTL DEF Spec

\* Through any sequence of kmalloc, kfree and krealloc the blocks fill the heap
\* without gap or overlap, and every prev is the inverse of a next.
THEOREM AlwaysTiled == Spec => []Tiling
<1>1. IInv => Tiling
  <2> SUFFICES ASSUME IInv PROVE Tiling
    OBVIOUS
  <2>1. Chain(hdr, Blocks(hdr), heap_brk)
    BY InvariantMeans
  <2> DEFINE B == Blocks(hdr)
  <2>2. /\ B \subseteq DOMAIN hdr
        /\ \A b \in B : /\ hdr[b].next \in B \cup {NULL}
                        /\ End(hdr, b) = IF hdr[b].next = NULL THEN heap_brk ELSE hdr[b].next
                        /\ hdr[b].next # NULL => hdr[hdr[b].next].prev = b
    BY <2>1 DEF Chain
  <2> HIDE DEF B
  <2>3. ASSUME NEW b \in B
        PROVE  /\ hdr[b].next \in DOMAIN hdr \cup {NULL}
               /\ b + HEADER + hdr[b].size = IF hdr[b].next = NULL THEN heap_brk ELSE hdr[b].next
               /\ hdr[b].next # NULL => hdr[hdr[b].next].prev = b
    BY <2>2 DEF End
  <2> QED BY <2>3 DEF Tiling, B
<1> QED BY <1>1, Inductive, PTL

\* No two neighbours are ever both free.
THEOREM AlwaysCoalesced == Spec => []Coalesced
<1>1. IInv => Coalesced
  BY InvariantMeans DEF Coalesced, Quiet
<1> QED BY <1>1, Inductive, PTL

\* The blocks in use are always exactly those callers hold, each as large as
\* asked for, and the state has its type.
THEOREM AlwaysAccounted == Spec => []Accounted
<1>1. IInv => Accounted
  <2> SUFFICES ASSUME IInv PROVE Accounted
    OBVIOUS
  <2> DEFINE B == Blocks(hdr)
  <2>1. Chain(hdr, B, heap_brk) /\ Owned(hdr, B, live)
    BY InvariantMeans
  <2> HIDE DEF B
  <2>2. DOMAIN hdr \subseteq Addr /\ heap_brk \in Addr /\ B \subseteq DOMAIN hdr
    BY <2>1 DEF Chain, Headers
  <2>3. \A a \in DOMAIN hdr :
          /\ hdr[a].size \in 0 .. Limit - HEAP_START
          /\ hdr[a].free \in BOOLEAN
          /\ {hdr[a].next, hdr[a].prev} \subseteq Addr \cup {NULL}
    <3>1. \A a \in DOMAIN hdr : hdr[a] \in Header
      BY <2>1, ChainFields
    <3> QED BY <3>1 DEF Header
  <2>4. /\ live \subseteq Int \X Requests
        /\ {b \in B : ~hdr[b].free} = {l[1] - HEADER : l \in live}
        /\ \A l \in live : hdr[l[1] - HEADER].size >= l[2]
        /\ \A l, k \in live : l[1] = k[1] => l = k
    BY <2>1 DEF Owned, Used
  <2>5. \A l \in live : l[1] - HEADER \in DOMAIN hdr /\ l[2] \in Requests
    BY <2>2, <2>4
  <2>6. Cardinality(stale) <= MaxStale /\ \A p \in stale : p - HEADER \in DOMAIN hdr
    BY DEF IInv, Sound
  <2>7. TypeOK
    BY <2>2, <2>3, <2>5, <2>6 DEF TypeOK, Addr
  <2> QED BY <2>4, <2>7 DEF Accounted, B
<1> QED BY <1>1, Inductive, PTL

-----------------------------------------------------------------------------
(* The heap implements the allocator.                                      *)

\* A step of the heap allocates one area, releases one, replaces one by
\* another, or leaves them all as they are.
LEMMA AllocatorStep == IInv /\ [Next]_vars => [Alloc!AllocNext]_Areas
<1> SUFFICES ASSUME IInv, [Next]_vars PROVE [Alloc!AllocNext]_Areas
  OBVIOUS
<1>1. Sound(hdr, heap_brk, live, stale)
  BY DEF IInv
<1>2. Areas = AreasOf(hdr) /\ Areas' = AreasOf(hdr')
  BY DEF Areas, AreasOf, Area, Used
<1>3. ASSUME NEW size \in Requests, kmalloc(size) PROVE Alloc!AllocNext
  <2>1. Affordable(hdr, size) /\ hdr' = Kmalloc(hdr, size).hdr
    BY <1>3 DEF kmalloc
  <2>2. PICK a : /\ AreasOf(hdr') = AreasOf(hdr) \cup {a} /\ a \notin AreasOf(hdr)
                 /\ \A x \in AreasOf(hdr) : Alloc!Disjoint(a, x)
    BY <1>1, <2>1, AreasKmalloc
  <2>3. a \in Areas' \ Areas /\ Alloc!Allocate(a)
    BY <1>2, <2>2 DEF Alloc!Allocate
  <2> QED BY <2>3 DEF Alloc!AllocNext
<1>4. ASSUME NEW l \in live, kfree(l) PROVE Alloc!AllocNext
  <2>1. /\ live' = live \ {l} /\ stale' \subseteq stale \cup {l[1]}
        /\ hdr' = Readable(Freed(hdr, l[1]), live', stale')
    BY <1>4 DEF kfree
  <2> DEFINE g == Readable(Freed(hdr, l[1]), live \ {l}, stale')
  <2>2. PICK a : AreasOf(hdr') = AreasOf(hdr) \ {a} /\ a \in AreasOf(hdr)
    <3>1. /\ Sound(g, heap_brk, live \ {l}, stale')
          /\ LosesOne(hdr, g)
      BY <1>1, <2>1, SoundFree
    <3>2. hdr' = g
      BY <2>1
    <3> HIDE DEF g
    <3> QED BY <3>1, <3>2 DEF LosesOne
  <2>3. a \in Areas \ Areas' /\ Alloc!Release(a)
    BY <1>2, <2>2 DEF Alloc!Release
  <2> QED BY <2>3 DEF Alloc!AllocNext
<1>5. ASSUME NEW l \in live, NEW size \in Requests, krealloc(l, size)
      PROVE  [Alloc!AllocNext]_Areas
  <2>1. CASE hdr[l[1] - HEADER].size >= size
    <3>1. hdr' = hdr
      BY <1>5, <2>1 DEF krealloc
    <3> QED BY <1>2, <3>1
  <2>2. CASE ~(hdr[l[1] - HEADER].size >= size)
    <3> DEFINE r == Kmalloc(hdr, size)
               new == <<r.block + HEADER, size>>
               M == live \cup {new}
    <3>1. /\ Affordable(hdr, size) /\ live' = (live \ {l}) \cup {new}
          /\ hdr' = Readable(Freed(r.hdr, l[1]), live', stale)
      BY <1>5, <2>2 DEF krealloc
    <3>2. Sound(r.hdr, r.brk, M, stale) /\ \A k \in live : k[1] # r.block + HEADER
      BY <1>1, <3>1, SoundKmalloc
    <3>3. PICK b : /\ AreasOf(r.hdr) = AreasOf(hdr) \cup {b} /\ b \notin AreasOf(hdr)
                   /\ \A x \in AreasOf(hdr) : Alloc!Disjoint(b, x)
      BY <1>1, <3>1, AreasKmalloc
    <3>4. l # new
      BY <3>2
    <3> HIDE DEF r, new
    <3>5. M \ {l} = live' /\ l \in M
      BY <3>1, <3>4
    <3> HIDE DEF M
    <3>6. PICK a : AreasOf(hdr') = AreasOf(r.hdr) \ {a} /\ a \in AreasOf(r.hdr)
      <4>1. stale \subseteq stale \cup {l[1]}
        OBVIOUS
      <4> DEFINE g == Readable(Freed(r.hdr, l[1]), M \ {l}, stale)
      <4>2. /\ Sound(g, r.brk, M \ {l}, stale)
            /\ LosesOne(r.hdr, g)
        BY <3>2, <3>5, <4>1, SoundFree
      <4>3. hdr' = g
        BY <3>1, <3>5
      <4> HIDE DEF g
      <4> QED BY <4>2, <4>3 DEF LosesOne
    <3>7. CASE a = b
      <4>1. AreasOf(hdr') = AreasOf(hdr)
        BY <3>3, <3>6, <3>7
      <4> QED BY <1>2, <4>1
    <3>8. CASE a # b
      <4>1. a \in Areas \ Areas' /\ b \in Areas' \ Areas /\ Alloc!Replace(a, b)
        BY <1>2, <3>3, <3>6, <3>8 DEF Alloc!Replace
      <4> QED BY <4>1 DEF Alloc!AllocNext
    <3> QED BY <3>7, <3>8
  <2> QED BY <2>1, <2>2
<1>6. CASE UNCHANGED vars
  BY <1>2, <1>6 DEF vars
<1> QED BY <1>3, <1>4, <1>5, <1>6 DEF Next

\* The kernel heap, with all its splitting, merging and growing, is an
\* allocator of disjoint areas that never move.
THEOREM HeapIsAllocator == Spec => ImplementsAllocator
<1>1. Init => Alloc!AllocInit
  <2> SUFFICES ASSUME Init PROVE Areas = {}
    BY DEF Alloc!AllocInit
  <2>1. IInv /\ live = {}
    BY InitSound DEF Init
  <2>2. Used(hdr, Blocks(hdr)) = {}
    BY <2>1, InvariantMeans DEF Owned
  <2> QED BY <2>2 DEF Areas, Used
<1>2. IInv /\ [Next]_vars => [Alloc!AllocNext]_Areas
  BY AllocatorStep
<1> QED BY <1>1, <1>2, Inductive, PTL DEF Spec, ImplementsAllocator, Alloc!AllocSpec
=============================================================================
