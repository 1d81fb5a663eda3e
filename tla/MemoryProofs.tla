---------------------------- MODULE MemoryProofs ----------------------------
EXTENDS Memory, FiniteSetTheorems, Recursion

Pages == 0 .. KERNEL_ENTRY * ENTRIES - 1
Hi(v) == v \div ENTRIES
Lo(v) == v % ENTRIES

\* The constants.
LEMMA ConstantTypes ==
    /\ ENTRIES \in Nat \ {0} /\ KERNEL_ENTRY \in Nat \ {0} /\ KERNEL_ENTRY <= ENTRIES
    /\ START_PAGE \in Nat \ {0} /\ TOTAL_PAGES \in Nat /\ START_PAGE + 2 <= ENTRIES
    /\ ENTRIES <= TOTAL_PAGES /\ HEAP_PAGE \in Nat /\ ENTRIES <= HEAP_PAGE
    /\ MaxHeap \in Nat /\ HEAP_PAGE + MaxHeap <= KERNEL_ENTRY * ENTRIES
    /\ KERNEL_ENTRY * ENTRIES \in Nat
    /\ 0 \in Frames /\ kernel_dir \in Frames /\ START_PAGE + 1 \in Frames /\ None \notin Frames
BY MemoryAssumption DEF Frames, None, kernel_dir

\* The division with remainder, for any divisor.
LEMMA Division ==
    ASSUME NEW e \in Nat \ {0}, NEW v \in Nat
    PROVE  /\ v \div e \in Nat /\ v % e \in 0 .. e - 1 /\ v = e * (v \div e) + (v % e)
OBVIOUS

\* Page v is entry Lo(v) of table Hi(v).
LEMMA PageSplits ==
    /\ \A v \in Pages : v \in Nat /\ Hi(v) \in 0 .. KERNEL_ENTRY - 1 /\ Lo(v) \in 0 .. ENTRIES - 1
    /\ \A v, w \in Pages : Hi(v) = Hi(w) /\ Lo(v) = Lo(w) => v = w
    /\ \A v \in Pages : Hi(v) = 0 <=> v < ENTRIES
<1>1. \A v \in Pages : v \in Nat /\ v < KERNEL_ENTRY * ENTRIES
  BY ConstantTypes DEF Pages
<1>2. ASSUME NEW v \in Pages
      PROVE  v \in Nat /\ Hi(v) \in Nat /\ Lo(v) \in 0 .. ENTRIES - 1 /\ v = ENTRIES * Hi(v) + Lo(v)
  BY <1>1, ConstantTypes, Division DEF Hi, Lo
<1>3. ASSUME NEW v \in Pages PROVE Hi(v) < KERNEL_ENTRY
  <2> PICK i, j : i = Hi(v) /\ j = Lo(v)
    OBVIOUS
  <2>1. i \in Nat /\ j \in Nat /\ ENTRIES * i <= v /\ v < KERNEL_ENTRY * ENTRIES
    BY <1>1, <1>2, ConstantTypes
  <2>2. ENTRIES * i < ENTRIES * KERNEL_ENTRY
    BY <1>2, <2>1, ConstantTypes
  <2>3. i < KERNEL_ENTRY
    BY ONLY <2>1, <2>2, ConstantTypes
  <2> QED BY <2>3
<1>4. ASSUME NEW v \in Pages PROVE Hi(v) = 0 <=> v < ENTRIES
  <2> PICK i, j : i = Hi(v) /\ j = Lo(v)
    OBVIOUS
  <2>1. i \in Nat /\ j \in Nat /\ j < ENTRIES /\ v = ENTRIES * i + j /\ ENTRIES \in Nat \ {0}
    BY <1>2, ConstantTypes
  <2>2. CASE i = 0
    BY <2>1, <2>2
  <2>3. CASE i >= 1
    <3>1. ENTRIES * i >= ENTRIES
      BY <2>1, <2>3
    <3> QED BY <2>1, <2>3, <3>1
  <2> QED BY <2>1, <2>2, <2>3
<1> QED BY <1>2, <1>3, <1>4, ConstantTypes

-----------------------------------------------------------------------------
(* Frames.                                                                 *)

IsTable(t) == DOMAIN t \subseteq 0 .. ENTRIES - 1 /\ t \in [DOMAIN t -> Entry]
Tables     == UNION {[D -> Entry] : D \in SUBSET (0 .. ENTRIES - 1)}

FrameStates == [used : SUBSET Frames, used_pages : Int, mem : [Frames -> Tables]]

Counted(s) == s.used_pages = Cardinality(s.used)

\* A table has any number of entries.
LEMMA TablesAre == \A t : t \in Tables <=> IsTable(t)
<1>1. ASSUME NEW t, t \in Tables PROVE IsTable(t)
  <2>1. PICK D \in SUBSET (0 .. ENTRIES - 1) : t \in [D -> Entry]
    BY <1>1 DEF Tables
  <2>2. DOMAIN t = D
    BY <2>1
  <2> QED BY <2>1, <2>2 DEF IsTable
<1>2. ASSUME NEW t, IsTable(t) PROVE t \in Tables
  <2>1. DOMAIN t \in SUBSET (0 .. ENTRIES - 1) /\ t \in [DOMAIN t -> Entry]
    BY <1>2 DEF IsTable
  <2> QED BY <2>1 DEF Tables
<1> QED BY <1>1, <1>2

\* What a frame state is made of.
LEMMA FrameFields ==
    ASSUME NEW s \in FrameStates
    PROVE  /\ s.used \subseteq Frames /\ s.used_pages \in Int
           /\ DOMAIN s.mem = Frames /\ s.mem \in [Frames -> Tables]
           /\ \A f \in Frames : IsTable(s.mem[f]) /\ s.mem[f] \in Tables
           /\ \A f \in Frames : \A i \in DOMAIN s.mem[f] :
                /\ i \in 0 .. ENTRIES - 1 /\ s.mem[f][i] \in Entry
                /\ s.mem[f][i].frame \in Frames
<1>1. s.used \subseteq Frames /\ s.used_pages \in Int /\ s.mem \in [Frames -> Tables]
  BY DEF FrameStates
<1>2. \A f \in Frames : IsTable(s.mem[f]) /\ s.mem[f] \in Tables
  BY <1>1, TablesAre
<1>3. ASSUME NEW f \in Frames, NEW i \in DOMAIN s.mem[f]
      PROVE  /\ i \in 0 .. ENTRIES - 1 /\ s.mem[f][i] \in Entry
             /\ s.mem[f][i].frame \in Frames
  <2>1. i \in 0 .. ENTRIES - 1 /\ s.mem[f][i] \in Entry
    BY <1>2 DEF IsTable
  <2> QED BY <2>1 DEF Entry
<1> QED BY <1>1, <1>2, <1>3

\* The frames are finite in number, so what is in use can be counted.
LEMMA FramesFinite ==
    /\ IsFiniteSet(Frames) /\ Cardinality(Frames) = TOTAL_PAGES
    /\ \A S \in SUBSET Frames : /\ IsFiniteSet(S) /\ Cardinality(S) \in Nat
                                /\ Cardinality(S) <= TOTAL_PAGES
<1>1. IsFiniteSet(Frames) /\ Cardinality(Frames) = TOTAL_PAGES
  <2>1. 0 \in Int /\ TOTAL_PAGES - 1 \in Int /\ TOTAL_PAGES \in Nat /\ 0 <= TOTAL_PAGES - 1
    BY ConstantTypes
  <2> QED BY <2>1, FS_Interval DEF Frames
<1>2. \A S \in SUBSET Frames : IsFiniteSet(S) /\ Cardinality(S) <= TOTAL_PAGES
  BY <1>1, FS_Subset
<1> QED BY <1>1, <1>2, FS_CardinalityType

\* x with other bits and another count.
WithUsed(x, u, n) == [x EXCEPT !.used = u, !.used_pages = n]

\* The other fields of such a state, and its type.
LEMMA UsedFields ==
    ASSUME NEW x \in FrameStates, NEW u, u \subseteq Frames, NEW n \in Int
    PROVE  /\ WithUsed(x, u, n) \in FrameStates
           /\ WithUsed(x, u, n).used = u /\ WithUsed(x, u, n).used_pages = n
           /\ WithUsed(x, u, n).mem = x.mem
<1> PICK U, M : U = SUBSET Frames /\ M = [Frames -> Tables]
  OBVIOUS
<1> PICK y : y = WithUsed(x, u, n)
  OBVIOUS
<1>1. x \in [used : U, used_pages : Int, mem : M] /\ u \in U
  BY DEF FrameStates
<1>2. y = [x EXCEPT !.used = u, !.used_pages = n]
  BY DEF WithUsed
<1>3. /\ y \in [used : U, used_pages : Int, mem : M]
      /\ y.used = u /\ y.used_pages = n /\ y.mem = x.mem
  BY ONLY <1>1, <1>2, n \in Int
<1> QED BY <1>3 DEF FrameStates

\* y is x with frame g taken, or with none left to take, and its memory.
Takes(x, y, g) ==
    \/ /\ g \in Frames \ x.used
       /\ y.used = x.used \cup {g} /\ y.used_pages = x.used_pages + 1
    \/ /\ x.used = Frames /\ g = 0
       /\ y.used = x.used /\ y.used_pages = x.used_pages

\* pmm_alloc gives a free frame, or frame 0 when there is none (pmm.c:35-51).
LEMMA AllocTakes ==
    ASSUME NEW x \in FrameStates
    PROVE  /\ Takes(x, Alloc(x).frames, Alloc(x).got)
           /\ Alloc(x).frames \in FrameStates /\ Alloc(x).frames.mem = x.mem
           /\ Alloc(x).got \in Frames
<1> DEFINE Free == Frames \ x.used
<1>1. CASE Free = {}
  BY <1>1, FrameFields, ConstantTypes DEF Alloc, Takes
<1>2. CASE Free # {}
  <2> PICK g, y : g = Min(Free) /\ y = [x EXCEPT !.used = @ \cup {g}, !.used_pages = @ + 1]
    OBVIOUS
  <2>1. Free \subseteq Nat
    BY ConstantTypes DEF Frames
  <2>2. \E m \in Free : \A k \in Free : m <= k
    BY <1>2, <2>1, NatMin
  <2>3. g \in Free
    BY <2>2 DEF Min
  <2>4. /\ y \in FrameStates /\ y.used = x.used \cup {g} /\ y.used_pages = x.used_pages + 1
        /\ y.mem = x.mem
    <3> PICK u, n : u = x.used \cup {g} /\ n = x.used_pages + 1
      OBVIOUS
    <3>1. u \subseteq Frames /\ n \in Int
      BY <2>3, FrameFields
    <3>2. y = WithUsed(x, u, n)
      BY DEF WithUsed
    <3>3. y \in FrameStates /\ y.used = u /\ y.used_pages = n /\ y.mem = x.mem
      BY ONLY x \in FrameStates, <3>1, <3>2, UsedFields
    <3> QED BY <3>3
  <2>5. Alloc(x).frames = y /\ Alloc(x).got = g
    BY <1>2 DEF Alloc
  <2>6. g \in Frames \ x.used
    BY <2>3
  <2>7. Takes(x, y, g)
    BY <2>4, <2>6 DEF Takes
  <2> QED BY <2>4, <2>5, <2>6, <2>7
<1> QED BY <1>1, <1>2

\* The counter follows the bits.
LEMMA TakesCounts ==
    ASSUME NEW x \in FrameStates, NEW y, NEW g, Takes(x, y, g), Counted(x)
    PROVE  Counted(y)
<1>1. IsFiniteSet(x.used)
  BY FrameFields, FramesFinite
<1> QED BY <1>1, FS_AddElement DEF Takes, Counted

\* pmm_free of a set of frames.
LEMMA FreeCounts ==
    ASSUME NEW x \in FrameStates, NEW F, Counted(x)
    PROVE  /\ FreeAll(x, F) \in FrameStates /\ Counted(FreeAll(x, F))
           /\ FreeAll(x, F).mem = x.mem
<1> PICK y : y = FreeAll(x, F)
  OBVIOUS
<1>1. IsFiniteSet(x.used) /\ F \cap x.used = x.used \cap F
  BY FrameFields, FramesFinite
<1>2. /\ IsFiniteSet(x.used \cap F) /\ Cardinality(x.used \cap F) \in Nat
      /\ Cardinality(x.used \ F) = Cardinality(x.used) - Cardinality(x.used \cap F)
  BY <1>1, FS_Difference, FS_Intersection, FS_CardinalityType
<1>3. y = WithUsed(x, x.used \ F, x.used_pages - Cardinality(F \cap x.used))
  BY DEF FreeAll, WithUsed
<1>4. /\ y \in FrameStates /\ y.mem = x.mem
      /\ y.used = x.used \ F /\ y.used_pages = x.used_pages - Cardinality(F \cap x.used)
  <2>1. Cardinality(F \cap x.used) = Cardinality(x.used \cap F)
    BY <1>1
  <2> PICK u, n : u = x.used \ F /\ n = x.used_pages - Cardinality(F \cap x.used)
    OBVIOUS
  <2>2. u \subseteq Frames /\ n \in Int
    BY <1>2, <2>1, FrameFields
  <2>3. y = WithUsed(x, u, n)
    BY <1>3
  <2>4. y \in FrameStates /\ y.used = u /\ y.used_pages = n /\ y.mem = x.mem
    BY ONLY x \in FrameStates, <2>2, <2>3, UsedFields
  <2> QED BY <2>4
<1>5. Counted(y)
  BY <1>1, <1>2, <1>4 DEF Counted
<1> QED BY <1>4, <1>5

-----------------------------------------------------------------------------
(* Tables.                                                                 *)

\* An entry shared between a process and its clone (vmm.c:101-104).
Cow(e) == [e EXCEPT !.write = FALSE, !.cow = TRUE]

\* The fields of the entries that are written.
LEMMA EntryFields ==
    /\ \A e \in Entry : /\ Cow(e) \in Entry /\ Cow(e).frame = e.frame
                        /\ Cow(e).cow = TRUE /\ Cow(e).write = FALSE /\ e.frame \in Frames
                        /\ e.cow = TRUE /\ e.write = FALSE => Cow(e) = e
    /\ \A f \in Frames : Writable(f) \in Entry /\ Writable(f).frame = f
<1>1. ASSUME NEW e \in Entry
      PROVE  /\ Cow(e) \in Entry /\ Cow(e).frame = e.frame
             /\ Cow(e).cow = TRUE /\ Cow(e).write = FALSE /\ e.frame \in Frames
             /\ e.cow = TRUE /\ e.write = FALSE => Cow(e) = e
  BY DEF Cow, Entry
<1>2. \A f \in Frames : Writable(f) \in Entry /\ Writable(f).frame = f
  BY DEF Writable, Entry
<1> QED BY <1>1, <1>2

\* Writing an entry leaves the others of the table (vmm.c:29).
LEMMA SetEntryFields ==
    ASSUME NEW t \in Tables, NEW i \in 0 .. ENTRIES - 1, NEW e \in Entry
    PROVE  /\ SetEntry(t, i, e) \in Tables
           /\ DOMAIN SetEntry(t, i, e) = DOMAIN t \cup {i}
           /\ SetEntry(t, i, e)[i] = e
           /\ \A j \in DOMAIN t : j # i => SetEntry(t, i, e)[j] = t[j]
<1> PICK u : u = SetEntry(t, i, e)
  OBVIOUS
<1>1. DOMAIN t \subseteq 0 .. ENTRIES - 1 /\ \A j \in DOMAIN t : t[j] \in Entry
  BY TablesAre DEF IsTable
<1>2. u = [j \in DOMAIN t \cup {i} |-> IF j = i THEN e ELSE t[j]]
  BY DEF SetEntry
<1>3. DOMAIN u = DOMAIN t \cup {i} /\ u \in [DOMAIN t \cup {i} -> Entry]
  BY <1>1, <1>2
<1>4. IsTable(u)
  BY <1>1, <1>3 DEF IsTable
<1> QED BY <1>2, <1>3, <1>4, TablesAre

\* A shared table leads to the same frames.
LEMMA SharedFields ==
    ASSUME NEW t \in Tables
    PROVE  /\ Shared(t) \in Tables /\ DOMAIN Shared(t) = DOMAIN t
           /\ \A i \in DOMAIN t : /\ t[i] \in Entry /\ Shared(t)[i] = Cow(t[i])
                                  /\ Shared(t)[i].frame = t[i].frame
<1> PICK u : u = Shared(t)
  OBVIOUS
<1>1. DOMAIN t \subseteq 0 .. ENTRIES - 1 /\ \A j \in DOMAIN t : t[j] \in Entry
  BY TablesAre DEF IsTable
<1>2. u = [i \in DOMAIN t |-> Cow(t[i])]
  BY DEF Shared, Cow
<1>3. DOMAIN u = DOMAIN t /\ u \in [DOMAIN t -> Entry]
  BY <1>1, <1>2, EntryFields
<1>4. IsTable(u)
  BY <1>1, <1>3 DEF IsTable
<1> QED BY <1>1, <1>2, <1>3, <1>4, TablesAre, EntryFields

\* A zeroed table has no entry.
LEMMA EmptyTable == Empty \in Tables /\ DOMAIN Empty = {}
<1>1. DOMAIN Empty = {} /\ Empty \in [{} -> Entry]
  BY DEF Empty
<1>2. IsTable(Empty)
  BY <1>1 DEF IsTable
<1> QED BY <1>1, <1>2, TablesAre

\* The memory m with table t in frame f, and the frames x with memory m.
Write(m, f, t) == [m EXCEPT ![f] = t]
WithMem(x, m)  == [x EXCEPT !.mem = m]

\* Writing a table leaves the others.
LEMMA WriteFields ==
    ASSUME NEW m \in [Frames -> Tables], NEW f \in Frames, NEW t \in Tables
    PROVE  /\ Write(m, f, t) \in [Frames -> Tables] /\ Write(m, f, t)[f] = t
           /\ \A g \in Frames : g # f => Write(m, f, t)[g] = m[g]
BY DEF Write

\* The other fields of such a state, and its type.
LEMMA MemFields ==
    ASSUME NEW x \in FrameStates, NEW m \in [Frames -> Tables]
    PROVE  /\ WithMem(x, m) \in FrameStates /\ WithMem(x, m).mem = m
           /\ WithMem(x, m).used = x.used /\ WithMem(x, m).used_pages = x.used_pages
<1> PICK U, M : U = SUBSET Frames /\ M = [Frames -> Tables]
  OBVIOUS
<1> PICK y : y = WithMem(x, m)
  OBVIOUS
<1>1. x \in [used : U, used_pages : Int, mem : M] /\ m \in M
  BY DEF FrameStates
<1>2. y = [x EXCEPT !.mem = m]
  BY DEF WithMem
<1>3. /\ y \in [used : U, used_pages : Int, mem : M]
      /\ y.mem = m /\ y.used = x.used /\ y.used_pages = x.used_pages
  BY ONLY <1>1, <1>2
<1> QED BY <1>3 DEF FrameStates

\* One entry is written.
LEMMA PutFields ==
    ASSUME NEW x \in FrameStates, NEW f \in Frames, NEW i \in 0 .. ENTRIES - 1, NEW e \in Entry
    PROVE  /\ Put(x, f, i, e) \in FrameStates
           /\ Put(x, f, i, e).used = x.used /\ Put(x, f, i, e).used_pages = x.used_pages
           /\ Put(x, f, i, e).mem = Write(x.mem, f, SetEntry(x.mem[f], i, e))
<1>0. PICK m, n : m = x.mem /\ n = Write(m, f, SetEntry(m[f], i, e))
  OBVIOUS
<1>1. m \in [Frames -> Tables] /\ SetEntry(m[f], i, e) \in Tables
  BY <1>0, FrameFields, SetEntryFields
<1>2. n \in [Frames -> Tables]
  BY <1>0, <1>1, WriteFields
<1>3. Put(x, f, i, e) = WithMem(x, n)
  BY <1>0 DEF Put, WithMem, Write
<1> QED BY <1>0, <1>2, <1>3, MemFields

\* A new table is empty; nothing else changes in memory.
LEMMA NewTableTakes ==
    ASSUME NEW x \in FrameStates
    PROVE  /\ Takes(x, NewTable(x).frames, NewTable(x).got)
           /\ NewTable(x).frames \in FrameStates /\ NewTable(x).got \in Frames
           /\ NewTable(x).frames.mem = Write(x.mem, NewTable(x).got, Empty)
<1> PICK y, g : y = Alloc(x).frames /\ g = Alloc(x).got
  OBVIOUS
<1>1. Takes(x, y, g) /\ y \in FrameStates /\ y.mem = x.mem /\ g \in Frames
  BY AllocTakes
<1> PICK m, z : m = Write(x.mem, g, Empty) /\ z = WithMem(y, m)
  OBVIOUS
<1>2. m \in [Frames -> Tables]
  BY <1>1, FrameFields, EmptyTable, WriteFields
<1>3. z \in FrameStates /\ z.mem = m /\ z.used = y.used /\ z.used_pages = y.used_pages
  BY <1>1, <1>2, MemFields
<1>4. NewTable(x).frames = z /\ NewTable(x).got = g
  BY <1>1 DEF NewTable, Write, WithMem
<1>5. Takes(x, z, g)
  BY <1>1, <1>3 DEF Takes
<1> QED BY <1>1, <1>3, <1>4, <1>5

-----------------------------------------------------------------------------
(* vmm_map.                                                                *)

\* The table in frame t with page v mapped to f.
Entered(table, v, f) == SetEntry(table, Lo(v), Writable(f))

\* y is x after page v of directory d was mapped to f through the table in frame t:
\* one that was there, or a new one.
MapsOld(x, y, d, v, f, t) ==
    /\ Hi(v) \in DOMAIN x.mem[d] /\ t = x.mem[d][Hi(v)].frame
    /\ y.used = x.used /\ y.used_pages = x.used_pages
    /\ y.mem = Write(x.mem, t, Entered(x.mem[t], v, f))
MapsNew(x, y, d, v, f, t) ==
    /\ Hi(v) \notin DOMAIN x.mem[d] /\ t # d
    /\ Takes(x, y, t)
    /\ y.mem[t] = Entered(Empty, v, f)
    /\ y.mem[d] = SetEntry(x.mem[d], Hi(v), Writable(t))
    /\ \A g \in Frames \ {d, t} : y.mem[g] = x.mem[g]

\* vmm_map writes one entry of one table, after making the table if there was none
\* (vmm.c:16-33).
LEMMA MapIs ==
    ASSUME NEW x \in FrameStates, NEW d \in x.used, d # 0, NEW v \in Pages, NEW f \in Frames
    PROVE  /\ Map(x, d, v, f) \in FrameStates
           /\ \E t \in Frames : \/ MapsOld(x, Map(x, d, v, f), d, v, f, t)
                                \/ MapsNew(x, Map(x, d, v, f), d, v, f, t)
<1>0. PICK y : y = Map(x, d, v, f)
  OBVIOUS
<1>1. Hi(v) \in 0 .. ENTRIES - 1 /\ Lo(v) \in 0 .. ENTRIES - 1
  BY PageSplits, ConstantTypes
<1>2. d \in Frames /\ x.mem \in [Frames -> Tables] /\ Writable(f) \in Entry
  BY FrameFields, EntryFields
<1>3. CASE Hi(v) \in DOMAIN x.mem[d]
  <2>0. PICK t : t = x.mem[d][Hi(v)].frame
    OBVIOUS
  <2>1. t \in Frames
    BY <1>2, <1>3, <2>0, FrameFields
  <2>2. y = Put(x, t, Lo(v), Writable(f))
    BY <1>0, <1>3, <2>0 DEF Map, Hi, Lo
  <2>3. /\ y \in FrameStates /\ y.used = x.used /\ y.used_pages = x.used_pages
        /\ y.mem = Write(x.mem, t, Entered(x.mem[t], v, f))
    BY <1>1, <1>2, <2>1, <2>2, PutFields DEF Entered
  <2>4. MapsOld(x, y, d, v, f, t)
    BY <1>3, <2>0, <2>3 DEF MapsOld
  <2> QED BY <1>0, <2>1, <2>3, <2>4
<1>4. CASE Hi(v) \notin DOMAIN x.mem[d]
  <2>0. PICK a, t : a = NewTable(x).frames /\ t = NewTable(x).got
    OBVIOUS
  <2>1. /\ Takes(x, a, t) /\ a \in FrameStates /\ t \in Frames
        /\ a.mem = Write(x.mem, t, Empty)
    BY <2>0, NewTableTakes
  <2>2. t # d
    BY <2>1 DEF Takes
  <2>3. a.mem[d] = x.mem[d] /\ a.mem[t] = Empty /\ \A g \in Frames \ {t} : a.mem[g] = x.mem[g]
    BY <1>2, <2>1, <2>2 DEF Write
  <2>4. PICK r : r = Put(a, d, Hi(v), Writable(t))
    OBVIOUS
  <2>5. /\ r \in FrameStates /\ r.used = a.used /\ r.used_pages = a.used_pages
        /\ r.mem = Write(a.mem, d, SetEntry(a.mem[d], Hi(v), Writable(t)))
    <3>0. PICK i, w : i = Hi(v) /\ w = Writable(t)
      OBVIOUS
    <3>1. i \in 0 .. ENTRIES - 1 /\ w \in Entry
      BY <1>1, <2>1, <3>0, EntryFields
    <3>2. r = Put(a, d, i, w)
      BY <2>4, <3>0
    <3>3. /\ r \in FrameStates /\ r.used = a.used /\ r.used_pages = a.used_pages
          /\ r.mem = Write(a.mem, d, SetEntry(a.mem[d], i, w))
      BY <1>2, <2>1, <3>1, <3>2, PutFields
    <3> QED BY <3>0, <3>3
  <2>6. /\ r.mem[d] = SetEntry(x.mem[d], Hi(v), Writable(t))
        /\ \A g \in Frames \ {d} : r.mem[g] = a.mem[g]
    <3>1. a.mem \in [Frames -> Tables]
      BY <2>1, FrameFields
    <3> QED BY <1>2, <2>3, <2>5, <3>1 DEF Write
  <2>7. r.mem[d][Hi(v)].frame = t
    <3>0. PICK T, i, w : T = x.mem[d] /\ i = Hi(v) /\ w = Writable(t)
      OBVIOUS
    <3>1. T \in Tables /\ w \in Entry /\ w.frame = t /\ i \in 0 .. ENTRIES - 1
      BY <1>1, <1>2, <2>1, <3>0, FrameFields, EntryFields
    <3>2. SetEntry(T, i, w)[i] = w
      BY <3>1, SetEntryFields
    <3> QED BY <2>6, <3>0, <3>1, <3>2
  <2>8. y = Put(r, t, Lo(v), Writable(f))
    BY <1>0, <1>4, <2>0, <2>4, <2>7 DEF Map, Hi, Lo
  <2>9. /\ y \in FrameStates /\ y.used = r.used /\ y.used_pages = r.used_pages
        /\ y.mem = Write(r.mem, t, SetEntry(r.mem[t], Lo(v), Writable(f)))
    BY <1>1, <1>2, <2>1, <2>5, <2>8, PutFields
  <2>10. /\ y.mem[t] = Entered(Empty, v, f)
         /\ \A g \in Frames \ {t} : y.mem[g] = r.mem[g]
    <3>1. r.mem \in [Frames -> Tables] /\ r.mem[t] = Empty
      BY <2>1, <2>2, <2>3, <2>5, <2>6, FrameFields
    <3> QED BY <2>1, <2>9, <3>1 DEF Write, Entered
  <2>11. y.mem[d] = SetEntry(x.mem[d], Hi(v), Writable(t))
    BY <1>2, <2>2, <2>6, <2>10
  <2>12. \A g \in Frames \ {d, t} : y.mem[g] = x.mem[g]
    BY <2>3, <2>6, <2>10
  <2>13. Takes(x, y, t)
    BY <2>1, <2>5, <2>9 DEF Takes
  <2>14. MapsNew(x, y, d, v, f, t)
    BY <1>4, <2>2, <2>10, <2>11, <2>12, <2>13 DEF MapsNew
  <2> QED BY <1>0, <2>1, <2>9, <2>14
<1> QED BY <1>3, <1>4

-----------------------------------------------------------------------------
(* vmm_clone.                                                              *)

TopEntries(x) == {j \in DOMAIN x.mem[kernel_dir] : j >= KERNEL_ENTRY}

\* A new directory has the kernel's entries of the top gigabyte.
LEMMA CreateIs ==
    ASSUME NEW x \in FrameStates
    PROVE  /\ CreateDirectory(x).frames \in FrameStates /\ CreateDirectory(x).got \in Frames
           /\ Takes(x, CreateDirectory(x).frames, CreateDirectory(x).got)
           /\ DOMAIN CreateDirectory(x).frames.mem[CreateDirectory(x).got] = TopEntries(x)
           /\ \A f \in Frames \ {CreateDirectory(x).got} :
                 CreateDirectory(x).frames.mem[f] = x.mem[f]
<1>0. PICK a, g, c, k : /\ a = NewTable(x).frames /\ g = NewTable(x).got
                        /\ c = CreateDirectory(x) /\ k = x.mem[kernel_dir]
  OBVIOUS
<1>1. Takes(x, a, g) /\ a \in FrameStates /\ g \in Frames /\ a.mem = Write(x.mem, g, Empty)
  BY <1>0, NewTableTakes
<1>2. PICK t : t = [i \in TopEntries(x) |-> k[i]]
  OBVIOUS
<1>3. DOMAIN t = TopEntries(x) /\ t \in Tables
  <2>1. IsTable(k)
    BY <1>0, ConstantTypes, FrameFields
  <2>2. TopEntries(x) \subseteq DOMAIN k
    BY <1>0 DEF TopEntries
  <2>3. IsTable(t)
    BY <1>2, <2>1, <2>2 DEF IsTable
  <2> QED BY <1>2, <2>3, TablesAre
<1>4. PICK m, z : m = Write(a.mem, g, t) /\ z = WithMem(a, m)
  OBVIOUS
<1>5. m \in [Frames -> Tables]
  BY <1>1, <1>3, <1>4, FrameFields, WriteFields
<1>6. z \in FrameStates /\ z.mem = m /\ z.used = a.used /\ z.used_pages = a.used_pages
  BY <1>1, <1>4, <1>5, MemFields
<1>7. c.frames = z /\ c.got = g
  <2>1. NewTable(x) = [frames |-> a, got |-> g]
    BY <1>0 DEF NewTable
  <2>2. c = [NewTable(x) EXCEPT !.frames.mem[g] = t]
    BY <1>0, <1>2 DEF CreateDirectory, TopEntries
  <2>3. c.frames = [a EXCEPT !.mem[g] = t] /\ c.got = g
    BY <2>1, <2>2
  <2> QED BY <1>4, <2>3 DEF WithMem, Write
<1>8. Takes(x, z, g)
  BY <1>1, <1>6 DEF Takes
<1>9. z.mem[g] = t /\ \A f \in Frames \ {g} : z.mem[f] = x.mem[f]
  <2>1. a.mem \in [Frames -> Tables] /\ x.mem \in [Frames -> Tables]
    BY <1>1, FrameFields
  <2>2. m[g] = t /\ \A f \in Frames \ {g} : m[f] = a.mem[f]
    BY <1>1, <1>4, <2>1 DEF Write
  <2>3. \A f \in Frames \ {g} : a.mem[f] = x.mem[f]
    BY <1>1, <2>1 DEF Write
  <2> QED BY <1>6, <2>2, <2>3
<1> QED BY <1>0, <1>1, <1>3, <1>6, <1>7, <1>8, <1>9

\* An entry that refers to frame f instead.
Moved(e, f) == [e EXCEPT !.frame = f]

\* A moved entry has the new frame.
LEMMA MovedFields ==
    ASSUME NEW e \in Entry, NEW f \in Frames
    PROVE  Moved(e, f) \in Entry /\ Moved(e, f).frame = f
BY DEF Moved, Entry

\* z is y after table i of src was copied for directory g to the new frame n.
CopiesTable(y, z, src, g, i, n) ==
    LET t == y.mem[src][i].frame
    IN  /\ z.mem[t] = Shared(y.mem[t]) /\ z.mem[n] = Shared(y.mem[t])
        /\ z.mem[g] = SetEntry(y.mem[g], i, Moved(y.mem[src][i], n))
        /\ \A f \in Frames \ {t, n, g} : z.mem[f] = y.mem[f]

\* u is t as far as the frames go: only the flags of its entries may differ.
SameFrames(t, u) ==
    DOMAIN u = DOMAIN t /\ \A i \in DOMAIN t : u[i].frame = t[i].frame

\* One round of the loop of vmm_clone takes a frame, and leaves every other
\* table its frames; it copies the table if that one is in use and not g.
LEMMA CopyIs ==
    ASSUME NEW y \in FrameStates, NEW src \in y.used, NEW g \in y.used \ {src},
           y.used # Frames, NEW i \in DOMAIN y.mem[src]
    PROVE  /\ CloneTable(y, src, g, i) \in FrameStates
           /\ \A f \in y.used \ {g} : SameFrames(y.mem[f], CloneTable(y, src, g, i).mem[f])
           /\ \E n \in Frames \ y.used :
                /\ Takes(y, CloneTable(y, src, g, i), n)
                /\ y.mem[src][i].frame \in y.used \ {g}
                     => CopiesTable(y, CloneTable(y, src, g, i), src, g, i, n)
<1>0. PICK e, t, T, a, n, z :
         /\ e = y.mem[src][i] /\ t = e.frame /\ T = Shared(y.mem[t])
         /\ a = NewTable(y).frames /\ n = NewTable(y).got /\ z = CloneTable(y, src, g, i)
  OBVIOUS
<1>1. /\ Takes(y, a, n) /\ a \in FrameStates /\ n \in Frames \ y.used
      /\ a.mem = Write(y.mem, n, Empty)
  <2>1. Takes(y, a, n) /\ a \in FrameStates /\ n \in Frames /\ a.mem = Write(y.mem, n, Empty)
    BY <1>0, NewTableTakes
  <2> QED BY <2>1 DEF Takes
<1>2. /\ src \in Frames /\ g \in Frames /\ t \in Frames /\ e \in Entry
      /\ i \in 0 .. ENTRIES - 1 /\ y.mem \in [Frames -> Tables]
  BY <1>0, FrameFields
<1>3. T \in Tables /\ DOMAIN T = DOMAIN y.mem[t]
  BY <1>0, <1>2, FrameFields, SharedFields
<1>4. PICK m, p, b : /\ m = Write(a.mem, t, T) /\ p = Write(m, n, T) /\ b = WithMem(a, p)
  OBVIOUS
<1>5. a.mem \in [Frames -> Tables] /\ a.mem[n] = Empty /\ \A f \in Frames \ {n} : a.mem[f] = y.mem[f]
  <2>1. a.mem \in [Frames -> Tables]
    BY <1>1, FrameFields
  <2> QED BY <1>1, <1>2, <2>1 DEF Write
<1>6. m \in [Frames -> Tables] /\ m[t] = T /\ \A f \in Frames \ {t} : m[f] = a.mem[f]
  BY <1>2, <1>3, <1>4, <1>5 DEF Write
<1>7. p \in [Frames -> Tables] /\ p[n] = T /\ \A f \in Frames \ {n} : p[f] = m[f]
  BY <1>1, <1>3, <1>4, <1>6 DEF Write
<1>8. b \in FrameStates /\ b.mem = p /\ b.used = a.used /\ b.used_pages = a.used_pages
  BY <1>1, <1>4, <1>7, MemFields
<1>9. z = Put(b, g, i, Moved(e, n))
  <2>1. b = [a EXCEPT !.mem[t] = T, !.mem[n] = T]
    BY <1>1, <1>4, <1>5 DEF WithMem, Write, FrameStates
  <2> QED BY <1>0, <2>1 DEF CloneTable, Moved
<1>10. PICK w : w = Moved(e, n) /\ w \in Entry
  BY <1>1, <1>2, MovedFields
<1>11. /\ z \in FrameStates /\ z.used = a.used /\ z.used_pages = a.used_pages
       /\ z.mem = Write(p, g, SetEntry(p[g], i, w))
  BY <1>2, <1>8, <1>9, <1>10, PutFields
<1>12. z.mem[g] = SetEntry(p[g], i, w) /\ \A f \in Frames \ {g} : z.mem[f] = p[f]
  BY <1>2, <1>7, <1>11 DEF Write
<1>13. ASSUME NEW f \in y.used \ {g} PROVE SameFrames(y.mem[f], z.mem[f])
  <2>1. f # n /\ f # g /\ f \in Frames
    BY <1>1, FrameFields
  <2>2. CASE f = t
    <3>1. z.mem[f] = T /\ y.mem[f] \in Tables
      <4>1. z.mem[f] = p[f] /\ p[f] = m[f] /\ m[f] = T
        BY ONLY <1>6, <1>7, <1>12, <2>1, <2>2
      <4>2. y.mem[f] \in Tables
        BY ONLY <1>2, <2>1
      <4> QED BY ONLY <4>1, <4>2
    <3>2. PICK u : u = y.mem[f]
      OBVIOUS
    <3>3. u \in Tables /\ z.mem[f] = Shared(u)
      BY ONLY <1>0, <2>2, <3>1, <3>2
    <3>4. DOMAIN Shared(u) = DOMAIN u /\ \A j \in DOMAIN u : Shared(u)[j].frame = u[j].frame
      BY ONLY <3>3, SharedFields
    <3>5. SameFrames(u, Shared(u))
      BY ONLY <3>4 DEF SameFrames
    <3> QED BY ONLY <3>2, <3>3, <3>5
  <2>3. CASE f # t
    <3>1. z.mem[f] = y.mem[f]
      BY <1>2, <1>5, <1>6, <1>7, <1>12, <2>1, <2>3
    <3> QED BY <3>1 DEF SameFrames
  <2> QED BY <2>2, <2>3
<1>14. Takes(y, z, n)
  BY <1>1, <1>11 DEF Takes
<1>15. ASSUME t \in y.used \ {g} PROVE CopiesTable(y, z, src, g, i, n)
  <2>1. t # n /\ g # n /\ g # t
    BY <1>1, <1>15
  <2>2. p[g] = y.mem[g]
    BY <1>2, <1>5, <1>6, <1>7, <2>1
  <2>3. z.mem[t] = T /\ z.mem[n] = T
    BY <1>1, <1>2, <1>6, <1>7, <1>12, <2>1
  <2>4. \A f \in Frames \ {t, n, g} : z.mem[f] = y.mem[f]
    BY <1>5, <1>6, <1>7, <1>12
  <2> QED BY <1>0, <1>10, <1>12, <2>2, <2>3, <2>4 DEF CopiesTable
<1> QED BY <1>0, <1>1, <1>11, <1>13, <1>14, <1>15

First(U, k) == {i \in U : i < k}
TableIn(s, src, i) == s.mem[src][i].frame

\* After k rounds of the loop of vmm_clone: y has the copies of the tables below
\* k in the new frames n, and there is a frame left for each table to come.
Cloned(s, src, g, k, y, n) ==
    LET U == UserTables(s, src)
    IN  /\ y \in FrameStates /\ Counted(y) /\ g \in Frames \ s.used
        /\ n \in [First(U, k) -> Frames \ (s.used \cup {g})]
        /\ \A i, j \in First(U, k) : n[i] = n[j] => i = j
        /\ y.used = s.used \cup {g} \cup {n[i] : i \in First(U, k)}
        /\ Cardinality(Frames \ y.used) >= Cardinality(U \ First(U, k))
        /\ \A f \in s.used : SameFrames(s.mem[f], y.mem[f])

\* The tables of src are not src, each is another frame, and the kernel has no
\* entries to be copied.
Alone(s, src) ==
    LET U == UserTables(s, src)
    IN  /\ \A i \in U : TableIn(s, src, i) \in s.used \ {src}
        /\ \A i, j \in U : TableIn(s, src, i) = TableIn(s, src, j) => i = j
        /\ TopEntries(s) = {}

\* Then y has, for each table below k, the table and its copy, both shared, and
\* everything else that was in use as it was.
Copied(s, src, g, k, y, n) ==
    LET V == First(UserTables(s, src), k)
    IN  /\ \A f \in s.used : (\A i \in V : f # TableIn(s, src, i)) => y.mem[f] = s.mem[f]
        /\ \A i \in V : /\ y.mem[TableIn(s, src, i)] = Shared(s.mem[TableIn(s, src, i)])
                        /\ y.mem[n[i]] = Shared(s.mem[TableIn(s, src, i)])
        /\ DOMAIN y.mem[g] = V
        /\ \A i \in V : y.mem[g][i] = Moved(s.mem[src][i], n[i])

\* The next round of the loop of vmm_clone is for table k, if there is one.
LEMMA FirstIs ==
    ASSUME NEW U, U \subseteq Nat, NEW k \in Nat
    PROVE  /\ First(U, 0) = {}
           /\ k \in U => /\ First(U, k + 1) = First(U, k) \cup {k} /\ k \notin First(U, k)
                         /\ U \ First(U, k + 1) = (U \ First(U, k)) \ {k}
                         /\ k \in U \ First(U, k)
           /\ k \notin U => First(U, k + 1) = First(U, k)
<1>1. \A i \in U : i \in Nat
  OBVIOUS
<1>2. \A i \in U : i < k + 1 <=> i < k \/ i = k
  BY <1>1
<1>3. First(U, 0) = {}
  <2>1. \A i \in U : ~ (i < 0)
    BY <1>1
  <2> QED BY ONLY <2>1 DEF First
<1>4. CASE k \in U
  <2>1. First(U, k + 1) = First(U, k) \cup {k}
    BY <1>2, <1>4 DEF First
  <2>2. k \notin First(U, k)
    BY DEF First
  <2> QED BY <1>3, <1>4, <2>1, <2>2
<1>5. CASE k \notin U
  <2>1. First(U, k + 1) = First(U, k)
    BY <1>2, <1>5 DEF First
  <2> QED BY <1>3, <1>5, <2>1
<1> QED BY <1>4, <1>5

\* One round.
LEMMA CloneRound ==
    ASSUME NEW s \in FrameStates, NEW src \in s.used, NEW g, NEW k \in Nat, NEW y, NEW n,
           Cloned(s, src, g, k, y, n), k \in UserTables(s, src)
    PROVE  \E p : /\ Cloned(s, src, g, k + 1, CloneTable(y, src, g, k), p)
                  /\ Alone(s, src) /\ Copied(s, src, g, k, y, n)
                       => Copied(s, src, g, k + 1, CloneTable(y, src, g, k), p)
<1>0. PICK U, V, W, z : /\ U = UserTables(s, src) /\ V = First(U, k) /\ W = First(U, k + 1)
                        /\ z = CloneTable(y, src, g, k)
  OBVIOUS
<1>1. /\ y \in FrameStates /\ Counted(y) /\ g \in Frames \ s.used
      /\ n \in [V -> Frames \ (s.used \cup {g})]
      /\ \A i, j \in V : n[i] = n[j] => i = j
      /\ y.used = s.used \cup {g} \cup {n[i] : i \in V}
      /\ Cardinality(Frames \ y.used) >= Cardinality(U \ V)
      /\ \A f \in s.used : SameFrames(s.mem[f], y.mem[f])
  BY <1>0 DEF Cloned
<1>2. U \subseteq 0 .. ENTRIES - 1 /\ U \subseteq Nat /\ IsFiniteSet(U) /\ k \in DOMAIN s.mem[src]
  <2>1. U \subseteq DOMAIN s.mem[src] /\ k \in U
    BY <1>0 DEF UserTables
  <2>2. DOMAIN s.mem[src] \subseteq 0 .. ENTRIES - 1
    BY FrameFields
  <2>3. IsFiniteSet(0 .. ENTRIES - 1)
    <3>1. 0 \in Int /\ ENTRIES - 1 \in Int
      BY ConstantTypes
    <3> QED BY ONLY <3>1, FS_Interval
  <2>4. IsFiniteSet(U)
    BY <2>1, <2>2, <2>3, FS_Subset
  <2> QED BY <2>1, <2>2, <2>4
<1>3. /\ W = V \cup {k} /\ k \notin V /\ U \ W = (U \ V) \ {k} /\ k \in U \ V
  BY <1>0, <1>2, FirstIs
<1>4. /\ Cardinality(U \ W) = Cardinality(U \ V) - 1 /\ Cardinality(U \ V) \in Nat
      /\ Cardinality(U \ V) > 0
  <2>1. IsFiniteSet(U \ V) /\ IsFiniteSet(U \ W)
    BY <1>2, FS_Subset
  <2>2. Cardinality(U \ V) \in Nat /\ Cardinality(U \ W) \in Nat
    BY <2>1, FS_CardinalityType
  <2>3. Cardinality(U \ W) = Cardinality(U \ V) - 1
    BY <1>3, <2>1, FS_RemoveElement
  <2> QED BY <2>2, <2>3
<1>5. y.used # Frames
  <2> SUFFICES ASSUME y.used = Frames PROVE FALSE
    OBVIOUS
  <2>1. Frames \ y.used = {} /\ Cardinality({}) = 0
    BY FS_EmptySet
  <2>2. Cardinality(Frames \ y.used) = 0
    BY <2>1
  <2> QED BY <1>1, <1>4, <2>2
<1>6. src \in y.used /\ g \in y.used \ {src}
  BY <1>1
<1>7. PICK a \in Frames \ y.used :
         /\ z \in FrameStates /\ Takes(y, z, a)
         /\ \A f \in y.used \ {g} : SameFrames(y.mem[f], z.mem[f])
         /\ y.mem[src][k].frame \in y.used \ {g} => CopiesTable(y, z, src, g, k, a)
  <2>1. k \in DOMAIN y.mem[src]
    BY <1>1, <1>2 DEF SameFrames
  <2> QED BY <1>0, <1>1, <1>5, <1>6, <2>1, CopyIs
<1>8. z.used = y.used \cup {a}
  BY <1>5, <1>7 DEF Takes
<1>9. PICK p : p = [i \in W |-> IF i = k THEN a ELSE n[i]]
  OBVIOUS
<1>10. /\ DOMAIN p = W /\ p[k] = a /\ \A i \in V : p[i] = n[i]
  BY <1>3, <1>9
<1>11. a \notin s.used \cup {g} /\ a \in Frames /\ \A i \in V : a # n[i]
  BY <1>1, <1>7
<1>12. Cloned(s, src, g, k + 1, z, p)
  <2>1. Counted(z)
    BY <1>1, <1>7, TakesCounts
  <2>2. p \in [W -> Frames \ (s.used \cup {g})]
    BY <1>1, <1>3, <1>9, <1>11
  <2>3. \A i, j \in W : p[i] = p[j] => i = j
    BY <1>1, <1>3, <1>10, <1>11
  <2>4. z.used = s.used \cup {g} \cup {p[i] : i \in W}
    <3>1. {p[i] : i \in W} = {n[i] : i \in V} \cup {a}
      BY <1>3, <1>10
    <3> QED BY <1>1, <1>8, <3>1
  <2>5. Cardinality(Frames \ z.used) >= Cardinality(U \ W)
    <3>1. Frames \ z.used = (Frames \ y.used) \ {a} /\ a \in Frames \ y.used
      BY <1>7, <1>8
    <3>2. IsFiniteSet(Frames \ y.used) /\ Cardinality(Frames \ y.used) \in Nat
      BY FramesFinite
    <3>3. Cardinality(Frames \ z.used) = Cardinality(Frames \ y.used) - 1
      <4>1. PICK S : S = Frames \ y.used
        OBVIOUS
      <4>2. Cardinality(S \ {a}) = Cardinality(S) - 1
        BY ONLY <3>1, <3>2, <4>1, FS_RemoveElement
      <4> QED BY ONLY <3>1, <4>1, <4>2
    <3>4. Cardinality(U \ V) \in Nat /\ Cardinality(U \ W) = Cardinality(U \ V) - 1
      BY <1>4
    <3> QED BY <1>1, <3>2, <3>3, <3>4
  <2>6. ASSUME NEW f \in s.used PROVE SameFrames(s.mem[f], z.mem[f])
    <3>1. SameFrames(s.mem[f], y.mem[f]) /\ SameFrames(y.mem[f], z.mem[f])
      BY <1>1, <1>7
    <3> QED BY <3>1 DEF SameFrames
  <2> QED BY <1>0, <1>1, <1>7, <2>1, <2>2, <2>3, <2>4, <2>5, <2>6 DEF Cloned
<1>13. ASSUME Alone(s, src), Copied(s, src, g, k, y, n) PROVE Copied(s, src, g, k + 1, z, p)
  <2>0. PICK t : t = TableIn(s, src, k)
    OBVIOUS
  <2>1. /\ \A i \in U : TableIn(s, src, i) \in s.used \ {src}
        /\ \A i, j \in U : TableIn(s, src, i) = TableIn(s, src, j) => i = j
    BY <1>0, <1>13 DEF Alone
  <2>2. /\ \A f \in s.used : (\A i \in V : f # TableIn(s, src, i)) => y.mem[f] = s.mem[f]
        /\ \A i \in V : /\ y.mem[TableIn(s, src, i)] = Shared(s.mem[TableIn(s, src, i)])
                        /\ y.mem[n[i]] = Shared(s.mem[TableIn(s, src, i)])
        /\ DOMAIN y.mem[g] = V
        /\ \A i \in V : y.mem[g][i] = Moved(s.mem[src][i], n[i])
    BY <1>0, <1>13 DEF Copied
  <2>3. V \subseteq U /\ k \in U
    BY <1>0, <1>3 DEF First
  <2>4. y.mem[src] = s.mem[src]
    BY <2>1, <2>2, <2>3
  <2>5. y.mem[src][k].frame = t /\ t \in s.used \ {src} /\ t # g
    BY <1>1, <2>0, <2>1, <2>3, <2>4 DEF TableIn
  <2>6. y.mem[t] = s.mem[t]
    BY <1>3, <2>0, <2>1, <2>2, <2>3, <2>5
  <2>7. /\ z.mem[t] = Shared(s.mem[t]) /\ z.mem[a] = Shared(s.mem[t])
        /\ z.mem[g] = SetEntry(y.mem[g], k, Moved(s.mem[src][k], a))
        /\ \A f \in Frames \ {t, a, g} : z.mem[f] = y.mem[f]
    BY <1>1, <1>7, <2>4, <2>5, <2>6 DEF CopiesTable
  <2>8. ASSUME NEW f \in s.used, \A i \in W : f # TableIn(s, src, i) PROVE z.mem[f] = s.mem[f]
    <3>1. f \in Frames \ {t, a, g}
      BY <1>1, <1>3, <1>11, <2>0, <2>8, FrameFields
    <3> QED BY <1>3, <2>2, <2>7, <2>8, <3>1
  <2>9. ASSUME NEW i \in W
        PROVE  /\ z.mem[TableIn(s, src, i)] = Shared(s.mem[TableIn(s, src, i)])
               /\ z.mem[p[i]] = Shared(s.mem[TableIn(s, src, i)])
    <3>1. CASE i = k
      BY <1>10, <2>0, <2>7, <3>1
    <3>2. CASE i \in V
      <4>1. TableIn(s, src, i) \in Frames \ {t, a, g}
        BY <1>1, <1>3, <1>11, <2>0, <2>1, <2>3, <3>2, FrameFields
      <4>2. n[i] \in Frames \ {t, a, g}
        BY <1>1, <1>11, <2>5, <3>2
      <4> QED BY <1>10, <2>2, <2>7, <3>2, <4>1, <4>2
    <3> QED BY <1>3, <3>1, <3>2
  <2>10. DOMAIN z.mem[g] = W /\ \A i \in W : z.mem[g][i] = Moved(s.mem[src][i], p[i])
    <3>0. PICK T, w : T = y.mem[g] /\ w = Moved(s.mem[src][k], a)
      OBVIOUS
    <3>1. T \in Tables /\ k \in 0 .. ENTRIES - 1 /\ w \in Entry
      BY <1>1, <1>2, <1>11, <3>0, FrameFields, MovedFields
    <3>2. /\ DOMAIN SetEntry(T, k, w) = DOMAIN T \cup {k} /\ SetEntry(T, k, w)[k] = w
          /\ \A j \in DOMAIN T : j # k => SetEntry(T, k, w)[j] = T[j]
      BY <3>1, SetEntryFields
    <3>3. z.mem[g] = SetEntry(T, k, w) /\ DOMAIN T = V
      BY <2>2, <2>7, <3>0
    <3>4. DOMAIN z.mem[g] = W
      BY ONLY <1>3, <3>2, <3>3
    <3>5. z.mem[g][k] = Moved(s.mem[src][k], p[k])
      BY ONLY <1>10, <3>0, <3>2, <3>3
    <3>6. \A i \in V : z.mem[g][i] = Moved(s.mem[src][i], p[i])
      BY ONLY <1>3, <1>10, <2>2, <3>0, <3>2, <3>3
    <3> QED BY ONLY <1>3, <3>4, <3>5, <3>6
  <2> QED BY <1>0, <2>8, <2>9, <2>10 DEF Copied
<1> QED BY <1>0, <1>12, <1>13

\* vmm_clone, with a frame for the directory and one for each table.
LEMMA CloneIs ==
    ASSUME NEW s \in FrameStates, Counted(s), NEW src \in s.used,
           Cardinality(Frames \ s.used) > Cardinality(UserTables(s, src))
    PROVE  \E n : /\ Cloned(s, src, Clone(s, src).got, KERNEL_ENTRY, Clone(s, src).frames, n)
                  /\ Alone(s, src) =>
                       Copied(s, src, Clone(s, src).got, KERNEL_ENTRY, Clone(s, src).frames, n)
<1>0. PICK c, g, r, U, K : /\ c = CreateDirectory(s) /\ g = c.got /\ r = c.frames
                           /\ U = UserTables(s, src) /\ K = KERNEL_ENTRY
  OBVIOUS
<1>1. /\ r \in FrameStates /\ g \in Frames /\ Takes(s, r, g)
      /\ DOMAIN r.mem[g] = TopEntries(s) /\ \A f \in Frames \ {g} : r.mem[f] = s.mem[f]
  BY <1>0, CreateIs
<1>2. U \subseteq Nat /\ IsFiniteSet(U) /\ Cardinality(U) \in Nat /\ \A i \in U : i < K
  <2>1. U \subseteq DOMAIN s.mem[src] /\ \A i \in U : i < K
    BY <1>0 DEF UserTables
  <2>2. DOMAIN s.mem[src] \subseteq 0 .. ENTRIES - 1
    BY FrameFields
  <2>3. IsFiniteSet(0 .. ENTRIES - 1)
    <3>1. 0 \in Int /\ ENTRIES - 1 \in Int
      BY ConstantTypes
    <3> QED BY ONLY <3>1, FS_Interval
  <2>4. IsFiniteSet(U) /\ Cardinality(U) \in Nat
    BY <2>1, <2>2, <2>3, FS_Subset, FS_CardinalityType
  <2> QED BY <2>1, <2>2, <2>4, ConstantTypes
<1>3. /\ g \in Frames \ s.used /\ r.used = s.used \cup {g} /\ Counted(r)
      /\ Cardinality(Frames \ r.used) >= Cardinality(U)
  <2>1. Cardinality(Frames \ s.used) > Cardinality(U) /\ Cardinality(Frames \ s.used) \in Nat
    BY <1>0, FramesFinite
  <2>2. s.used # Frames
    <3> SUFFICES ASSUME s.used = Frames PROVE FALSE
      OBVIOUS
    <3>1. Frames \ s.used = {} /\ Cardinality({}) = 0
      BY FS_EmptySet
    <3>2. Cardinality(Frames \ s.used) = 0
      BY <3>1
    <3> QED BY <1>2, <2>1, <3>2
  <2>3. g \in Frames \ s.used /\ r.used = s.used \cup {g}
    BY <1>1, <2>2 DEF Takes
  <2>4. Counted(r)
    BY <1>1, TakesCounts
  <2>5. Frames \ r.used = (Frames \ s.used) \ {g} /\ IsFiniteSet(Frames \ s.used)
    BY <2>3, FramesFinite
  <2>6. Cardinality(Frames \ r.used) = Cardinality(Frames \ s.used) - 1
    <3>1. PICK S : S = Frames \ s.used
      OBVIOUS
    <3>2. Cardinality(S \ {g}) = Cardinality(S) - 1
      BY ONLY <2>3, <2>5, <3>1, FS_RemoveElement
    <3> QED BY ONLY <2>5, <3>1, <3>2
  <2> QED BY <1>2, <2>1, <2>3, <2>4, <2>6
<1> DEFINE Good(k, y) == \E n : /\ Cloned(s, src, g, k, y, n)
                                /\ Alone(s, src) => Copied(s, src, g, k, y, n)
<1>4. Good(0, r)
  <2>0. PICK V, n : V = First(U, 0) /\ n = [i \in V |-> 0]
    OBVIOUS
  <2>1. V = {}
    BY <1>2, <2>0, FirstIs
  <2>3. \A f \in s.used : SameFrames(s.mem[f], r.mem[f])
    <3>1. \A f \in s.used : r.mem[f] = s.mem[f]
      BY <1>1, <1>3, FrameFields
    <3> QED BY <3>1 DEF SameFrames
  <2>4. {n[i] : i \in V} = {} /\ U \ V = U /\ n \in [V -> Frames \ (s.used \cup {g})]
    BY <2>0, <2>1
  <2>5. Cloned(s, src, g, 0, r, n)
    BY <1>0, <1>1, <1>3, <2>0, <2>1, <2>3, <2>4 DEF Cloned
  <2>6. ASSUME Alone(s, src) PROVE Copied(s, src, g, 0, r, n)
    <3>1. DOMAIN r.mem[g] = {}
      BY <1>1, <2>6 DEF Alone
    <3>2. \A f \in s.used : r.mem[f] = s.mem[f]
      BY <1>1, <1>3, FrameFields
    <3> QED BY <1>0, <2>0, <2>1, <3>1, <3>2 DEF Copied
  <2> QED BY <2>5, <2>6
<1>5. ASSUME NEW k \in 0 .. K - 1, NEW y, Good(k, y)
      PROVE  Good(k + 1, IF k \in U THEN CloneTable(y, src, g, k) ELSE y)
  <2>0. k \in Nat
    BY <1>0, ConstantTypes
  <2>1. PICK n : /\ Cloned(s, src, g, k, y, n)
                 /\ Alone(s, src) => Copied(s, src, g, k, y, n)
    BY <1>5
  <2>2. CASE k \in U
    <3>1. PICK p : /\ Cloned(s, src, g, k + 1, CloneTable(y, src, g, k), p)
                   /\ Alone(s, src) /\ Copied(s, src, g, k, y, n)
                       => Copied(s, src, g, k + 1, CloneTable(y, src, g, k), p)
      BY <1>0, <2>0, <2>1, <2>2, CloneRound
    <3> QED BY <2>1, <2>2, <3>1
  <2>3. CASE k \notin U
    <3>1. First(U, k + 1) = First(U, k)
      BY <1>2, <2>0, <2>3, FirstIs
    <3>2. Cloned(s, src, g, k + 1, y, n)
      BY <1>0, <2>1, <3>1 DEF Cloned
    <3>3. ASSUME Alone(s, src) PROVE Copied(s, src, g, k + 1, y, n)
      BY <1>0, <2>1, <3>1, <3>3 DEF Copied
    <3> QED BY <2>3, <3>2, <3>3
  <2> QED BY <2>2, <2>3
<1>6. \A k, y : Good(k, y) => y \in FrameStates
  BY DEF Cloned
<1> HIDE DEF Good
<1> DEFINE step(i, y) == IF i - 1 \in U THEN CloneTable(y, src, g, i - 1) ELSE y
           f == [i \in 1 .. K |-> [y \in FrameStates |-> IF Good(i - 1, y) THEN step(i, y) ELSE y]]
           Rounds(h) == h = [i \in 0 .. K |-> IF i = 0 THEN c.frames
                                              ELSE IF i - 1 \in UserTables(s, src)
                                                   THEN CloneTable(h[i-1], src, c.got, i - 1)
                                                   ELSE h[i-1]]
<1>7. K \in Nat /\ K >= 1
  BY <1>0, ConstantTypes
<1>8. ASSUME NEW i \in 1 .. K, NEW y, Good(i - 1, y) PROVE Good(i, step(i, y))
  <2>1. i - 1 \in 0 .. K - 1 /\ (i - 1) + 1 = i
    BY <1>7
  <2> QED BY <1>5, <1>8, <2>1
<1>9. PICK h \in [0 .. K -> FrameStates] : h[0] = r /\ \A i \in 1 .. K : h[i] = f[i][h[i-1]]
  <2>1. \A i \in 1 .. K, y \in FrameStates : Good(i - 1, y) => step(i, y) \in FrameStates
    BY <1>6, <1>8
  <2>2. f \in [1 .. K -> [FrameStates -> FrameStates]]
    <3> HIDE DEF step
    <3> QED BY <2>1
  <2> HIDE DEF f
  <2>3. PICK F, q, m, z : F = f /\ q = FrameStates /\ m = K /\ z = r
    OBVIOUS
  <2>4. F \in [1 .. m -> [q -> q]]
    BY <2>2, <2>3
  <2>5. m \in Nat /\ z \in q
    BY <1>1, <1>7, <2>3
  <2>6. \E h \in [0 .. m -> q] : h[0] = z /\ \A i \in 1 .. m : h[i] = F[i][h[i-1]]
    BY ONLY <2>4, <2>5, PrimitiveRecursion
  <2> QED BY <2>3, <2>6
<1>10. \A i \in 1 .. K : h[i] = IF Good(i - 1, h[i-1]) THEN step(i, h[i-1]) ELSE h[i-1]
  <2> SUFFICES ASSUME NEW i \in 1 .. K
               PROVE  h[i] = IF Good(i - 1, h[i-1]) THEN step(i, h[i-1]) ELSE h[i-1]
    OBVIOUS
  <2> HIDE DEF step
  <2>1. h[i-1] \in FrameStates
    BY <1>7, <1>9
  <2> QED BY <1>9, <2>1
<1>11. \A i \in 0 .. K : Good(i, h[i])
  <2> DEFINE T == {i \in 0 .. K : Good(i, h[i])}
  <2>1. 0 \in T
    BY <1>4, <1>7, <1>9
  <2>2. ASSUME NEW i \in 0 .. K, i < K, i \in T PROVE i + 1 \in T
    <3>1. i + 1 \in 1 .. K /\ i + 1 \in 0 .. K /\ (i + 1) - 1 = i /\ Good(i, h[i])
      BY <1>7, <2>2
    <3>2. h[i + 1] = step(i + 1, h[i])
      BY <1>10, <3>1
    <3> HIDE DEF step
    <3>3. Good(i + 1, step(i + 1, h[i]))
      BY <1>8, <3>1
    <3> QED BY <3>1, <3>2, <3>3
  <2> HIDE DEF T
  <2>3. \A i \in 0 .. K : i \in T
    <3>1. 0 \in Nat /\ 0 <= K
      BY <1>7
    <3> QED BY <1>7, <2>1, <2>2, <3>1, IntervalInduction
  <2> QED BY <2>3 DEF T
<1>12. \A i \in 1 .. K : h[i] = step(i, h[i-1])
  <2> SUFFICES ASSUME NEW i \in 1 .. K PROVE h[i] = step(i, h[i-1])
    OBVIOUS
  <2> HIDE DEF step
  <2>1. i - 1 \in 0 .. K
    BY <1>7
  <2> QED BY <1>10, <1>11, <2>1
<1>13. Rounds(h)
  <2>1. \A i \in 0 .. K : h[i] = IF i = 0 THEN r ELSE step(i, h[i-1])
    BY <1>7, <1>9, <1>12
  <2> QED BY <1>0, <1>9, <2>1
<1>14. ASSUME NEW e, Rounds(e) PROVE e = h
  <2> DEFINE T == {i \in 0 .. K : e[i] = h[i]}
  <2>1. 0 \in T
    BY <1>0, <1>7, <1>9, <1>14
  <2>2. ASSUME NEW i \in 0 .. K, i < K, i \in T PROVE i + 1 \in T
    <3>1. i + 1 \in 1 .. K /\ i + 1 \in 0 .. K /\ i + 1 - 1 = i /\ e[i] = h[i]
      BY <1>7, <2>2
    <3>2. e[i + 1] = step(i + 1, e[i])
      BY <1>0, <1>14, <3>1
    <3>3. h[i + 1] = step(i + 1, h[i])
      BY <1>12, <3>1
    <3> QED BY <3>1, <3>2, <3>3
  <2> HIDE DEF T
  <2>3. \A i \in 0 .. K : i \in T
    <3>1. 0 \in Nat /\ 0 <= K
      BY <1>7
    <3> QED BY <1>7, <2>1, <2>2, <3>1, IntervalInduction
  <2> QED BY <1>9, <1>14, <2>3 DEF T
<1>15. Clone(s, src).frames = h[K] /\ Clone(s, src).got = g
  <2>1. h = CHOOSE e : Rounds(e)
    <3> HIDE DEF Rounds
    <3> QED BY <1>13, <1>14
  <2> QED BY <1>0, <2>1 DEF Clone
<1>16. Good(K, h[K])
  BY <1>7, <1>11
<1> QED BY <1>0, <1>15, <1>16 DEF Good

-----------------------------------------------------------------------------
(* The invariant, of frames s with directories D and h pages of heap.      *)

\* In memory m directory d maps page v, by the entry At(m, d, v), through one of
\* the tables Tabs(m, d).
Maps(m, d, v) == Hi(v) \in DOMAIN m[d] /\ Lo(v) \in DOMAIN m[m[d][Hi(v)].frame]
At(m, d, v)   == m[m[d][Hi(v)].frame][Lo(v)]
Tabs(m, d)    == {m[d][i].frame : i \in DOMAIN m[d]}

\* vmm_get_physical in terms of what is mapped.
LEMMA TranslateIs ==
    ASSUME NEW s, NEW d, NEW v
    PROVE  Translate(s, d, v) = IF Maps(s.mem, d, v) THEN At(s.mem, d, v).frame ELSE None
BY DEF Translate, Maps, At, Hi, Lo

HeapOf(h) == HEAP_PAGE .. HEAP_PAGE + h - 1
Backing(s, v) == At(s.mem, kernel_dir, v).frame
Booted == START_PAGE .. TOTAL_PAGES - 1

\* The directories and the frames below the kernel are in use; no directory entry
\* of the kernel leads back to its directory.
Kept(s, D) ==
    /\ kernel_dir \in D /\ D \subseteq s.used /\ D \subseteq Booted
    /\ 0 .. START_PAGE - 1 \subseteq s.used
    /\ kernel_dir \notin Tabs(s.mem, kernel_dir)

\* Each table belongs to one entry of one directory.
Apart(s, D) ==
    /\ \A d \in D : DOMAIN s.mem[d] \subseteq 0 .. KERNEL_ENTRY - 1
    /\ \A d \in D : \A i \in DOMAIN s.mem[d] :
          s.mem[d][i].frame \in s.used /\ s.mem[d][i].frame \in Booted /\ s.mem[d][i].frame \notin D
    /\ \A d, c \in D : \A i \in DOMAIN s.mem[d], j \in DOMAIN s.mem[c] :
          s.mem[d][i].frame = s.mem[c][j].frame => d = c /\ i = j

\* The kernel maps the low pages and its heap.
KernelMaps(s, h) ==
    \A v \in Pages : Maps(s.mem, kernel_dir, v) <=> v \in LowPages \/ v \in HeapOf(h)

\* The frame behind a heap page serves nothing else, and no frame is lost.
Backs(s, D, h) ==
    /\ \A v \in HeapOf(h) : Backing(s, v) # 0 =>
          /\ Backing(s, v) \in s.used /\ Backing(s, v) \in Booted /\ Backing(s, v) \notin D
          /\ \A d \in D : Backing(s, v) \notin Tabs(s.mem, d)
    /\ \A v, w \in HeapOf(h) : Backing(s, v) = Backing(s, w) /\ Backing(s, v) # 0 => v = w
    /\ \A f \in s.used : f \in Booted =>
          \/ f \in D
          \/ \E d \in D : f \in Tabs(s.mem, d)
          \/ \E v \in HeapOf(h) : f = Backing(s, v)

\* Two directories that map a page have the same read-only entry for it.
Shares(s, D) ==
    \A d, c \in D, v \in Pages : d # c /\ Maps(s.mem, d, v) /\ Maps(s.mem, c, v) =>
        /\ At(s.mem, d, v) = At(s.mem, c, v)
        /\ At(s.mem, d, v).cow = TRUE /\ At(s.mem, d, v).write = FALSE

\* No directory maps more than the kernel's.
Below(s, D) == \A d \in D, v \in Pages : Maps(s.mem, d, v) => Maps(s.mem, kernel_dir, v)

Sound(s, D, h) ==
    Apart(s, D) /\ KernelMaps(s, h) /\ Backs(s, D, h) /\ Shares(s, D) /\ Below(s, D)

\* The pages of the kernel, with h pages of heap, are in y where they were in x.
Stays(x, y, h) ==
    \A v \in LowPages \cup HeapOf(h) : Translate(y, kernel_dir, v) = Translate(x, kernel_dir, v)

\* Pages of the heap are pages, above the low ones.
LEMMA HeapAbove ==
    ASSUME NEW h \in 0 .. MaxHeap
    PROVE  /\ LowPages \subseteq Pages /\ HeapOf(h) \subseteq Pages
           /\ \A v \in HeapOf(h) : v \notin LowPages
           /\ HEAP_PAGE + h \notin LowPages /\ HEAP_PAGE + h \notin HeapOf(h)
           /\ h < MaxHeap => /\ HEAP_PAGE + h \in Pages /\ h + 1 \in 0 .. MaxHeap
                             /\ HeapOf(h + 1) = HeapOf(h) \cup {HEAP_PAGE + h}
<1>0. PICK E, T, k : E = ENTRIES /\ k = HEAP_PAGE /\ T = KERNEL_ENTRY * ENTRIES
  OBVIOUS
<1>1. /\ E \in Nat /\ T \in Nat /\ k \in Nat /\ MaxHeap \in Nat /\ E <= k /\ k + MaxHeap <= T /\ h \in Nat
      /\ h <= MaxHeap
  BY <1>0, ConstantTypes
<1>2. LowPages = 0 .. E - 1 /\ Pages = 0 .. T - 1 /\ \A i : HeapOf(i) = k .. k + i - 1
  BY <1>0 DEF LowPages, Pages, HeapOf
<1>3. /\ LowPages \subseteq Pages
      /\ HEAP_PAGE + h \notin LowPages /\ HEAP_PAGE + h \notin HeapOf(h)
  BY ONLY <1>0, <1>1, <1>2
<1>4. \A v \in HeapOf(h) : v \in Pages /\ v \notin LowPages
  <2>1. \A v \in k .. k + h - 1 : v \in 0 .. T - 1 /\ v \notin 0 .. E - 1
    BY ONLY <1>1
  <2>2. HeapOf(h) = k .. k + h - 1
    BY <1>2
  <2> QED BY ONLY <1>2, <2>1, <2>2
<1>5. ASSUME h < MaxHeap
      PROVE  /\ HEAP_PAGE + h \in Pages /\ h + 1 \in 0 .. MaxHeap
             /\ HeapOf(h + 1) = HeapOf(h) \cup {HEAP_PAGE + h}
  <2>1. HEAP_PAGE + h \in Pages /\ h + 1 \in 0 .. MaxHeap
    BY ONLY <1>0, <1>1, <1>2, <1>5
  <2>2. k .. k + (h + 1) - 1 = (k .. k + h - 1) \cup {k + h}
    BY ONLY <1>1
  <2> QED BY <1>0, <1>2, <2>1, <2>2
<1> QED BY <1>3, <1>4, <1>5

-----------------------------------------------------------------------------
(* heap_expand.                                                            *)

\* y is x with one more page of the kernel, v, at frame f: its table is in frame t.
Grows(x, y, v, f, t) ==
    /\ Takes(x, Alloc(x).frames, f) /\ t \in Frames
    /\ DOMAIN y.mem[kernel_dir] = DOMAIN x.mem[kernel_dir] \cup {Hi(v)}
    /\ \A i \in DOMAIN x.mem[kernel_dir] : y.mem[kernel_dir][i] = x.mem[kernel_dir][i]
    /\ y.mem[kernel_dir][Hi(v)].frame = t
    /\ \A g \in x.used \ {kernel_dir, t} : y.mem[g] = x.mem[g]
    /\ \/ /\ Hi(v) \in DOMAIN x.mem[kernel_dir] /\ t # kernel_dir
          /\ y.used = x.used \cup {f} /\ y.mem[t] = Entered(x.mem[t], v, f)
       \/ /\ Hi(v) \notin DOMAIN x.mem[kernel_dir] /\ t # kernel_dir
          /\ \/ t # f /\ t \notin x.used /\ y.used = x.used \cup {f, t}
             \/ t = 0 /\ y.used = x.used \cup {f} /\ y.used = Frames
          /\ y.mem[t] = Entered(Empty, v, f)

\* heap_expand takes a frame, and one for the table if it has to (heap.c:26-28); a
\* failed pmm_alloc stands for frame 0.
LEMMA ExpandIs ==
    ASSUME NEW x \in FrameStates, Counted(x), NEW D, Kept(x, D), NEW v \in Pages,
           NEW y, y = Map(Alloc(x).frames, kernel_dir, v, Alloc(x).got)
    PROVE  /\ y \in FrameStates /\ Counted(y) /\ Kept(y, D)
           /\ \E t \in Frames : Grows(x, y, v, Alloc(x).got, t)
<1>0. PICK a, f : a = Alloc(x).frames /\ f = Alloc(x).got
  OBVIOUS
<1>1. /\ Takes(x, a, f) /\ a \in FrameStates /\ a.mem = x.mem /\ f \in Frames
      /\ x.mem \in [Frames -> Tables] /\ kernel_dir \in Frames
  BY <1>0, AllocTakes, FrameFields, ConstantTypes
<1>2. /\ kernel_dir \in D /\ D \subseteq x.used /\ D \subseteq Booted
      /\ 0 .. START_PAGE - 1 \subseteq x.used
      /\ kernel_dir \notin Tabs(x.mem, kernel_dir) /\ kernel_dir # 0 /\ 0 \in x.used
  <2>1. kernel_dir # 0 /\ 0 \in 0 .. START_PAGE - 1
    BY ConstantTypes DEF kernel_dir
  <2> QED BY <2>1 DEF Kept
<1>3. a.used = x.used \cup {f}
  BY <1>1, <1>2 DEF Takes
<1>4. kernel_dir \in a.used
  BY <1>2, <1>3
<1>5. PICK t \in Frames : /\ y \in FrameStates
                          /\ \/ MapsOld(a, y, kernel_dir, v, f, t)
                             \/ MapsNew(a, y, kernel_dir, v, f, t)
  <2>1. y = Map(a, kernel_dir, v, f)
    BY <1>0
  <2> QED BY <1>1, <1>2, <1>4, <2>1, MapIs
<1>6. Counted(a)
  BY <1>1, TakesCounts
<1>7. CASE MapsOld(a, y, kernel_dir, v, f, t)
  <2>1. /\ Hi(v) \in DOMAIN x.mem[kernel_dir] /\ t = x.mem[kernel_dir][Hi(v)].frame
        /\ y.used = a.used /\ y.used_pages = a.used_pages
        /\ y.mem = Write(x.mem, t, Entered(x.mem[t], v, f))
    BY <1>1, <1>7 DEF MapsOld
  <2>2. t # kernel_dir
    BY <1>2, <2>1 DEF Tabs
  <2>3. y.mem[t] = Entered(x.mem[t], v, f) /\ \A g \in Frames \ {t} : y.mem[g] = x.mem[g]
    BY <1>1, <2>1 DEF Write
  <2>4. y.mem[kernel_dir] = x.mem[kernel_dir]
    BY <1>1, <2>2, <2>3
  <2>5. Counted(y)
    BY <1>6, <2>1 DEF Counted
  <2>6. Kept(y, D)
    BY <1>2, <1>3, <2>1, <2>4 DEF Kept, Tabs
  <2>7. Grows(x, y, v, f, t)
    <3>1. \A g \in x.used \ {kernel_dir, t} : y.mem[g] = x.mem[g]
      BY <2>3, FrameFields
    <3> QED BY <1>0, <1>1, <1>3, <2>1, <2>2, <2>3, <2>4, <3>1 DEF Grows
  <2> QED BY <1>0, <1>5, <2>5, <2>6, <2>7
<1>8. CASE MapsNew(a, y, kernel_dir, v, f, t)
  <2>1. /\ Hi(v) \notin DOMAIN x.mem[kernel_dir] /\ t # kernel_dir
        /\ Takes(a, y, t)
        /\ y.mem[t] = Entered(Empty, v, f)
        /\ y.mem[kernel_dir] = SetEntry(x.mem[kernel_dir], Hi(v), Writable(t))
        /\ \A g \in Frames \ {kernel_dir, t} : y.mem[g] = x.mem[g]
    BY <1>1, <1>8 DEF MapsNew
  <2>2. PICK k, i, e : k = x.mem[kernel_dir] /\ i = Hi(v) /\ e = Writable(t)
    OBVIOUS
  <2>3. k \in Tables /\ i \in 0 .. ENTRIES - 1 /\ e \in Entry /\ e.frame = t
    BY <1>1, <2>2, ConstantTypes, PageSplits, EntryFields
  <2>4. /\ DOMAIN y.mem[kernel_dir] = DOMAIN k \cup {i}
        /\ y.mem[kernel_dir][i] = e
        /\ \A j \in DOMAIN k : j # i => y.mem[kernel_dir][j] = k[j]
    <3>1. /\ DOMAIN SetEntry(k, i, e) = DOMAIN k \cup {i}
          /\ SetEntry(k, i, e)[i] = e
          /\ \A j \in DOMAIN k : j # i => SetEntry(k, i, e)[j] = k[j]
      BY ONLY <2>3, SetEntryFields
    <3>2. y.mem[kernel_dir] = SetEntry(k, i, e)
      BY <2>1, <2>2
    <3> QED BY <3>1, <3>2
  <2>5. /\ DOMAIN y.mem[kernel_dir] = DOMAIN x.mem[kernel_dir] \cup {Hi(v)}
        /\ \A j \in DOMAIN x.mem[kernel_dir] : y.mem[kernel_dir][j] = x.mem[kernel_dir][j]
        /\ y.mem[kernel_dir][Hi(v)].frame = t
    BY <2>1, <2>2, <2>3, <2>4
  <2>6. \/ t # f /\ t \notin x.used /\ y.used = x.used \cup {f, t}
        \/ t = 0 /\ y.used = x.used \cup {f} /\ y.used = Frames
    BY <1>3, <2>1 DEF Takes
  <2>7. Counted(y)
    BY <1>1, <1>6, <2>1, TakesCounts
  <2>8. Kept(y, D)
    <3>1. x.used \subseteq y.used
      BY <2>6
    <3>2. kernel_dir \notin Tabs(y.mem, kernel_dir)
      BY <1>2, <2>1, <2>5 DEF Tabs
    <3> QED BY <1>2, <3>1, <3>2 DEF Kept
  <2>9. Grows(x, y, v, f, t)
    <3>1. \A g \in x.used \ {kernel_dir, t} : y.mem[g] = x.mem[g]
      BY <2>1, FrameFields
    <3> QED BY <1>0, <1>1, <2>1, <2>5, <2>6, <3>1 DEF Grows
  <2> QED BY <1>0, <1>5, <2>7, <2>8, <2>9
<1> QED BY <1>5, <1>7, <1>8

\* The entry of a page that was entered, and the others.
LEMMA EnteredFields ==
    ASSUME NEW table \in Tables, NEW v \in Pages, NEW f \in Frames
    PROVE  /\ DOMAIN Entered(table, v, f) = DOMAIN table \cup {Lo(v)}
           /\ Entered(table, v, f)[Lo(v)].frame = f
           /\ \A j \in DOMAIN table : j # Lo(v) => Entered(table, v, f)[j] = table[j]
<1>1. PICK i, e : i = Lo(v) /\ e = Writable(f)
  OBVIOUS
<1>2. i \in 0 .. ENTRIES - 1 /\ e \in Entry /\ e.frame = f
  BY <1>1, PageSplits, EntryFields
<1>3. /\ DOMAIN SetEntry(table, i, e) = DOMAIN table \cup {i}
      /\ SetEntry(table, i, e)[i] = e
      /\ \A j \in DOMAIN table : j # i => SetEntry(table, i, e)[j] = table[j]
  BY ONLY table \in Tables, <1>2, SetEntryFields
<1> QED BY <1>1, <1>2, <1>3 DEF Entered

\* What is mapped after the heap has grown by page v: that page, and what was
\* mapped, at the same entries.
LEMMA GrowsMaps ==
    ASSUME NEW x \in FrameStates, NEW y \in FrameStates, NEW D, Kept(x, D), Apart(x, D),
           NEW v \in Pages, ~ Maps(x.mem, kernel_dir, v),
           NEW f \in Frames, NEW t \in Frames \ {0}, Grows(x, y, v, f, t)
    PROVE  /\ \A d \in D : DOMAIN y.mem[d] = DOMAIN x.mem[d] \cup
                              (IF d = kernel_dir THEN {Hi(v)} ELSE {})
           /\ \A d \in D : \A i \in DOMAIN x.mem[d] : y.mem[d][i] = x.mem[d][i]
           /\ \A d \in D, w \in Pages :
                Maps(y.mem, d, w) <=> Maps(x.mem, d, w) \/ (d = kernel_dir /\ w = v)
           /\ \A d \in D, w \in Pages : Maps(x.mem, d, w) => At(y.mem, d, w) = At(x.mem, d, w)
           /\ At(y.mem, kernel_dir, v).frame = f
<1>1. /\ kernel_dir \in D /\ \A d \in D : d \in x.used /\ d \in Frames
      /\ \A g \in x.used : g \in Frames
  BY FrameFields DEF Kept
<1>2. /\ DOMAIN y.mem[kernel_dir] = DOMAIN x.mem[kernel_dir] \cup {Hi(v)}
      /\ \A i \in DOMAIN x.mem[kernel_dir] : y.mem[kernel_dir][i] = x.mem[kernel_dir][i]
      /\ y.mem[kernel_dir][Hi(v)].frame = t
      /\ \A g \in x.used \ {kernel_dir, t} : y.mem[g] = x.mem[g]
      /\ t # kernel_dir
  BY DEF Grows
<1>3. \A d \in D : \A i \in DOMAIN x.mem[d] :
         x.mem[d][i].frame \in x.used /\ x.mem[d][i].frame \notin D
  BY DEF Apart
<1>4. Hi(v) \in DOMAIN x.mem[kernel_dir] => x.mem[kernel_dir][Hi(v)].frame = t
  BY <1>2
<1>5. Hi(v) \notin DOMAIN x.mem[kernel_dir] => t \notin x.used
  BY DEF Grows
<1>6. t \notin D
  BY <1>1, <1>3, <1>4, <1>5
<1>7. \A d \in D : d # kernel_dir => y.mem[d] = x.mem[d]
  BY <1>1, <1>2, <1>6
<1>8. ASSUME NEW d \in D, NEW i \in DOMAIN x.mem[d], ~ (d = kernel_dir /\ i = Hi(v))
      PROVE  y.mem[x.mem[d][i].frame] = x.mem[x.mem[d][i].frame]
  <2>1. x.mem[d][i].frame # t
    <3>1. CASE Hi(v) \in DOMAIN x.mem[kernel_dir]
      BY <1>1, <1>4, <1>8, <3>1 DEF Apart
    <3>2. CASE Hi(v) \notin DOMAIN x.mem[kernel_dir]
      BY <1>3, <1>5, <3>2
    <3> QED BY <3>1, <3>2
  <2>2. x.mem[d][i].frame \in x.used /\ x.mem[d][i].frame # kernel_dir
    BY <1>1, <1>3
  <2> QED BY <1>2, <2>1, <2>2
<1>9. \A d \in D : \A i \in DOMAIN x.mem[d] : y.mem[d][i] = x.mem[d][i]
  BY <1>2, <1>7
<1>10. PICK T : /\ T \in Tables /\ y.mem[t] = Entered(T, v, f)
                /\ Hi(v) \in DOMAIN x.mem[kernel_dir] => T = x.mem[t]
                /\ Hi(v) \notin DOMAIN x.mem[kernel_dir] => T = Empty
  <2>1. x.mem[t] \in Tables /\ Empty \in Tables
    BY FrameFields, EmptyTable
  <2> QED BY <2>1 DEF Grows
<1>11. /\ DOMAIN y.mem[t] = DOMAIN T \cup {Lo(v)} /\ y.mem[t][Lo(v)].frame = f
       /\ \A j \in DOMAIN T : j # Lo(v) => y.mem[t][j] = T[j]
  <2>1. T \in Tables /\ y.mem[t] = Entered(T, v, f)
    BY <1>10
  <2>2. /\ DOMAIN Entered(T, v, f) = DOMAIN T \cup {Lo(v)}
        /\ Entered(T, v, f)[Lo(v)].frame = f
        /\ \A j \in DOMAIN T : j # Lo(v) => Entered(T, v, f)[j] = T[j]
    BY ONLY v \in Pages, f \in Frames, <2>1, EnteredFields
  <2> QED BY <2>1, <2>2
<1>12. ASSUME NEW d \in D, NEW w \in Pages, d # kernel_dir
       PROVE  /\ Maps(y.mem, d, w) <=> Maps(x.mem, d, w)
              /\ Maps(x.mem, d, w) => At(y.mem, d, w) = At(x.mem, d, w)
  BY <1>7, <1>8, <1>12 DEF Maps, At
<1>13. ASSUME NEW w \in Pages, Hi(w) # Hi(v)
       PROVE  /\ Maps(y.mem, kernel_dir, w) <=> Maps(x.mem, kernel_dir, w)
              /\ Maps(x.mem, kernel_dir, w) => At(y.mem, kernel_dir, w) = At(x.mem, kernel_dir, w)
              /\ w # v
  <2>1. Hi(w) \in DOMAIN y.mem[kernel_dir] <=> Hi(w) \in DOMAIN x.mem[kernel_dir]
    BY <1>2, <1>13
  <2>2. ASSUME Hi(w) \in DOMAIN x.mem[kernel_dir]
        PROVE  /\ y.mem[kernel_dir][Hi(w)] = x.mem[kernel_dir][Hi(w)]
               /\ y.mem[x.mem[kernel_dir][Hi(w)].frame] = x.mem[x.mem[kernel_dir][Hi(w)].frame]
    BY <1>1, <1>2, <1>8, <1>13, <2>2
  <2> QED BY <1>13, <2>1, <2>2 DEF Maps, At
<1>14. ASSUME NEW w \in Pages, Hi(w) = Hi(v)
       PROVE  /\ Maps(y.mem, kernel_dir, w) <=> Maps(x.mem, kernel_dir, w) \/ w = v
              /\ Maps(x.mem, kernel_dir, w) => At(y.mem, kernel_dir, w) = At(x.mem, kernel_dir, w)
  <2>1. Lo(w) = Lo(v) <=> w = v
    BY <1>14, PageSplits
  <2>2. Maps(y.mem, kernel_dir, w) <=> Lo(w) \in DOMAIN y.mem[t]
    BY <1>2, <1>14 DEF Maps
  <2>3. Maps(x.mem, kernel_dir, w) <=> Lo(w) \in DOMAIN T
    BY <1>4, <1>10, <1>14, EmptyTable DEF Maps
  <2>4. Maps(x.mem, kernel_dir, w) => w # v
    OBVIOUS
  <2>5. Maps(x.mem, kernel_dir, w) => At(x.mem, kernel_dir, w) = T[Lo(w)]
    BY <1>4, <1>10, <1>14 DEF Maps, At
  <2>6. At(y.mem, kernel_dir, w) = y.mem[t][Lo(w)]
    BY <1>2, <1>14 DEF At
  <2> QED BY <1>11, <2>1, <2>2, <2>3, <2>4, <2>5, <2>6
<1>15. At(y.mem, kernel_dir, v).frame = f
  BY <1>2, <1>11 DEF At
<1>16. \A d \in D : DOMAIN y.mem[d] = DOMAIN x.mem[d] \cup
                              (IF d = kernel_dir THEN {Hi(v)} ELSE {})
  BY <1>2, <1>7
<1> QED BY <1>1, <1>9, <1>12, <1>13, <1>14, <1>15, <1>16

\* The heap grows by a page: the tables stay apart, the new page has a frame of
\* its own or frame 0, and the sharing is as it was.
LEMMA GrowsSound ==
    ASSUME NEW x \in FrameStates, NEW y \in FrameStates, NEW D, Kept(x, D), Kept(y, D),
           NEW h \in 0 .. MaxHeap, h < MaxHeap, Sound(x, D, h),
           NEW v, v = HEAP_PAGE + h,
           NEW f \in Frames, NEW t \in Frames \ {0}, Grows(x, y, v, f, t)
    PROVE  Sound(y, D, h + 1) /\ Stays(x, y, h)
<1>1. /\ v \in Pages /\ v \notin LowPages /\ v \notin HeapOf(h) /\ HeapOf(h) \subseteq Pages
      /\ HeapOf(h + 1) = HeapOf(h) \cup {v} /\ \A w \in HeapOf(h) : w \notin LowPages
  BY HeapAbove
<1>2. ~ Maps(x.mem, kernel_dir, v)
  BY <1>1 DEF Sound, KernelMaps
<1>3. Apart(x, D) /\ KernelMaps(x, h) /\ Backs(x, D, h) /\ Shares(x, D) /\ Below(x, D)
  BY DEF Sound
<1>4. /\ \A d \in D : DOMAIN y.mem[d] = DOMAIN x.mem[d] \cup
                         (IF d = kernel_dir THEN {Hi(v)} ELSE {})
      /\ \A d \in D : \A i \in DOMAIN x.mem[d] : y.mem[d][i] = x.mem[d][i]
      /\ \A d \in D, w \in Pages :
           Maps(y.mem, d, w) <=> Maps(x.mem, d, w) \/ (d = kernel_dir /\ w = v)
      /\ \A d \in D, w \in Pages : Maps(x.mem, d, w) => At(y.mem, d, w) = At(x.mem, d, w)
      /\ At(y.mem, kernel_dir, v).frame = f
  BY <1>1, <1>2, <1>3, GrowsMaps
<1>5. /\ kernel_dir \in D /\ D \subseteq x.used /\ D \subseteq Booted
      /\ 0 .. START_PAGE - 1 \subseteq x.used
  BY DEF Kept
<1>6. /\ y.mem[kernel_dir][Hi(v)].frame = t
      /\ \/ Hi(v) \in DOMAIN x.mem[kernel_dir] /\ y.used = x.used \cup {f}
         \/ /\ Hi(v) \notin DOMAIN x.mem[kernel_dir] /\ y.used = x.used \cup {f, t}
            /\ t \notin x.used /\ t # f
      /\ f \notin x.used \/ f = 0
  BY DEF Grows, Takes
<1>7. \A g \in Frames : g \notin x.used => g \in Booted /\ g \notin D
  BY <1>5, ConstantTypes DEF Booted, Frames
<1>8. f # 0 => f \notin x.used /\ f \in Booted /\ f \notin D
  BY <1>6, <1>7
<1>9. \A d \in D : \A i \in DOMAIN x.mem[d] : /\ x.mem[d][i].frame \in x.used
                                              /\ x.mem[d][i].frame \in Booted
                                              /\ x.mem[d][i].frame \notin D
  BY <1>3 DEF Apart
<1>10. ASSUME NEW d \in D, NEW i \in DOMAIN y.mem[d], i \notin DOMAIN x.mem[d]
       PROVE  /\ d = kernel_dir /\ i = Hi(v) /\ y.mem[d][i].frame = t
              /\ t \notin x.used /\ t \in y.used /\ t \in Booted /\ t \notin D /\ t # f
  <2>1. d = kernel_dir /\ i = Hi(v)
    BY <1>4, <1>10
  <2>2. t \notin x.used /\ t \in y.used /\ t # f
    BY <1>6, <1>10, <2>1
  <2> QED BY <1>6, <1>7, <2>1, <2>2
<1>11. Apart(y, D)
  <2>1. ASSUME NEW d \in D PROVE DOMAIN y.mem[d] \subseteq 0 .. KERNEL_ENTRY - 1
    <3>1. DOMAIN x.mem[d] \subseteq 0 .. KERNEL_ENTRY - 1
      BY <1>3 DEF Apart
    <3>2. Hi(v) \in 0 .. KERNEL_ENTRY - 1
      BY <1>1, PageSplits
    <3> QED BY <1>4, <3>1, <3>2
  <2>2. ASSUME NEW d \in D, NEW i \in DOMAIN y.mem[d]
        PROVE  y.mem[d][i].frame \in y.used /\ y.mem[d][i].frame \in Booted /\ y.mem[d][i].frame \notin D
    <3>1. CASE i \in DOMAIN x.mem[d]
      BY <1>4, <1>6, <1>9, <3>1
    <3>2. CASE i \notin DOMAIN x.mem[d]
      BY <1>10, <3>2
    <3> QED BY <3>1, <3>2
  <2>3. ASSUME NEW d \in D, NEW c \in D, NEW i \in DOMAIN y.mem[d], NEW j \in DOMAIN y.mem[c],
               y.mem[d][i].frame = y.mem[c][j].frame
        PROVE  d = c /\ i = j
    <3>1. CASE i \in DOMAIN x.mem[d] /\ j \in DOMAIN x.mem[c]
      <4>1. x.mem[d][i].frame = x.mem[c][j].frame
        BY <1>4, <2>3, <3>1
      <4> QED BY <1>3, <3>1, <4>1 DEF Apart
    <3>2. CASE i \notin DOMAIN x.mem[d] /\ j \notin DOMAIN x.mem[c]
      BY <1>10, <3>2
    <3>3. CASE i \in DOMAIN x.mem[d] /\ j \notin DOMAIN x.mem[c]
      BY <1>4, <1>9, <1>10, <2>3, <3>3
    <3>4. CASE i \notin DOMAIN x.mem[d] /\ j \in DOMAIN x.mem[c]
      BY <1>4, <1>9, <1>10, <2>3, <3>4
    <3> QED BY <3>1, <3>2, <3>3, <3>4
  <2> QED BY <2>1, <2>2, <2>3 DEF Apart
<1>12. KernelMaps(y, h + 1)
  BY <1>1, <1>3, <1>4, <1>5 DEF KernelMaps
<1>13. \A w \in HeapOf(h) : Maps(x.mem, kernel_dir, w) /\ Backing(y, w) = Backing(x, w)
  BY <1>1, <1>3, <1>4, <1>5 DEF KernelMaps, Backing
<1>14. Backing(y, v) = f
  BY <1>4 DEF Backing
<1>15. \A d \in D : \A g \in Tabs(y.mem, d) : g \in Tabs(x.mem, d) \/ (g \notin x.used /\ g # f)
  BY <1>4, <1>10 DEF Tabs
<1>16. \A d \in D : Tabs(x.mem, d) \subseteq Tabs(y.mem, d) /\ Tabs(x.mem, d) \subseteq x.used
  BY <1>4, <1>9 DEF Tabs
<1>17. Backs(y, D, h + 1)
  <2>1. ASSUME NEW w \in HeapOf(h + 1), Backing(y, w) # 0
        PROVE  /\ Backing(y, w) \in y.used /\ Backing(y, w) \in Booted /\ Backing(y, w) \notin D
               /\ \A d \in D : Backing(y, w) \notin Tabs(y.mem, d)
    <3>1. CASE w \in HeapOf(h)
      <4>1. /\ Backing(y, w) \in x.used /\ Backing(y, w) \in Booted /\ Backing(y, w) \notin D
            /\ \A d \in D : Backing(y, w) \notin Tabs(x.mem, d)
        BY <1>3, <1>13, <2>1, <3>1 DEF Backs
      <4> QED BY <1>6, <1>15, <4>1
    <3>2. CASE w = v
      <4>1. f \in y.used
        BY <1>6
      <4> QED BY <1>8, <1>14, <1>15, <1>16, <2>1, <3>2, <4>1
    <3> QED BY <1>1, <3>1, <3>2
  <2>2. ASSUME NEW w \in HeapOf(h + 1), NEW u \in HeapOf(h + 1),
               Backing(y, w) = Backing(y, u), Backing(y, w) # 0
        PROVE  w = u
    <3>1. CASE w \in HeapOf(h) /\ u \in HeapOf(h)
      BY <1>3, <1>13, <2>2, <3>1 DEF Backs
    <3>2. \A q \in HeapOf(h) : Backing(y, q) # 0 => Backing(y, q) \in x.used
      BY <1>3, <1>13 DEF Backs
    <3>3. CASE w = v /\ u \in HeapOf(h)
      BY <1>8, <1>14, <2>2, <3>2, <3>3
    <3>4. CASE w \in HeapOf(h) /\ u = v
      BY <1>8, <1>14, <2>2, <3>2, <3>4
    <3> QED BY <1>1, <3>1, <3>3, <3>4
  <2>3. ASSUME NEW g \in y.used, g \in Booted
        PROVE  \/ g \in D
               \/ \E d \in D : g \in Tabs(y.mem, d)
               \/ \E w \in HeapOf(h + 1) : g = Backing(y, w)
    <3>1. CASE g \in x.used
      <4>1. \/ g \in D
            \/ \E d \in D : g \in Tabs(x.mem, d)
            \/ \E w \in HeapOf(h) : g = Backing(x, w)
        BY <1>3, <2>3, <3>1 DEF Backs
      <4> QED BY <1>1, <1>13, <1>16, <4>1
    <3>2. CASE g = f
      BY <1>1, <1>14, <3>2
    <3>3. CASE g = t
      BY <1>4, <1>5, <1>6, <3>3 DEF Tabs
    <3> QED BY <1>6, <3>1, <3>2, <3>3
  <2> QED BY <2>1, <2>2, <2>3 DEF Backs
<1>18. Shares(y, D)
  <2> SUFFICES ASSUME NEW d \in D, NEW c \in D, NEW w \in Pages, d # c,
                      Maps(y.mem, d, w), Maps(y.mem, c, w)
               PROVE  /\ At(y.mem, d, w) = At(y.mem, c, w)
                      /\ At(y.mem, d, w).cow = TRUE /\ At(y.mem, d, w).write = FALSE
    BY DEF Shares
  <2>1. \A b \in D : ~ Maps(x.mem, b, v)
    BY <1>1, <1>2, <1>3 DEF Below
  <2>2. Maps(x.mem, d, w) /\ Maps(x.mem, c, w)
    BY <1>4, <2>1
  <2>3. At(y.mem, d, w) = At(x.mem, d, w) /\ At(y.mem, c, w) = At(x.mem, c, w)
    BY <1>4, <2>2
  <2> QED BY <1>3, <2>2, <2>3 DEF Shares
<1>19. Below(y, D)
  <2> SUFFICES ASSUME NEW d \in D, NEW w \in Pages, Maps(y.mem, d, w)
               PROVE  Maps(y.mem, kernel_dir, w)
    BY DEF Below
  <2>1. Maps(x.mem, d, w) => Maps(x.mem, kernel_dir, w)
    BY <1>3 DEF Below
  <2> QED BY <1>4, <1>5, <2>1
<1>20. Stays(x, y, h)
  <2> SUFFICES ASSUME NEW w \in LowPages \cup HeapOf(h)
               PROVE  Translate(y, kernel_dir, w) = Translate(x, kernel_dir, w)
    BY DEF Stays
  <2>1. w \in Pages
    BY HeapAbove
  <2>2. Maps(x.mem, kernel_dir, w)
    BY <1>3, <2>1 DEF KernelMaps
  <2>3. Maps(y.mem, kernel_dir, w) /\ At(y.mem, kernel_dir, w) = At(x.mem, kernel_dir, w)
    BY <1>4, <1>5, <2>1, <2>2
  <2> QED BY <2>2, <2>3, TranslateIs
<1> QED BY <1>11, <1>12, <1>17, <1>18, <1>19, <1>20 DEF Sound

-----------------------------------------------------------------------------
(* proc_fork.                                                              *)

\* The clone's directory is new, and the kernel's tables stay where they were.
LEMMA ForkKept ==
    ASSUME NEW x \in FrameStates, NEW D, Kept(x, D), NEW src \in D, NEW y, NEW g, NEW n,
           Cloned(x, src, g, KERNEL_ENTRY, y, n)
    PROVE  /\ y \in FrameStates /\ Counted(y) /\ Kept(y, D \cup {g})
           /\ Tabs(y.mem, kernel_dir) = Tabs(x.mem, kernel_dir)
<1>1. /\ y \in FrameStates /\ Counted(y) /\ g \in Frames \ x.used
      /\ \A f \in x.used : SameFrames(x.mem[f], y.mem[f])
      /\ x.used \subseteq y.used /\ g \in y.used
  BY DEF Cloned
<1>2. /\ kernel_dir \in D /\ D \subseteq x.used /\ D \subseteq Booted
      /\ 0 .. START_PAGE - 1 \subseteq x.used
      /\ kernel_dir \notin Tabs(x.mem, kernel_dir)
  BY DEF Kept
<1>3. SameFrames(x.mem[kernel_dir], y.mem[kernel_dir])
  BY <1>1, <1>2
<1>4. Tabs(y.mem, kernel_dir) = Tabs(x.mem, kernel_dir)
  <2>1. /\ DOMAIN y.mem[kernel_dir] = DOMAIN x.mem[kernel_dir]
        /\ \A i \in DOMAIN x.mem[kernel_dir] :
              y.mem[kernel_dir][i].frame = x.mem[kernel_dir][i].frame
    BY <1>3 DEF SameFrames
  <2> QED BY <2>1 DEF Tabs
<1>5. g \in Booted
  BY <1>1, <1>2, ConstantTypes DEF Booted, Frames
<1> QED BY <1>1, <1>2, <1>4, <1>5 DEF Kept

\* The directories of x after src was cloned to g: they map what they did, src by
\* entries that are now shared, and g the same as src.
LEMMA ForkMaps ==
    ASSUME NEW x \in FrameStates, NEW D, Kept(x, D), Apart(x, D), NEW src \in D,
           NEW y, NEW g, NEW n,
           Cloned(x, src, g, KERNEL_ENTRY, y, n), Copied(x, src, g, KERNEL_ENTRY, y, n)
    PROVE  /\ g \notin x.used /\ g \in Booted
           /\ \A d \in D : y.mem[d] = x.mem[d]
           /\ DOMAIN y.mem[g] = DOMAIN x.mem[src]
           /\ \A i \in DOMAIN x.mem[src] : /\ y.mem[g][i].frame \notin x.used \cup {g}
                                           /\ y.mem[g][i].frame \in Booted
           /\ \A i, j \in DOMAIN x.mem[src] : y.mem[g][i].frame = y.mem[g][j].frame => i = j
           /\ y.used = x.used \cup {g} \cup Tabs(y.mem, g)
           /\ \A d \in D, w \in Pages : Maps(y.mem, d, w) <=> Maps(x.mem, d, w)
           /\ \A d \in D, w \in Pages : Maps(x.mem, d, w) =>
                At(y.mem, d, w) = IF d = src THEN Cow(At(x.mem, d, w)) ELSE At(x.mem, d, w)
           /\ \A w \in Pages : Maps(y.mem, g, w) <=> Maps(x.mem, src, w)
           /\ \A w \in Pages : Maps(x.mem, src, w) => At(y.mem, g, w) = Cow(At(x.mem, src, w))
<1>0. PICK U : U = DOMAIN x.mem[src]
  OBVIOUS
<1>1. UserTables(x, src) = U /\ First(U, KERNEL_ENTRY) = U
  <2>1. \A i \in U : i \in 0 .. KERNEL_ENTRY - 1
    BY <1>0 DEF Apart
  <2>2. \A i \in U : i < KERNEL_ENTRY
    BY <2>1, ConstantTypes
  <2> QED BY <1>0, <2>2 DEF UserTables, First
<1>2. /\ g \in Frames \ x.used
      /\ n \in [U -> Frames \ (x.used \cup {g})]
      /\ \A i, j \in U : n[i] = n[j] => i = j
      /\ y.used = x.used \cup {g} \cup {n[i] : i \in U}
  BY <1>1 DEF Cloned
<1>3. /\ \A f \in x.used : (\A i \in U : f # TableIn(x, src, i)) => y.mem[f] = x.mem[f]
      /\ \A i \in U : /\ y.mem[TableIn(x, src, i)] = Shared(x.mem[TableIn(x, src, i)])
                      /\ y.mem[n[i]] = Shared(x.mem[TableIn(x, src, i)])
      /\ DOMAIN y.mem[g] = U
      /\ \A i \in U : y.mem[g][i] = Moved(x.mem[src][i], n[i])
  BY <1>1 DEF Copied
<1>4. /\ kernel_dir \in D /\ D \subseteq x.used /\ 0 .. START_PAGE - 1 \subseteq x.used
      /\ \A d \in D : d \in Frames
  BY FrameFields DEF Kept
<1>5. \A f \in Frames : f \notin x.used => f \in Booted
  BY <1>4, ConstantTypes DEF Booted, Frames
<1>6. \A d \in D : \A i \in DOMAIN x.mem[d] : /\ x.mem[d][i].frame \in x.used
                                              /\ x.mem[d][i].frame \notin D
                                              /\ x.mem[d][i].frame \in Frames
  BY <1>4, FrameFields DEF Apart
<1>7. \A d \in D : y.mem[d] = x.mem[d]
  BY <1>0, <1>3, <1>4, <1>6 DEF TableIn
<1>8. \A i \in U : y.mem[g][i].frame = n[i]
  <2> SUFFICES ASSUME NEW i \in U PROVE y.mem[g][i].frame = n[i]
    OBVIOUS
  <2>1. PICK e, m : e = x.mem[src][i] /\ m = n[i]
    OBVIOUS
  <2>2. e \in Entry /\ m \in Frames
    BY <1>0, <1>2, <1>4, <2>1, FrameFields
  <2>3. Moved(e, m).frame = m
    BY ONLY <2>2, MovedFields
  <2> QED BY <1>3, <2>1, <2>3
<1>9. ASSUME NEW d \in D, NEW i \in DOMAIN x.mem[d]
      PROVE  y.mem[x.mem[d][i].frame] = IF d = src THEN Shared(x.mem[x.mem[d][i].frame])
                                        ELSE x.mem[x.mem[d][i].frame]
  <2>1. CASE d = src
    BY <1>0, <1>3, <2>1 DEF TableIn
  <2>2. CASE d # src
    <3>1. \A j \in U : x.mem[d][i].frame # TableIn(x, src, j)
      BY <1>0, <2>2 DEF Apart, TableIn
    <3> QED BY <1>3, <1>6, <2>2, <3>1
  <2> QED BY <2>1, <2>2
<1>10. \A d \in D : \A i \in DOMAIN x.mem[d] :
          LET T == x.mem[x.mem[d][i].frame]
          IN  T \in Tables /\ DOMAIN Shared(T) = DOMAIN T /\ \A j \in DOMAIN T : Shared(T)[j] = Cow(T[j])
  BY <1>6, FrameFields, SharedFields
<1>11. ASSUME NEW d \in D, NEW w \in Pages
       PROVE  /\ Maps(y.mem, d, w) <=> Maps(x.mem, d, w)
              /\ Maps(x.mem, d, w) =>
                   At(y.mem, d, w) = IF d = src THEN Cow(At(x.mem, d, w)) ELSE At(x.mem, d, w)
  BY <1>7, <1>9, <1>10 DEF Maps, At
<1>12. ASSUME NEW w \in Pages
       PROVE  /\ Maps(y.mem, g, w) <=> Maps(x.mem, src, w)
              /\ Maps(x.mem, src, w) => At(y.mem, g, w) = Cow(At(x.mem, src, w))
  <2>1. Hi(w) \in DOMAIN y.mem[g] <=> Hi(w) \in U
    BY <1>3
  <2>2. ASSUME Hi(w) \in U
        PROVE  y.mem[y.mem[g][Hi(w)].frame] = Shared(x.mem[x.mem[src][Hi(w)].frame])
    BY <1>3, <1>8, <2>2 DEF TableIn
  <2> QED BY <1>0, <1>10, <2>1, <2>2 DEF Maps, At
<1>13. Tabs(y.mem, g) = {n[i] : i \in U}
  BY <1>3, <1>8 DEF Tabs
<1>14. /\ g \notin x.used /\ g \in Booted
       /\ DOMAIN y.mem[g] = DOMAIN x.mem[src]
       /\ y.used = x.used \cup {g} \cup Tabs(y.mem, g)
  BY <1>0, <1>2, <1>3, <1>5, <1>13
<1>15. \A i \in DOMAIN x.mem[src] : /\ y.mem[g][i].frame \notin x.used \cup {g}
                                    /\ y.mem[g][i].frame \in Booted
  BY <1>0, <1>2, <1>5, <1>8
<1>16. \A i, j \in DOMAIN x.mem[src] : y.mem[g][i].frame = y.mem[g][j].frame => i = j
  BY <1>0, <1>2, <1>8
<1> QED BY <1>7, <1>11, <1>12, <1>14, <1>15, <1>16

\* A fork: the clone has its own directory and tables, and every page it has in
\* common with another process is read-only and copy-on-write in all of them.
LEMMA ForkSound ==
    ASSUME NEW x \in FrameStates, NEW D, Kept(x, D), NEW src \in D, NEW h \in 0 .. MaxHeap,
           Sound(x, D, h), NEW y, NEW g, NEW n,
           Cloned(x, src, g, KERNEL_ENTRY, y, n), Copied(x, src, g, KERNEL_ENTRY, y, n)
    PROVE  Sound(y, D \cup {g}, h) /\ Stays(x, y, h)
<1>1. Apart(x, D) /\ KernelMaps(x, h) /\ Backs(x, D, h) /\ Shares(x, D) /\ Below(x, D)
  BY DEF Sound
<1>2. /\ g \notin x.used /\ g \in Booted
      /\ \A d \in D : y.mem[d] = x.mem[d]
      /\ DOMAIN y.mem[g] = DOMAIN x.mem[src]
      /\ \A i \in DOMAIN x.mem[src] : /\ y.mem[g][i].frame \notin x.used \cup {g}
                                      /\ y.mem[g][i].frame \in Booted
      /\ \A i, j \in DOMAIN x.mem[src] : y.mem[g][i].frame = y.mem[g][j].frame => i = j
      /\ y.used = x.used \cup {g} \cup Tabs(y.mem, g)
      /\ \A d \in D, w \in Pages : Maps(y.mem, d, w) <=> Maps(x.mem, d, w)
      /\ \A d \in D, w \in Pages : Maps(x.mem, d, w) =>
           At(y.mem, d, w) = IF d = src THEN Cow(At(x.mem, d, w)) ELSE At(x.mem, d, w)
      /\ \A w \in Pages : Maps(y.mem, g, w) <=> Maps(x.mem, src, w)
      /\ \A w \in Pages : Maps(x.mem, src, w) => At(y.mem, g, w) = Cow(At(x.mem, src, w))
  BY <1>1, ForkMaps
<1>3. kernel_dir \in D /\ D \subseteq x.used /\ src \in Frames /\ \A d \in D : d \in Frames
  BY FrameFields DEF Kept
<1>4. HeapOf(h) \subseteq Pages
  BY HeapAbove
<1>5. g \notin D
  BY <1>2, <1>3
<1>6. \A d \in D : \A i \in DOMAIN x.mem[d] : /\ x.mem[d][i].frame \in x.used
                                              /\ x.mem[d][i].frame \in Booted
                                              /\ x.mem[d][i].frame \notin D
                                              /\ x.mem[d][i].frame # g
  BY <1>1, <1>2 DEF Apart
<1>7. Apart(y, D \cup {g})
  <2>1. ASSUME NEW d \in D \cup {g} PROVE DOMAIN y.mem[d] \subseteq 0 .. KERNEL_ENTRY - 1
    BY <1>1, <1>2 DEF Apart
  <2>2. ASSUME NEW d \in D \cup {g}, NEW i \in DOMAIN y.mem[d]
        PROVE  /\ y.mem[d][i].frame \in y.used /\ y.mem[d][i].frame \in Booted
               /\ y.mem[d][i].frame \notin D \cup {g}
    <3>1. CASE d \in D
      BY <1>2, <1>6, <3>1
    <3>2. CASE d = g
      BY <1>2, <1>3, <3>2 DEF Tabs
    <3> QED BY <3>1, <3>2
  <2>3. ASSUME NEW d \in D \cup {g}, NEW c \in D \cup {g}, NEW i \in DOMAIN y.mem[d],
               NEW j \in DOMAIN y.mem[c], y.mem[d][i].frame = y.mem[c][j].frame
        PROVE  d = c /\ i = j
    <3>1. CASE d \in D /\ c \in D
      <4>1. i \in DOMAIN x.mem[d] /\ j \in DOMAIN x.mem[c] /\ x.mem[d][i].frame = x.mem[c][j].frame
        BY <1>2, <2>3, <3>1
      <4> QED BY <1>1, <3>1, <4>1 DEF Apart
    <3>2. CASE d = g /\ c = g
      BY <1>2, <2>3, <3>2
    <3>3. CASE d \in D /\ c = g
      BY <1>2, <1>6, <2>3, <3>3
    <3>4. CASE d = g /\ c \in D
      BY <1>2, <1>6, <2>3, <3>4
    <3> QED BY <3>1, <3>2, <3>3, <3>4
  <2> QED BY <2>1, <2>2, <2>3 DEF Apart
<1>8. KernelMaps(y, h)
  BY <1>1, <1>2, <1>3 DEF KernelMaps
<1>9. ASSUME NEW d \in D, NEW w \in Pages, Maps(x.mem, d, w)
      PROVE  /\ At(x.mem, d, w) \in Entry /\ At(y.mem, d, w).frame = At(x.mem, d, w).frame
             /\ Cow(At(x.mem, d, w)).cow = TRUE /\ Cow(At(x.mem, d, w)).write = FALSE
             /\ At(x.mem, d, w).cow = TRUE /\ At(x.mem, d, w).write = FALSE
                  => Cow(At(x.mem, d, w)) = At(x.mem, d, w)
  <2>1. At(x.mem, d, w) \in Entry
    <3>1. x.mem[d][Hi(w)].frame \in Frames
      BY <1>3, <1>9, FrameFields DEF Maps
    <3> QED BY <1>9, <3>1, FrameFields DEF Maps, At
  <2> QED BY <1>2, <1>9, <2>1, EntryFields
<1>10. \A w \in HeapOf(h) : Backing(y, w) = Backing(x, w)
  BY <1>1, <1>3, <1>4, <1>9 DEF KernelMaps, Backing
<1>11. \A d \in D : Tabs(y.mem, d) = Tabs(x.mem, d)
  BY <1>2 DEF Tabs
<1>12. \A f \in Tabs(y.mem, g) : f \notin x.used
  BY <1>2 DEF Tabs
<1>13. Backs(y, D \cup {g}, h)
  <2>1. ASSUME NEW w \in HeapOf(h), Backing(y, w) # 0
        PROVE  /\ Backing(y, w) \in y.used /\ Backing(y, w) \in Booted
               /\ Backing(y, w) \notin D \cup {g}
               /\ \A d \in D \cup {g} : Backing(y, w) \notin Tabs(y.mem, d)
    <3>1. /\ Backing(y, w) \in x.used /\ Backing(y, w) \in Booted /\ Backing(y, w) \notin D
          /\ \A d \in D : Backing(y, w) \notin Tabs(x.mem, d)
      BY <1>1, <1>10, <2>1 DEF Backs
    <3> QED BY <1>2, <1>11, <1>12, <3>1
  <2>2. ASSUME NEW w \in HeapOf(h), NEW u \in HeapOf(h),
               Backing(y, w) = Backing(y, u), Backing(y, w) # 0
        PROVE  w = u
    BY <1>1, <1>10, <2>2 DEF Backs
  <2>3. ASSUME NEW f \in y.used, f \in Booted
        PROVE  \/ f \in D \cup {g}
               \/ \E d \in D \cup {g} : f \in Tabs(y.mem, d)
               \/ \E w \in HeapOf(h) : f = Backing(y, w)
    <3>1. CASE f \in x.used
      <4>1. \/ f \in D
            \/ \E d \in D : f \in Tabs(x.mem, d)
            \/ \E w \in HeapOf(h) : f = Backing(x, w)
        BY <1>1, <2>3, <3>1 DEF Backs
      <4> QED BY <1>10, <1>11, <4>1
    <3>2. CASE f \notin x.used
      BY <1>2, <3>2
    <3> QED BY <3>1, <3>2
  <2> QED BY <2>1, <2>2, <2>3 DEF Backs
<1>14. Shares(y, D \cup {g})
  <2> SUFFICES ASSUME NEW d \in D \cup {g}, NEW c \in D \cup {g}, NEW w \in Pages, d # c,
                      Maps(y.mem, d, w), Maps(y.mem, c, w)
               PROVE  /\ At(y.mem, d, w) = At(y.mem, c, w)
                      /\ At(y.mem, d, w).cow = TRUE /\ At(y.mem, d, w).write = FALSE
    BY DEF Shares
  <2> DEFINE b(e) == IF e = g THEN src ELSE e
  <2>1. \A e \in D \cup {g} : Maps(y.mem, e, w) =>
           /\ b(e) \in D /\ Maps(x.mem, b(e), w)
           /\ At(y.mem, e, w) = IF b(e) = src THEN Cow(At(x.mem, b(e), w)) ELSE At(x.mem, b(e), w)
    BY <1>2, <1>5
  <2>2. PICK p, q : p = b(d) /\ q = b(c)
    OBVIOUS
  <2>3. /\ p \in D /\ Maps(x.mem, p, w)
        /\ At(y.mem, d, w) = IF p = src THEN Cow(At(x.mem, p, w)) ELSE At(x.mem, p, w)
        /\ q \in D /\ Maps(x.mem, q, w)
        /\ At(y.mem, c, w) = IF q = src THEN Cow(At(x.mem, q, w)) ELSE At(x.mem, q, w)
    BY <2>1, <2>2
  <2>4. p = q => p = src
    BY <2>2
  <2>5. CASE p = q
    BY <1>9, <2>3, <2>4, <2>5
  <2>6. CASE p # q
    <3>1. /\ At(x.mem, p, w) = At(x.mem, q, w)
          /\ At(x.mem, p, w).cow = TRUE /\ At(x.mem, p, w).write = FALSE
      BY <1>1, <2>3, <2>6 DEF Shares
    <3>2. Cow(At(x.mem, p, w)) = At(x.mem, p, w) /\ Cow(At(x.mem, q, w)) = At(x.mem, q, w)
      BY <1>9, <2>3, <3>1
    <3> QED BY <2>3, <3>1, <3>2
  <2> QED BY <2>5, <2>6
<1>15. Below(y, D \cup {g})
  BY <1>1, <1>2, <1>3 DEF Below
<1>16. Stays(x, y, h)
  <2> SUFFICES ASSUME NEW w \in LowPages \cup HeapOf(h)
               PROVE  Translate(y, kernel_dir, w) = Translate(x, kernel_dir, w)
    BY DEF Stays
  <2>1. w \in Pages
    BY HeapAbove
  <2>2. Maps(x.mem, kernel_dir, w)
    BY <1>1, <2>1 DEF KernelMaps
  <2>3. /\ Maps(y.mem, kernel_dir, w)
        /\ At(y.mem, kernel_dir, w).frame = At(x.mem, kernel_dir, w).frame
    BY <1>2, <1>3, <1>9, <2>1, <2>2
  <2> QED BY <2>2, <2>3, TranslateIs
<1> QED BY <1>7, <1>8, <1>13, <1>14, <1>15, <1>16 DEF Sound

-----------------------------------------------------------------------------
(* The specification.                                                      *)

Typed ==
    /\ frames \in FrameStates
    /\ page_dir \in [Procs -> Frames \cup {None}]
    /\ current \in Procs /\ page_dir[current] # None
    /\ heap \in 0 .. MaxHeap
    /\ stopped \in BOOLEAN

IInv ==
    /\ Typed /\ page_dir[Idle] = kernel_dir /\ Counted(frames)
    /\ ~ stopped => Kept(frames, Dirs) /\ (TablesFound => Sound(frames, Dirs, heap))
    /\ TablesFound => Shares(frames, Dirs)
    /\ ~ stopped /\ frames.used # Frames => TablesFound

\* The directories of the processes are frames, the kernel's among them.
LEMMA DirsAre ==
    ASSUME Typed, page_dir[Idle] = kernel_dir
    PROVE  Dirs \subseteq Frames /\ kernel_dir \in Dirs /\ page_dir[current] \in Dirs
BY MemoryAssumption, ConstantTypes DEF Typed, Dirs

\* heap_expand keeps the invariant, and the pages of the kernel.
LEMMA ExpandStep ==
    ASSUME IInv, heap_expand
    PROVE  IInv' /\ (TablesFound' => Stays(frames, frames', heap))
<1>0. PICK x, D, h, v, y, f :
         /\ x = frames /\ D = Dirs /\ h = heap /\ v = HEAP_PAGE + heap
         /\ f = Alloc(frames).got /\ y = Map(Alloc(frames).frames, kernel_dir, v, f)
  OBVIOUS
<1>1. /\ x \in FrameStates /\ Counted(x) /\ Kept(x, D) /\ h \in 0 .. MaxHeap /\ h < MaxHeap
      /\ ~ stopped /\ page_dir' = page_dir /\ current' = current
      /\ TablesFound => Sound(x, D, h)
      /\ TablesFound => Shares(x, D)
  BY <1>0 DEF IInv, Typed, heap_expand
<1>2. \/ frames' = y /\ heap' = heap + 1 /\ stopped' = FALSE
      \/ frames' = frames /\ heap' = heap /\ stopped' = TRUE
  BY <1>0 DEF heap_expand, Commit
<1>3. D = Dirs'
  BY <1>0, <1>1 DEF Dirs
<1>4. CASE frames' = frames /\ heap' = heap /\ stopped' = TRUE
  <2>1. TablesFound' <=> TablesFound
    BY <1>4 DEF TablesFound, TablesOf
  <2>2. Typed' /\ page_dir'[Idle] = kernel_dir /\ Counted(frames')
    BY <1>1, <1>4 DEF IInv, Typed
  <2>3. TablesFound' => Shares(frames', Dirs')
    BY <1>0, <1>1, <1>3, <1>4, <2>1
  <2>4. IInv'
    BY <1>4, <2>2, <2>3 DEF IInv
  <2>5. Stays(frames, frames', heap)
    BY <1>4 DEF Stays
  <2> QED BY <2>4, <2>5
<1>5. CASE frames' = y /\ heap' = heap + 1 /\ stopped' = FALSE
  <2>1. /\ v \in Pages /\ h + 1 \in 0 .. MaxHeap /\ v = HEAP_PAGE + h
    BY <1>0, <1>1, HeapAbove
  <2>2. PICK t \in Frames : /\ y \in FrameStates /\ Counted(y) /\ Kept(y, D)
                            /\ Grows(x, y, v, f, t)
    <3>1. f = Alloc(x).got /\ y = Map(Alloc(x).frames, kernel_dir, v, Alloc(x).got)
      BY <1>0
    <3> QED BY <1>1, <2>1, <3>1, ExpandIs
  <2>3. f \in Frames
    BY <1>0, <1>1, AllocTakes
  <2>4. ASSUME TablesFound' PROVE Sound(y, D, h + 1) /\ Stays(x, y, h)
    <3>1. 0 \notin Tabs(y.mem, kernel_dir)
      BY <1>5, <2>4 DEF TablesFound, TablesOf, Tabs
    <3>2. /\ DOMAIN y.mem[kernel_dir] = DOMAIN x.mem[kernel_dir] \cup {Hi(v)}
          /\ \A i \in DOMAIN x.mem[kernel_dir] : y.mem[kernel_dir][i] = x.mem[kernel_dir][i]
          /\ y.mem[kernel_dir][Hi(v)].frame = t
      BY <2>2 DEF Grows
    <3>3. t # 0 /\ 0 \notin Tabs(x.mem, kernel_dir)
      BY <3>1, <3>2 DEF Tabs
    <3>4. TablesFound
      BY <1>0, <3>3 DEF TablesFound, TablesOf, Tabs
    <3> QED BY <1>1, <2>1, <2>2, <2>3, <3>3, <3>4, GrowsSound
  <2>5. Typed' /\ page_dir'[Idle] = kernel_dir /\ Counted(frames')
    <3>1. frames' \in FrameStates /\ Counted(frames') /\ heap' \in 0 .. MaxHeap
      BY <1>0, <1>5, <2>1, <2>2
    <3> QED BY <1>1, <1>5, <3>1 DEF IInv, Typed
  <2>6. Kept(frames', Dirs') /\ (TablesFound' => Sound(frames', Dirs', heap'))
    BY <1>0, <1>3, <1>5, <2>2, <2>4
  <2>7. TablesFound' => Shares(frames', Dirs')
    BY <2>6 DEF Sound
  <2>8. ASSUME y.used # Frames PROVE TablesFound'
    <3>1. x.used \subseteq y.used /\ y.used \subseteq Frames /\ 0 \in x.used
      BY <1>1, <2>2, FrameFields, ConstantTypes DEF Grows, Kept
    <3>2. TablesFound
      BY <1>0, <1>1, <2>8, <3>1 DEF IInv
    <3>3. 0 \notin Tabs(x.mem, kernel_dir)
      BY <1>0, <3>2 DEF TablesFound, TablesOf, Tabs
    <3>4. /\ DOMAIN y.mem[kernel_dir] = DOMAIN x.mem[kernel_dir] \cup {Hi(v)}
          /\ \A i \in DOMAIN x.mem[kernel_dir] : y.mem[kernel_dir][i] = x.mem[kernel_dir][i]
          /\ y.mem[kernel_dir][Hi(v)].frame = t
          /\ Hi(v) \in DOMAIN x.mem[kernel_dir] \/ t \notin x.used
      BY <2>2, <2>8 DEF Grows
    <3>5. 0 \notin Tabs(y.mem, kernel_dir)
      BY <3>1, <3>3, <3>4 DEF Tabs
    <3> QED BY <1>5, <3>5 DEF TablesFound, TablesOf, Tabs
  <2>9. IInv'
    BY <1>5, <2>5, <2>6, <2>7, <2>8 DEF IInv
  <2> QED BY <1>0, <1>5, <2>4, <2>9
<1> QED BY <1>2, <1>4, <1>5

\* So does proc_fork.
LEMMA ForkStep ==
    ASSUME IInv, NEW child \in Procs, proc_fork(child)
    PROVE  IInv' /\ (TablesFound' => Stays(frames, frames', heap))
<1>0. PICK x, D, h, src, y, g :
         /\ x = frames /\ D = Dirs /\ h = heap /\ src = page_dir[current]
         /\ y = Clone(frames, src).frames /\ g = Clone(frames, src).got
  OBVIOUS
<1>1. /\ x \in FrameStates /\ Counted(x) /\ Kept(x, D) /\ h \in 0 .. MaxHeap
      /\ ~ stopped /\ current' = current /\ heap' = heap
      /\ TablesFound => Sound(x, D, h)
      /\ TablesFound => Shares(x, D)
      /\ page_dir[child] = None
      /\ Cardinality(Frames \ x.used) > Cardinality(UserTables(x, src))
      /\ src \in D /\ src \in x.used
  <2>1. page_dir[current] \in Dirs
    BY DirsAre DEF IInv
  <2>2. Kept(x, D) /\ src \in D
    BY <1>0, <2>1 DEF IInv, proc_fork
  <2> QED BY <1>0, <2>2 DEF IInv, Typed, proc_fork, Kept
<1>2. \/ frames' = y /\ stopped' = FALSE /\ page_dir' = [page_dir EXCEPT ![child] = g]
      \/ frames' = frames /\ stopped' = TRUE /\ page_dir' = page_dir
  BY <1>0 DEF proc_fork, Commit
<1>3. CASE frames' = frames /\ stopped' = TRUE /\ page_dir' = page_dir
  <2>1. TablesFound' <=> TablesFound
    BY <1>3 DEF TablesFound, TablesOf
  <2>2. Typed' /\ page_dir'[Idle] = kernel_dir /\ Counted(frames')
    BY <1>1, <1>3 DEF IInv, Typed
  <2>3. D = Dirs'
    BY <1>0, <1>3 DEF Dirs
  <2>4. TablesFound' => Shares(frames', Dirs')
    BY <1>0, <1>1, <1>3, <2>1, <2>3
  <2>5. IInv'
    BY <1>3, <2>2, <2>4 DEF IInv
  <2>6. Stays(frames, frames', heap)
    BY <1>3 DEF Stays
  <2> QED BY <2>5, <2>6
<1>4. CASE frames' = y /\ stopped' = FALSE /\ page_dir' = [page_dir EXCEPT ![child] = g]
  <2>1. PICK n : /\ Cloned(x, src, g, KERNEL_ENTRY, y, n)
                 /\ Alone(x, src) => Copied(x, src, g, KERNEL_ENTRY, y, n)
    <3>1. y = Clone(x, src).frames /\ g = Clone(x, src).got
      BY <1>0
    <3> QED BY <1>1, <3>1, CloneIs
  <2>2. /\ y \in FrameStates /\ Counted(y) /\ Kept(y, D \cup {g})
        /\ Tabs(y.mem, kernel_dir) = Tabs(x.mem, kernel_dir)
    BY <1>1, <2>1, ForkKept
  <2>3. g \in Frames
    BY <2>1 DEF Cloned
  <2>4. TablesFound' <=> TablesFound
    <3>1. TablesFound <=> 0 \notin Tabs(x.mem, kernel_dir)
      BY <1>0 DEF TablesFound, TablesOf, Tabs
    <3>2. TablesFound' <=> 0 \notin Tabs(y.mem, kernel_dir)
      BY <1>4 DEF TablesFound, TablesOf, Tabs
    <3> QED BY <2>2, <3>1, <3>2
  <2>5. ASSUME TablesFound PROVE Sound(y, D \cup {g}, h) /\ Stays(x, y, h)
    <3>1. Sound(x, D, h) /\ Apart(x, D)
      BY <1>1, <2>5 DEF Sound
    <3>2. Alone(x, src)
      <4>1. UserTables(x, src) \subseteq DOMAIN x.mem[src]
        BY DEF UserTables
      <4>2. \A i \in UserTables(x, src) : TableIn(x, src, i) \in x.used \ {src}
        BY <1>1, <3>1, <4>1 DEF Apart, TableIn
      <4>3. \A i, j \in UserTables(x, src) : TableIn(x, src, i) = TableIn(x, src, j) => i = j
        BY <1>1, <3>1, <4>1 DEF Apart, TableIn
      <4>4. TopEntries(x) = {}
        <5>1. DOMAIN x.mem[kernel_dir] \subseteq 0 .. KERNEL_ENTRY - 1
          BY <1>1, <3>1 DEF Apart, Kept
        <5> QED BY <5>1, ConstantTypes DEF TopEntries
      <4> QED BY <4>2, <4>3, <4>4 DEF Alone
    <3> QED BY <1>1, <2>1, <3>1, <3>2, ForkSound
  <2>6. Dirs' = D \cup {g}
    <3>1. g # None
      BY <2>3, ConstantTypes
    <3>2. page_dir \in [Procs -> Frames \cup {None}]
      BY DEF IInv, Typed
    <3> QED BY <1>0, <1>1, <1>4, <3>1, <3>2 DEF Dirs
  <2>7. Typed' /\ page_dir'[Idle] = kernel_dir /\ Counted(frames')
    <3>1. /\ page_dir \in [Procs -> Frames \cup {None}] /\ current \in Procs
          /\ page_dir[current] # None /\ page_dir[Idle] = kernel_dir
      BY DEF IInv, Typed
    <3>2. child # Idle /\ child # current /\ Idle \in Procs
      BY <1>1, <3>1, ConstantTypes, MemoryAssumption
    <3>3. /\ page_dir' \in [Procs -> Frames \cup {None}]
          /\ page_dir'[current] = page_dir[current] /\ page_dir'[Idle] = kernel_dir
      BY <1>4, <2>3, <3>1, <3>2
    <3> QED BY <1>0, <1>1, <1>4, <2>2, <3>1, <3>3 DEF Typed
  <2>8. Kept(frames', Dirs') /\ (TablesFound' => Sound(frames', Dirs', heap'))
    BY <1>0, <1>1, <1>4, <2>2, <2>4, <2>5, <2>6
  <2>9. TablesFound' => Shares(frames', Dirs')
    BY <2>8 DEF Sound
  <2>10. ASSUME y.used # Frames PROVE TablesFound'
    <3>1. x.used \subseteq y.used /\ y.used \subseteq Frames
      BY <2>1, <2>2, FrameFields DEF Cloned
    <3> QED BY <1>0, <1>1, <2>4, <2>10, <3>1 DEF IInv
  <2>11. IInv'
    BY <1>4, <2>7, <2>8, <2>9, <2>10 DEF IInv
  <2> QED BY <1>0, <1>4, <2>4, <2>5, <2>11
<1> QED BY <1>2, <1>3, <1>4

\* A switch of directories changes no frame.
LEMMA DispatchStep ==
    ASSUME IInv, NEW p \in Procs, Dispatch(p)
    PROVE  IInv' /\ Stays(frames, frames', heap)
<1>1. /\ frames' = frames /\ page_dir' = page_dir /\ heap' = heap /\ stopped' = stopped
      /\ current' = p /\ page_dir[p] # None
  BY DEF Dispatch
<1>2. Dirs' = Dirs /\ (TablesFound' <=> TablesFound)
  BY <1>1 DEF Dirs, TablesFound, TablesOf
<1>3. IInv'
  BY <1>1, <1>2 DEF IInv, Typed
<1>4. Stays(frames, frames', heap)
  BY <1>1 DEF Stays
<1> QED BY <1>3, <1>4

\* The exit of a forked process frees frames, of which it writes none.
LEMMA ExitStep ==
    ASSUME IInv, proc_exit
    PROVE  IInv' /\ Stays(frames, frames', heap)
<1>0. PICK x, F : x = frames /\ frames' = FreeAll(x, F)
  BY DEF proc_exit, Destroy
<1>1. /\ page_dir \in [Procs -> Frames \cup {None}] /\ current \in Procs
      /\ page_dir[Idle] = kernel_dir /\ page_dir[current] # kernel_dir
      /\ page_dir' = [page_dir EXCEPT ![current] = kernel_dir]
      /\ current' = current /\ heap' = heap /\ stopped' = TRUE
      /\ x \in FrameStates /\ Counted(x) /\ heap \in 0 .. MaxHeap
  BY <1>0 DEF IInv, Typed, proc_exit
<1>2. frames' \in FrameStates /\ Counted(frames') /\ frames'.mem = x.mem
  BY <1>0, <1>1, FreeCounts
<1>3. /\ page_dir' \in [Procs -> Frames \cup {None}] /\ page_dir'[Idle] = kernel_dir
      /\ page_dir'[current] # None
  BY <1>1, ConstantTypes, MemoryAssumption
<1>4. Typed' /\ Counted(frames')
  BY <1>1, <1>2, <1>3 DEF Typed
<1>5. Dirs' \subseteq Dirs
  BY <1>1, ConstantTypes, MemoryAssumption DEF Dirs
<1>6. TablesFound' <=> TablesFound
  BY <1>0, <1>2 DEF TablesFound, TablesOf
<1>7. ASSUME TablesFound PROVE Shares(frames', Dirs')
  <2>1. Shares(x, Dirs)
    BY <1>0, <1>7 DEF IInv
  <2>2. PICK y, E : y = frames' /\ E = Dirs'
    OBVIOUS
  <2>3. y.mem = x.mem /\ E \subseteq Dirs
    BY <1>2, <1>5, <2>2
  <2>4. Shares(y, E)
    BY <2>1, <2>3 DEF Shares
  <2> QED BY <2>2, <2>4
<1>8. IInv'
  BY <1>1, <1>3, <1>4, <1>6, <1>7 DEF IInv
<1>9. Stays(frames, frames', heap)
  <2>1. PICK y : y = frames'
    OBVIOUS
  <2>2. y.mem = x.mem
    BY <1>2, <2>1
  <2>3. Stays(x, y, heap)
    BY <2>2 DEF Stays, Translate
  <2> QED BY <1>0, <2>1, <2>3
<1> QED BY <1>8, <1>9

\* Every step.
LEMMA NextKeeps ==
    ASSUME IInv, [Next]_vars
    PROVE  IInv' /\ (TablesFound' => Stays(frames, frames', heap))
<1>1. CASE heap_expand
  BY <1>1, ExpandStep
<1>2. ASSUME NEW p \in Procs, proc_fork(p)
      PROVE  IInv' /\ (TablesFound' => Stays(frames, frames', heap))
  BY <1>2, ForkStep
<1>3. ASSUME NEW p \in Procs, Dispatch(p)
      PROVE  IInv' /\ (TablesFound' => Stays(frames, frames', heap))
  BY <1>3, DispatchStep
<1>4. CASE proc_exit
  BY <1>4, ExitStep
<1>5. CASE UNCHANGED vars
  <2>1. /\ frames' = frames /\ page_dir' = page_dir /\ heap' = heap /\ stopped' = stopped
        /\ current' = current
    BY <1>5 DEF vars
  <2>2. Dirs' = Dirs /\ (TablesFound' <=> TablesFound)
    BY <2>1 DEF Dirs, TablesFound, TablesOf
  <2>3. IInv'
    BY <2>1, <2>2 DEF IInv, Typed
  <2>4. Stays(frames, frames', heap)
    BY <2>1 DEF Stays
  <2> QED BY <2>3, <2>4
<1> QED BY <1>1, <1>2, <1>3, <1>4, <1>5 DEF Next

\* At boot the directory of the kernel maps the low pages by one table.
LEMMA Boots == ASSUME Init PROVE IInv
<1>0. PICK x, T : /\ x = frames /\ T = [i \in 0 .. ENTRIES - 1 |-> Writable(i)]
  OBVIOUS
<1>1. /\ kernel_dir \in Frames /\ START_PAGE + 1 \in Frames /\ kernel_dir # START_PAGE + 1
      /\ START_PAGE \in Nat /\ TOTAL_PAGES \in Nat /\ ENTRIES \in Nat /\ KERNEL_ENTRY \in Nat
      /\ ENTRIES <= TOTAL_PAGES /\ START_PAGE + 1 < TOTAL_PAGES /\ START_PAGE >= 1
      /\ KERNEL_ENTRY >= 1 /\ ENTRIES >= 1
  BY ConstantTypes DEF kernel_dir
<1>2. PICK W : W = [i \in {0} |-> Writable(START_PAGE + 1)]
  OBVIOUS
<1>3. /\ T \in Tables /\ DOMAIN T = 0 .. ENTRIES - 1
      /\ W \in Tables /\ DOMAIN W = {0} /\ W[0].frame = START_PAGE + 1
  <2>1. \A i \in 0 .. ENTRIES - 1 : i \in Frames
    BY <1>1 DEF Frames
  <2>2. \A i \in 0 .. ENTRIES - 1 : Writable(i) \in Entry
    BY <2>1, EntryFields
  <2>3. DOMAIN T = 0 .. ENTRIES - 1 /\ IsTable(T)
    BY <1>0, <2>2 DEF IsTable
  <2>4. Writable(START_PAGE + 1) \in Entry /\ Writable(START_PAGE + 1).frame = START_PAGE + 1
    BY <1>1, EntryFields
  <2>5. DOMAIN W = {0} /\ W[0].frame = START_PAGE + 1 /\ IsTable(W)
    BY <1>1, <1>2, <2>4 DEF IsTable
  <2> QED BY <2>3, <2>5, TablesAre
<1>4. PICK m : m = [f \in Frames |-> CASE f = START_PAGE     -> W
                                       [] f = START_PAGE + 1 -> T
                                       [] OTHER              -> Empty]
  OBVIOUS
<1>5. /\ m \in [Frames -> Tables] /\ m[kernel_dir] = W /\ m[START_PAGE + 1] = T
  BY <1>1, <1>3, <1>4, EmptyTable DEF kernel_dir
<1>6. /\ x.used = 0 .. START_PAGE + 1 /\ x.used_pages = START_PAGE + 2 /\ x.mem = m
      /\ x = [used |-> 0 .. START_PAGE + 1, used_pages |-> START_PAGE + 2, mem |-> m]
      /\ page_dir = [p \in Procs |-> IF p = Idle THEN kernel_dir ELSE None]
      /\ current = Idle /\ heap = 0 /\ stopped = FALSE
  BY <1>0, <1>2, <1>4 DEF Init, kernel_dir
<1>7. x \in FrameStates
  <2>1. 0 .. START_PAGE + 1 \subseteq Frames /\ START_PAGE + 2 \in Int
    BY <1>1 DEF Frames
  <2> QED BY <1>5, <1>6, <2>1 DEF FrameStates
<1>8. Counted(x)
  <2>1. 0 \in Int /\ START_PAGE + 1 \in Int /\ 0 <= START_PAGE + 1
    BY <1>1
  <2>2. Cardinality(0 .. START_PAGE + 1) = (START_PAGE + 1) - 0 + 1
    BY ONLY <2>1, FS_Interval
  <2> QED BY <1>1, <1>6, <2>2 DEF Counted
<1>9. Dirs = {kernel_dir}
  BY <1>1, <1>6, ConstantTypes, MemoryAssumption DEF Dirs
<1>10. Typed /\ page_dir[Idle] = kernel_dir
  <2>1. Idle \in Procs
    BY MemoryAssumption
  <2>2. page_dir \in [Procs -> Frames \cup {None}] /\ page_dir[Idle] = kernel_dir
    BY <1>1, <1>6, <2>1
  <2>3. heap \in 0 .. MaxHeap /\ stopped \in BOOLEAN
    <3>1. 0 \in 0 .. MaxHeap
      BY ConstantTypes
    <3>2. heap = 0 /\ stopped = FALSE
      BY <1>6
    <3> QED BY ONLY <3>1, <3>2
  <2>4. kernel_dir # None
    BY <1>1, ConstantTypes
  <2> QED BY <1>0, <1>6, <1>7, <2>1, <2>2, <2>3, <2>4 DEF Typed
<1>11. Tabs(x.mem, kernel_dir) = {START_PAGE + 1}
  BY <1>3, <1>5, <1>6 DEF Tabs
<1>12. Kept(x, Dirs)
  <2>1. kernel_dir \in x.used /\ kernel_dir \in Booted
    BY <1>1, <1>6 DEF Booted, kernel_dir
  <2>2. 0 .. START_PAGE - 1 \subseteq x.used
    BY <1>1, <1>6
  <2> QED BY <1>1, <1>9, <1>11, <2>1, <2>2 DEF Kept
<1>13. HeapOf(0) = {}
  BY ConstantTypes DEF HeapOf
<1>14. Apart(x, Dirs)
  <2>1. START_PAGE + 1 \in x.used /\ START_PAGE + 1 \in Booted
    BY <1>1, <1>6 DEF Booted
  <2>2. 0 \in 0 .. KERNEL_ENTRY - 1
    BY <1>1
  <2> QED BY <1>1, <1>3, <1>5, <1>6, <1>9, <2>1, <2>2 DEF Apart
<1>15. KernelMaps(x, 0)
  <2> SUFFICES ASSUME NEW v \in Pages
               PROVE  Maps(x.mem, kernel_dir, v) <=> v \in LowPages
    BY <1>13 DEF KernelMaps
  <2>1. v \in Nat /\ Lo(v) \in 0 .. ENTRIES - 1 /\ (Hi(v) = 0 <=> v < ENTRIES)
    BY PageSplits
  <2>2. Maps(x.mem, kernel_dir, v) <=> Hi(v) = 0
    BY <1>3, <1>5, <1>6, <2>1 DEF Maps
  <2>3. v \in LowPages <=> v < ENTRIES
    BY <1>1, <2>1 DEF LowPages
  <2> QED BY <2>1, <2>2, <2>3
<1>16. Backs(x, Dirs, 0)
  <2> SUFFICES ASSUME NEW f \in x.used, f \in Booted
               PROVE  f \in Dirs \/ \E d \in Dirs : f \in Tabs(x.mem, d)
    BY <1>13 DEF Backs
  <2>1. f = START_PAGE \/ f = START_PAGE + 1
    BY <1>1, <1>6 DEF Booted
  <2> QED BY <1>9, <1>11, <2>1 DEF kernel_dir
<1>17. Shares(x, Dirs) /\ Below(x, Dirs)
  BY <1>9 DEF Shares, Below
<1>18. Sound(x, Dirs, 0)
  BY <1>14, <1>15, <1>16, <1>17 DEF Sound
<1>19. TablesFound
  <2>1. TablesOf(kernel_dir) = Tabs(x.mem, kernel_dir)
    BY <1>0 DEF TablesOf, Tabs
  <2>2. 0 # START_PAGE + 1
    BY <1>1
  <2> QED BY <1>11, <2>1, <2>2 DEF TablesFound
<1> QED BY <1>0, <1>6, <1>8, <1>10, <1>12, <1>17, <1>18, <1>19 DEF IInv

-----------------------------------------------------------------------------
(* What the invariant says.                                                *)

\* The counter.
LEMMA CountFollows == IInv => FrameCount
<1> SUFFICES ASSUME IInv PROVE FrameCount
  OBVIOUS
<1>1. frames \in FrameStates /\ Counted(frames)
  BY DEF IInv, Typed
<1>2. PICK x : x = frames
  OBVIOUS
<1>3. /\ x.used \subseteq Frames /\ DOMAIN x.mem = Frames
      /\ \A f \in Frames : DOMAIN x.mem[f] \subseteq 0 .. ENTRIES - 1
      /\ \A f \in Frames : \A i \in DOMAIN x.mem[f] : x.mem[f][i] \in Entry
  BY <1>1, <1>2, FrameFields
<1>4. x.used_pages = Cardinality(x.used) /\ x.used_pages \in 0 .. TOTAL_PAGES
  <2>1. x.used_pages = Cardinality(x.used)
    BY <1>1, <1>2 DEF Counted
  <2>2. Cardinality(x.used) \in Nat /\ Cardinality(x.used) <= TOTAL_PAGES
    BY <1>3, FramesFinite
  <2> QED BY <2>1, <2>2, ConstantTypes
<1>5. TypeOK
  BY <1>2, <1>3, <1>4 DEF IInv, Typed, TypeOK
<1> QED BY <1>2, <1>4, <1>5 DEF FrameCount

\* The sharing of pages.
LEMMA SharingFollows == IInv => SharedIsCow
<1> SUFFICES ASSUME IInv, TablesFound, NEW d \in Dirs, NEW c \in Dirs,
                    NEW v \in LowPages \cup HeapPages, d # c,
                    Translate(frames, d, v) # None, Translate(frames, c, v) # None
             PROVE  LET e(x) == frames.mem[frames.mem[x][v \div ENTRIES].frame][v % ENTRIES]
                    IN  e(d) = e(c) /\ e(d).cow /\ ~ e(d).write
  BY DEF SharedIsCow
<1>1. v \in Pages
  BY HeapAbove DEF IInv, Typed, HeapPages, HeapOf
<1>2. Maps(frames.mem, d, v) /\ Maps(frames.mem, c, v)
  BY TranslateIs
<1>3. /\ At(frames.mem, d, v) = At(frames.mem, c, v)
      /\ At(frames.mem, d, v).cow = TRUE /\ At(frames.mem, d, v).write = FALSE
  BY <1>1, <1>2 DEF IInv, Shares
<1> QED BY <1>3 DEF At, Hi, Lo

\* Two sets between which there is a one-to-one function onto the second.
LEMMA SameSize ==
    ASSUME NEW S, NEW T, IsFiniteSet(T), NEW f \in [S -> T],
           \A a, b \in S : f[a] = f[b] => a = b, \A t \in T : \E a \in S : f[a] = t
    PROVE  Cardinality(S) = Cardinality(T)
<1>1. f \in Injection(S, T)
  BY DEF Injection, IsInjective
<1>2. f \in Surjection(S, T)
  BY DEF Surjection
<1> QED BY <1>1, <1>2, FS_Injection

\* Three sets with nothing in common.
LEMMA ThreeParts ==
    ASSUME NEW A, NEW B, NEW C, IsFiniteSet(A), IsFiniteSet(B), IsFiniteSet(C),
           A \cap B = {}, A \cap C = {}, B \cap C = {}
    PROVE  Cardinality(A \cup B \cup C) = Cardinality(A) + Cardinality(B) + Cardinality(C)
<1>1. PICK U : U = A \cup B
  OBVIOUS
<1>2. Cardinality({}) = 0
  BY FS_EmptySet
<1>3. /\ Cardinality(A) \in Nat /\ Cardinality(B) \in Nat /\ Cardinality(C) \in Nat
  BY FS_CardinalityType
<1>4. IsFiniteSet(U) /\ Cardinality(U) = Cardinality(A) + Cardinality(B)
  <2>1. Cardinality(A \cup B) = Cardinality(A) + Cardinality(B) - Cardinality(A \cap B)
    BY FS_Union
  <2>2. IsFiniteSet(A \cup B)
    BY FS_Union
  <2>3. Cardinality(A \cap B) = 0
    BY <1>2
  <2> QED BY <1>1, <1>3, <2>1, <2>2, <2>3
<1>5. Cardinality(U \cup C) = Cardinality(U) + Cardinality(C)
  <2>1. Cardinality(U \cup C) = Cardinality(U) + Cardinality(C) - Cardinality(U \cap C)
    BY <1>4, FS_Union
  <2>2. U \cap C = {}
    BY <1>1
  <2>3. Cardinality(U \cap C) = 0
    BY <1>2, <2>2
  <2> QED BY <1>3, <1>4, <2>1, <2>3
<1> QED BY <1>1, <1>3, <1>4, <1>5

\* Sound frames have one owner each: the tables are as many as the directory
\* entries, the frames of the heap as many as the pages that are backed.
LEMMA OwnersFollow == IInv => OneOwner
<1> SUFFICES ASSUME IInv, TablesFound, ~ stopped PROVE OneOwner
  BY DEF OneOwner, IInv
<1>0. PICK x, D, h : x = frames /\ D = Dirs /\ h = heap
  OBVIOUS
<1>1. /\ x \in FrameStates /\ Kept(x, D) /\ h \in 0 .. MaxHeap
      /\ Apart(x, D) /\ KernelMaps(x, h) /\ Backs(x, D, h)
  BY <1>0 DEF IInv, Typed, Sound
<1> PICK tables : tables = {u \in D \X (0 .. ENTRIES - 1) : u[2] \in DOMAIN x.mem[u[1]]}
  OBVIOUS
<1>2. PICK B, H, C, backed :
         /\ B = UNION {Tabs(x.mem, d) : d \in D}
         /\ H = HeapOf(h) /\ C = {Backing(x, v) : v \in HeapOf(h)} \ {0}
         /\ backed = {v \in HeapOf(h) : Backing(x, v) # 0}
  OBVIOUS
<1>3. H = HeapPages /\ \A v \in H : Translate(x, kernel_dir, v) = Backing(x, v)
  <2>1. H = HeapPages
    BY <1>0, <1>2 DEF HeapPages, HeapOf
  <2>2. \A v \in H : Maps(x.mem, kernel_dir, v)
    BY <1>1, <1>2, HeapAbove DEF KernelMaps
  <2> QED BY <2>1, <2>2, TranslateIs DEF Backing
<1>4. /\ D \subseteq x.used /\ D \subseteq Booted /\ x.used \subseteq Frames
      /\ 0 .. START_PAGE - 1 \subseteq x.used
  BY <1>1, FrameFields DEF Kept
<1>5. \A d \in D : \A i \in DOMAIN x.mem[d] :
         /\ x.mem[d][i].frame \in x.used /\ x.mem[d][i].frame \in Booted /\ x.mem[d][i].frame \notin D
         /\ i \in 0 .. ENTRIES - 1
  BY <1>1, <1>4, FrameFields DEF Apart
<1>6. B \subseteq x.used /\ B \subseteq Booted /\ D \cap B = {}
  BY <1>2, <1>5 DEF Tabs
<1>7. C \subseteq x.used /\ C \subseteq Booted /\ D \cap C = {} /\ B \cap C = {}
  BY <1>1, <1>2 DEF Backs
<1>8. D \cup B \cup C = x.used \ (0 .. START_PAGE - 1)
  <2>1. \A f \in Booted : f \notin 0 .. START_PAGE - 1 /\ f # 0
    BY ConstantTypes DEF Booted
  <2>2. \A f \in x.used : f \notin 0 .. START_PAGE - 1 => f \in Booted
    BY <1>4, ConstantTypes DEF Booted, Frames
  <2>3. ASSUME NEW f \in x.used, f \in Booted PROVE f \in D \cup B \cup C
    BY <1>1, <1>2, <2>1, <2>3 DEF Backs
  <2> QED BY <1>4, <1>6, <1>7, <2>1, <2>2, <2>3
<1>9. IsFiniteSet(D) /\ IsFiniteSet(B) /\ IsFiniteSet(C)
  BY <1>4, <1>6, <1>7, FramesFinite
<1>10. Cardinality(D \cup B \cup C) = Cardinality(D) + Cardinality(B) + Cardinality(C)
  BY <1>6, <1>7, <1>9, ThreeParts
<1>11. Cardinality(tables) = Cardinality(B)
  <2>1. PICK f : f = [u \in tables |-> x.mem[u[1]][u[2]].frame]
    OBVIOUS
  <2>2. \A u \in tables : u = <<u[1], u[2]>> /\ u[1] \in D /\ u[2] \in DOMAIN x.mem[u[1]]
    BY <1>2
  <2>3. \A d \in D : \A i \in DOMAIN x.mem[d] : <<d, i>> \in tables
    BY <1>2, <1>5
  <2>4. f \in [tables -> B]
    BY <1>2, <2>1, <2>2 DEF Tabs
  <2>5. ASSUME NEW a \in tables, NEW b \in tables, f[a] = f[b] PROVE a = b
    <3>1. a[1] = b[1] /\ a[2] = b[2]
      BY <1>1, <2>1, <2>2, <2>5 DEF Apart
    <3> QED BY <2>2, <3>1
  <2>6. ASSUME NEW t \in B PROVE \E a \in tables : f[a] = t
    <3>1. PICK d \in D : \E i \in DOMAIN x.mem[d] : t = x.mem[d][i].frame
      BY <1>2, <2>6 DEF Tabs
    <3>2. PICK i \in DOMAIN x.mem[d] : t = x.mem[d][i].frame
      BY <3>1
    <3>3. <<d, i>> \in tables
      BY <2>3
    <3>4. f[<<d, i>>] = t
      BY <2>1, <3>2, <3>3
    <3> QED BY <3>3, <3>4
  <2> QED BY <1>9, <2>4, <2>5, <2>6, SameSize
<1>12. Cardinality(backed) = Cardinality(C)
  <2>1. PICK f : f = [v \in backed |-> Backing(x, v)]
    OBVIOUS
  <2>2. f \in [backed -> C]
    BY <1>2, <2>1
  <2>3. \A a, b \in backed : f[a] = f[b] => a = b
    BY <1>1, <1>2, <2>1 DEF Backs
  <2>4. \A t \in C : \E a \in backed : f[a] = t
    BY <1>2, <2>1
  <2> QED BY <1>9, <2>2, <2>3, <2>4, SameSize
<1>13. UNION {TablesOf(d) : d \in Dirs} = B
  BY <1>0, <1>2 DEF TablesOf, Tabs
<1>14. HeapFrames \ {0} = C
  <2>1. HeapFrames = {Backing(x, v) : v \in H}
    BY <1>0, <1>3 DEF HeapFrames
  <2> QED BY <1>2, <2>1
<1>15. backed = {v \in HeapPages : Translate(frames, kernel_dir, v) # 0}
  BY <1>0, <1>2, <1>3
<1>16. tables = {u \in Dirs \X (0 .. ENTRIES - 1) : u[2] \in DOMAIN frames.mem[u[1]]}
  BY <1>0
<1>17. /\ Dirs \cup B \cup C = frames.used \ (0 .. START_PAGE - 1)
       /\ Cardinality(Dirs \cup B \cup C)
            = Cardinality(Dirs) + Cardinality(tables) + Cardinality(backed)
  BY <1>0, <1>8, <1>10, <1>11, <1>12
<1>18. TablesFound
  OBVIOUS
<1> QED BY ONLY <1>13, <1>14, <1>15, <1>16, <1>17, <1>18 DEF OneOwner

-----------------------------------------------------------------------------
(* The theorems.                                                           *)

\* The inductive invariant.
THEOREM Inductive == Spec => []IInv
<1>1. Init => IInv
  BY Boots
<1>2. IInv /\ [Next]_vars => IInv'
  BY NextKeeps
<1> QED BY <1>1, <1>2, PTL DEF Spec

\* The counter of pmm.c is the number of bits set, whatever is allocated, mapped,
\* cloned and destroyed, out of memory too.
THEOREM FramesCounted == Spec => []FrameCount
<1>1. Spec => []IInv
  BY Inductive
<1>2. IInv => FrameCount
  BY CountFollows
<1> QED BY <1>1, <1>2, PTL

\* As long as a frame is free, every table of the kernel has been given one: the
\* condition in the properties below ends only where memory has run out.
THEOREM TablesAreFound == Spec => [](~ stopped /\ frames.used # Frames => TablesFound)
<1>1. Spec => []IInv
  BY Inductive
<1>2. IInv => (~ stopped /\ frames.used # Frames => TablesFound)
  BY DEF IInv
<1> QED BY <1>1, <1>2, PTL

\* Every frame handed out has one owner and none is lost (pmm.c, vmm.c:20-110).
THEOREM OneOwnerEach == Spec => []OneOwner
<1>1. Spec => []IInv
  BY Inductive
<1>2. IInv => OneOwner
  BY OwnersFollow
<1> QED BY <1>1, <1>2, PTL

\* What two processes both map is read-only and copy-on-write in both (vmm.c:101-104).
THEOREM SharingIsCow == Spec => []SharedIsCow
<1>1. Spec => []IInv
  BY Inductive
<1>2. IInv => SharedIsCow
  BY SharingFollows
<1> QED BY <1>1, <1>2, PTL

\* No step moves a page of the kernel to another frame (vmm.c:20-29, 101-103),
\* but one that puts a table of the kernel into frame 0.
THEOREM KernelPagesKept == Spec => KernelPagesStay
<1>1. Spec => []IInv
  BY Inductive
<1>2. IInv /\ [Next]_vars =>
        [TablesFound' => \A v \in LowPages \cup HeapPages :
           Translate(frames, kernel_dir, v)' = Translate(frames, kernel_dir, v)]_vars
  <2> SUFFICES ASSUME IInv, TablesFound', [Next]_vars, NEW v \in LowPages \cup HeapPages
               PROVE  Translate(frames, kernel_dir, v)' = Translate(frames, kernel_dir, v)
    OBVIOUS
  <2>1. Stays(frames, frames', heap)
    BY NextKeeps
  <2>2. Translate(frames', kernel_dir, v) = Translate(frames, kernel_dir, v)
    BY <2>1 DEF Stays, HeapPages, HeapOf
  <2> QED BY <2>2 DEF Translate, kernel_dir
<1> QED BY <1>1, <1>2, PTL DEF Spec, KernelPagesStay
=============================================================================
