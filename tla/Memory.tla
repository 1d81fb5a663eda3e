------------------------------ MODULE Memory ------------------------------
(***************************************************************************)
(* Physical frames (mm/pmm.c) and address spaces (mm/vmm.c), driven the    *)
(* way the rest of the kernel drives them: the heap maps its pages into    *)
(* the kernel directory, proc_fork clones a directory, the scheduler       *)
(* switches to one and proc_exit destroys one.                             *)
(*                                                                         *)
(* A page directory and a page table are both a frame full of entries; the *)
(* kernel reaches them at their physical address, through whatever the     *)
(* directory in cr3 maps there.  An access to a page that is not mapped    *)
(* ends in a kernel panic; where the machine has frames behind HEAP_PAGE,  *)
(* the address of one may be a page of the heap, and the access goes to    *)
(* the frame that backs that page.                                         *)
(*                                                                         *)
(* Abstracted: the data in the frames.  A write through such a page        *)
(* destroys data of the heap, and a forked process that exits frees frames *)
(* of the kernel itself (MemKernelFrames).  What runs after either depends *)
(* on data, so the model stops there, as it does after a panic.            *)
(* vmm_unmap and vmm_get_physical have no caller.                          *)
(***************************************************************************)
EXTENDS Integers, FiniteSets, FiniteSetsExt

CONSTANTS
    ENTRIES,        \* entries of a directory or a table: 1024
    KERNEL_ENTRY,   \* the first entry of the top gigabyte: 768
    TOTAL_PAGES,    \* frames of the machine
    BITMAP_PAGES,   \* bits of the bitmap: 65536, for MAX_MEM_MB
    START_PAGE,     \* the first frame behind the kernel image
    HEAP_PAGE,      \* the page at HEAP_START
    Procs,          \* the slots of the process table
    Idle,           \* the slot of the idle process
    MaxHeap         \* BOUND: pages of heap

ASSUME MemoryAssumption ==
    /\ ENTRIES \in Nat \ {0} /\ KERNEL_ENTRY \in 1 .. ENTRIES
    /\ TOTAL_PAGES \in Nat /\ START_PAGE \in Nat \ {0}
    /\ START_PAGE + 2 <= ENTRIES /\ ENTRIES <= TOTAL_PAGES
    /\ HEAP_PAGE \in Nat /\ ENTRIES <= HEAP_PAGE
    /\ MaxHeap \in Nat /\ HEAP_PAGE + MaxHeap <= KERNEL_ENTRY * ENTRIES
    /\ IsFiniteSet(Procs) /\ Idle \in Procs

\* BOUND: on a machine with more frames pmm_init clears bits behind the bitmap,
\* which are other variables of the kernel (pmm.c:35-37).
ASSUME BitmapAssumption == TOTAL_PAGES <= BITMAP_PAGES

Frames == 0 .. TOTAL_PAGES - 1
None   == -1          \* no frame, no directory
Empty  == [i \in {} |-> None]

\* An entry with PAGE_PRESENT; the entries without are not in the table.
Entry == [frame : Frames, write : BOOLEAN, cow : BOOLEAN]

VARIABLES
    frames,       \* [used: the bits set, used_pages: the counter,
                  \*  mem: frame -> its entries, where it holds a directory or table]
    page_dir,     \* process -> the frame of its directory, None if the slot is free
    current,      \* current_proc, whose directory is in cr3
    heap,         \* heap_brk - HEAP_START, in pages
    stopped       \* a panic, a write into the heap, or the exit of a forked process

vars == <<frames, page_dir, current, heap, stopped>>

kernel_dir == START_PAGE

TypeOK ==
    /\ frames.used \subseteq Frames
    /\ frames.used_pages \in 0 .. TOTAL_PAGES
    /\ DOMAIN frames.mem = Frames
    /\ \A f \in Frames : DOMAIN frames.mem[f] \subseteq 0 .. ENTRIES - 1
    /\ \A f \in Frames : \A i \in DOMAIN frames.mem[f] : frames.mem[f][i] \in Entry
    /\ page_dir \in [Procs -> Frames \cup {None}]
    /\ current \in Procs /\ page_dir[current] # None
    /\ heap \in 0 .. MaxHeap
    /\ stopped \in BOOLEAN

-----------------------------------------------------------------------------
(* pmm.c.  The operators take the frames s and return [frames, got].       *)

Alloc_Unmarked(s) ==
    LET Free == Frames \ s.used
    IN  IF Free = {} THEN [frames |-> s, got |-> 0]
        ELSE [frames |-> [s EXCEPT !.used_pages = @ + 1], got |-> Min(Free)]
Alloc_CountsFailures(s) ==
    LET Free == Frames \ s.used
    IN  IF Free = {} THEN [frames |-> [s EXCEPT !.used_pages = @ + 1], got |-> 0]
        ELSE [frames |-> [s EXCEPT !.used = @ \cup {Min(Free)}, !.used_pages = @ + 1],
              got    |-> Min(Free)]
Alloc(s) ==
    LET Free == Frames \ s.used
    IN  IF Free = {} THEN [frames |-> s, got |-> 0]
        ELSE [frames |-> [s EXCEPT !.used = @ \cup {Min(Free)}, !.used_pages = @ + 1],
              got    |-> Min(Free)]

\* pmm_free of every frame of F, of some more than once.
FreeAll_Uncounted(s, F) == [s EXCEPT !.used = @ \ F, !.used_pages = @ - Cardinality(F)]
FreeAll(s, F) == [s EXCEPT !.used = @ \ F, !.used_pages = @ - Cardinality(F \cap s.used)]

-----------------------------------------------------------------------------
(* vmm.c                                                                   *)

\* The frame that directory d maps page v to, or None.
Translate(s, d, v) ==
    LET i == v \div ENTRIES
        t == s.mem[d][i].frame
    IN  IF i \in DOMAIN s.mem[d] /\ v % ENTRIES \in DOMAIN s.mem[t]
        THEN s.mem[t][v % ENTRIES].frame ELSE None

\* The kernel can read and write the table or directory in frame f.
Reached(s, f) == Translate(s, page_dir[current], f) = f

SetEntry(t, i, e) == [j \in DOMAIN t \cup {i} |-> IF j = i THEN e ELSE t[j]]

\* A frame filled with zeroes.
NewTable(s) ==
    LET a == Alloc(s)
    IN  [frames |-> [a.frames EXCEPT !.mem[a.got] = Empty], got |-> a.got]

\* Entry i of the directory or table in frame f becomes e.
Put(s, f, i, e) == [s EXCEPT !.mem[f] = SetEntry(@, i, e)]

\* frame | PAGE_PRESENT | PAGE_WRITE
Writable(f) == [frame |-> f, write |-> TRUE, cow |-> FALSE]

\* vmm_map of page v to frame f, with PAGE_PRESENT | PAGE_WRITE.
Map_FreshTable(s, d, v, f) ==
    LET i == v \div ENTRIES
        a == NewTable(s)
        r == Put(a.frames, d, i, Writable(a.got))
    IN  Put(r, r.mem[d][i].frame, v % ENTRIES, Writable(f))
Map(s, d, v, f) ==
    LET i == v \div ENTRIES
        a == NewTable(s)
        r == IF i \in DOMAIN s.mem[d] THEN s ELSE Put(a.frames, d, i, Writable(a.got))
    IN  Put(r, r.mem[d][i].frame, v % ENTRIES, Writable(f))

Shared(t) == [i \in DOMAIN t |-> [t[i] EXCEPT !.write = FALSE, !.cow = TRUE]]

\* One round of the outer loop of vmm_clone: table i of src, copied for dst.
CloneTable_ParentWrites(s, src, dst, i) ==
    LET a == NewTable(s)
        e == s.mem[src][i]
        t == Shared(s.mem[e.frame])
    IN  Put([a.frames EXCEPT !.mem[a.got] = t], dst, i, [e EXCEPT !.frame = a.got])
CloneTable(s, src, dst, i) ==
    LET a == NewTable(s)
        e == s.mem[src][i]
        t == Shared(s.mem[e.frame])
    IN  Put([a.frames EXCEPT !.mem[e.frame] = t, !.mem[a.got] = t],
            dst, i, [e EXCEPT !.frame = a.got])

\* vmm_create_directory: the entries of the top gigabyte are the kernel's.
CreateDirectory(s) ==
    LET a == NewTable(s)
        k == s.mem[kernel_dir]
    IN  [a EXCEPT !.frames.mem[a.got] =
            [i \in {j \in DOMAIN k : j >= KERNEL_ENTRY} |-> k[i]]]

UserTables(s, d) == {i \in DOMAIN s.mem[d] : i < KERNEL_ENTRY}

\* vmm_clone: the frames after the loop over the tables, and the new directory.
Clone(s, src) ==
    LET c == CreateDirectory(s)
        after[i \in 0 .. KERNEL_ENTRY] ==
            IF i = 0 THEN c.frames
            ELSE IF i - 1 \in UserTables(s, src)
                 THEN CloneTable(after[i-1], src, c.got, i - 1)
                 ELSE after[i-1]
    IN  [frames |-> after[KERNEL_ENTRY], got |-> c.got]

\* vmm_destroy_directory.
Destroy(s, d) ==
    LET tables == {s.mem[d][i].frame : i \in UserTables(s, d)}
        mapped == UNION {{s.mem[t][j].frame : j \in DOMAIN s.mem[t]} : t \in tables}
    IN  FreeAll(s, mapped \cup tables \cup {d})

-----------------------------------------------------------------------------
(* The callers.                                                            *)

\* pmm_init, then vmm_init: the first ENTRIES pages are mapped to themselves.
Init ==
    LET dir   == START_PAGE
        table == START_PAGE + 1
    IN  /\ frames = [used       |-> 0 .. table,
                     used_pages |-> START_PAGE + 2,
                     mem |-> [f \in Frames |->
                                CASE f = dir   -> [i \in {0} |-> Writable(table)]
                                  [] f = table -> [i \in 0 .. ENTRIES - 1 |-> Writable(i)]
                                  [] OTHER     -> Empty]]
        /\ page_dir = [p \in Procs |-> IF p = Idle THEN dir ELSE None]
        /\ current = Idle
        /\ heap = 0
        /\ stopped = FALSE

\* A change of the frames to s, which writes to the tables T.  Where the address
\* of one is not mapped to it, this is a page fault and the panic of
\* handle_page_fault, or the write hits the heap.
Commit(s, T) ==
    IF \A t \in T : Reached(s, t)
    THEN frames' = s /\ stopped' = FALSE
    ELSE stopped' = TRUE /\ UNCHANGED frames

\* One page of heap_expand, and the header kmalloc or heap_init writes into it.
heap_expand ==
    LET v == HEAP_PAGE + heap
        a == Alloc(frames)
        s == Map(a.frames, kernel_dir, v, a.got)
    IN  /\ ~stopped /\ heap < MaxHeap
        /\ IF Translate(s, page_dir[current], v) = a.got
           THEN /\ Commit(s, {kernel_dir, s.mem[kernel_dir][v \div ENTRIES].frame})
                /\ heap' = IF stopped' THEN heap ELSE heap + 1
           ELSE stopped' = TRUE /\ UNCHANGED <<frames, heap>>
        /\ UNCHANGED <<page_dir, current>>

\* proc_fork.  BOUND: the frames the clone needs are there; where they are not
\* the code goes on with a directory and tables in frame 0.
proc_fork(child) ==
    LET src == page_dir[current]
        c   == Clone(frames, src)
    IN  /\ ~stopped /\ heap > 0 /\ page_dir[child] = None
        /\ Cardinality(Frames \ frames.used) > Cardinality(UserTables(frames, src))
        /\ Commit(c.frames, {src, c.got}
                 \cup {c.frames.mem[d][i].frame : i \in UserTables(frames, src), d \in {src, c.got}})
        /\ page_dir' = IF stopped' THEN page_dir ELSE [page_dir EXCEPT ![child] = c.got]
        /\ UNCHANGED <<current, heap>>

\* The scheduler dispatches p and loads its directory (vmm_switch).
Dispatch(p) ==
    /\ ~stopped /\ p # current /\ page_dir[p] # None
    /\ current' = p
    /\ UNCHANGED <<frames, page_dir, heap, stopped>>

\* proc_exit of a forked process; its slot keeps the kernel's directory.
proc_exit ==
    /\ ~stopped /\ page_dir[current] # kernel_dir
    /\ frames' = Destroy(frames, page_dir[current])
    /\ page_dir' = [page_dir EXCEPT ![current] = kernel_dir]
    /\ stopped' = TRUE
    /\ UNCHANGED <<current, heap>>

Next ==
    \/ heap_expand
    \/ \E p \in Procs : proc_fork(p) \/ Dispatch(p)
    \/ proc_exit

Spec == Init /\ [][Next]_vars

-----------------------------------------------------------------------------
(* Properties.                                                             *)

Dirs       == {page_dir[p] : p \in Procs} \ {None}
TablesOf(d) == {frames.mem[d][i].frame : i \in DOMAIN frames.mem[d]}
HeapPages  == HEAP_PAGE .. HEAP_PAGE + heap - 1
LowPages   == 0 .. ENTRIES - 1
HeapFrames == {Translate(frames, kernel_dir, v) : v \in HeapPages}

\* No pmm_alloc for a table of the kernel has failed: none is in frame 0.
TablesFound == 0 \notin TablesOf(kernel_dir)

\* used_pages counts the bits that are set, also when vmm_destroy_directory
\* frees a frame that is free already (pmm.c:45-46, 55-58); the state has its type.
FrameCount == TypeOK /\ frames.used_pages = Cardinality(frames.used)

\* Every frame handed out since boot has one owner - it is one directory, one
\* table, or the memory of one heap page - and every frame in use has one, so
\* none is lost.  Frame 0 stands for a failed pmm_alloc and backs any number of
\* heap pages (pmm.c:50, heap.c:27-28); once it holds a table the claim ends,
\* and it can do so only when no frame is free.
OneOwner ==
    LET tables == {u \in Dirs \X (0 .. ENTRIES - 1) : u[2] \in DOMAIN frames.mem[u[1]]}
        backed == {v \in HeapPages : Translate(frames, kernel_dir, v) # 0}
        owned  == Dirs \cup (UNION {TablesOf(d) : d \in Dirs}) \cup (HeapFrames \ {0})
    IN  /\ ~stopped /\ frames.used # Frames => TablesFound
        /\ ~stopped /\ TablesFound =>
             /\ owned = frames.used \ (0 .. START_PAGE - 1)
             /\ Cardinality(owned) = Cardinality(Dirs) + Cardinality(tables) + Cardinality(backed)

\* A page two directories map is the same frame in both, read-only and marked
\* copy-on-write in both (vmm.c:101-104), whatever the heap maps in between and
\* whichever process forks, as long as frame 0 holds no table.
SharedIsCow ==
    TablesFound => \A d, c \in Dirs, v \in LowPages \cup HeapPages :
        d # c /\ Translate(frames, d, v) # None /\ Translate(frames, c, v) # None =>
            LET e(x) == frames.mem[frames.mem[x][v \div ENTRIES].frame][v % ENTRIES]
            IN  e(d) = e(c) /\ e(d).cow /\ ~e(d).write

\* A page of the kernel, once mapped, keeps its frame: neither the growth of the
\* heap nor a fork moves it (vmm.c:20-29, 101-103), unless it puts a table into
\* frame 0.
KernelPagesStay ==
    [][TablesFound' => \A v \in LowPages \cup HeapPages :
         Translate(frames, kernel_dir, v)' = Translate(frames, kernel_dir, v)]_vars

\* vmm.c:94 "user space only": what a process gives back leaves the kernel's
\* memory alone; the frames of its directory, tables and heap stay in use.
KernelFramesKept ==
    {kernel_dir} \cup TablesOf(kernel_dir) \cup (HeapFrames \ {0}) \subseteq frames.used
=============================================================================
