# MAI-UNIX: a TLA+ development

MAI-UNIX ("MyOS") is a small UNIX-like kernel for one x86 CPU: a multiboot
image with paging, a heap, an in-memory file system, a round-robin scheduler,
a keyboard and VGA console, and a shell that runs inside the kernel.  This
directory models it in TLA+, checks the models with TLC and proves theorems
about the scheduler, the keyboard, the heap, the memory, the files, the shell, the
screen, the text algorithms and the boot with TLAPS.

Line numbers below refer to the source tree `src/`.


## 1. The system

| component | state | operations | modelled by |
|---|---|---|---|
| processes and scheduler (`proc/proc.c`, `proc/switch.S`) | `proc_table`, `current_proc`, `ticks`, the two `next_pid` | `scheduler_tick`, `proc_yield`, `proc_sleep`, `proc_exit`, `proc_wait`, `proc_kill`, `proc_fork`, `proc_create_kernel` | `Proc`, abstractly `ProcLife` |
| interrupts (`kernel/idt.c`, `kernel/isr_stubs.S`, `drivers/irq.c`) | EFLAGS.IF, the PIC's in-service bit | entry, `irq_handler`, EOI, iret | part of `Proc`, `Tty` and `Boot` |
| keyboard input (`drivers/tty.c:98-218`) | ring buffer, modifier keys | `keyboard_handler`, `tty_getchar`, `tty_readline`, `tty_vfs_read` | `Tty`, abstractly `BoundedQueue` |
| kernel heap (`mm/heap.c`) | list of blocks, `heap_brk` | `kmalloc`, `kfree`, `krealloc`, `heap_expand` | `Heap`, abstractly `Allocator` |
| frames and address spaces (`mm/pmm.c`, `mm/vmm.c`) | bitmap, directories and tables | `pmm_alloc/free`, `vmm_map`, `vmm_clone`, `vmm_destroy_directory`, `vmm_switch` | `Memory` |
| files (`fs/ramfs.c`, `fs/vfs.c`, `syscall/syscall.c`, `libc/libc.c`) | nodes, open files, descriptors, working directories | `open`, `close`, `read`, `write`, `lseek`, `dup2`, `mkdir`, `unlink`, `chdir` | `Files` |
| screen and serial line (`drivers/tty.c:1-96`, `220-228`) | VGA memory, cursor | `tty_putchar`, `vga_scroll`, `tty_vfs_write` | `Screen`, abstractly `Terminal` |
| boot (`kernel/main.c`, `kernel/idt.c`, `boot/boot.S`, `kernel/gdt.c`) | gates, PIC, keyboard controller; the first files | `kernel_main`, `idt_init`, `ps2_init`, `build_initfs`, `init_process` | `Boot`, up to the first dispatch of init; `Proc` from `proc_init` on; the initial state of `Shell` |
| shell (`userland/sh.c`) | the command in progress | `cat`, `cd`, `ls`, `mkdir`, `rm`, `write`, `exit` | `Shell`, on top of `Files` |
| text (`libc/libc.c`, `userland/sh.c`) | none | `atoi`, `itoa_buf`, `vsnprintf`, `parse_args` | `Text` |

How they interact:

- The timer interrupt calls `scheduler_tick`, which switches context *inside*
  the interrupt handler.  A process entered that way runs with interrupts
  disabled and with the timer interrupt unacknowledged until the interrupted
  process is switched back to and its handler returns.  Everything in section 3
  about preemption follows from this.
- `scheduler_tick` loads the directory of the process it dispatches;
  `proc_fork` clones it, `proc_exit` destroys it.  The heap maps its pages into
  the kernel's directory only.
- `file_t`s and nodes live on the heap.  Descriptors are copied by `proc_fork`.
- The keyboard interrupt fills a ring the shell empties; the shell waits for it
  with `hlt`, and since it runs inside the timer interrupt, that `hlt` never ends.
- What the shell prints with `printf` or `write(1)` ends in `serial_putchar`,
  which waits on a variable nothing assigns.
- Nothing executes `int 0x80`: libc calls the kernel's functions directly.
  The system calls are modelled as the entry points they are written to be.

What is hard here: the interleaving of interrupts with the code they interrupt;
a context switch in the middle of an interrupt; sleep and wake-up with ticks
that wrap; the reuse of slots, pids, blocks, frames and nodes while something
still refers to the former owner; sharing (directories after a fork, files
after a dup2); every table, ring and bitmap at its limit.  `PROJECT.json` lists
the hazards at their lines.

What makes each part correct:

- *processes*: exactly one runs; a READY one is reached within a bounded number
  of dispatches; no wake-up is lost; a process is created once, exits once and
  is reaped once, by its parent; a pid names one process; a forked or created
  process starts where it should.
- *keyboard*: a bounded first-in first-out queue under every interleaving;
  readers stay within their buffers.
- *heap*: areas in use are disjoint and unmoved; free memory does not stay in
  pieces; nothing is lost.
- *memory*: a frame has one owner; shared pages are read-only on both sides;
  the kernel's pages do not move and are not given away.
- *files*: counts are exact, nothing open is freed, directories are a tree, and
  an absolute path means the same to the call that creates and the call that
  looks up; and which calls break the first three.
- *shell*: a command gives back every descriptor and open file it took, handles
  the whole of what it was given, and its loops end.
- *screen*: the last lines of what was printed, in order and undamaged.
- *text*: numbers read back as they were, nothing is written past a buffer, the
  arguments of a command are the words of its line.
- *boot*: it reaches init whatever is typed meanwhile, unless the timer hits the
  one place where it may not; no interrupt arrives before its handler; no key
  waits in the controller without an interrupt that announces it.


## 2. Modules

| module | models | composed with |
|---|---|---|
| `Proc` | scheduler, process table, interrupt discipline | implements `ProcLife` |
| `ProcLife` | what a process table promises of the life of a pid | |
| `ProcProofs`, `TtyProofs`, `HeapProofs`, `MemoryProofs`, `BootProofs` | theorems about the module of that name | |
| `FilesProofs` | theorems about `Files` and `Shell` | |
| `ConsoleProofs` | theorems about `Screen` and `Text` | |
| `Recursion` | induction and recursion over intervals, for these proofs | |
| `Tty` | keyboard interrupt and readers | implements `BoundedQueue` |
| `BoundedQueue` | a first-in first-out queue of bounded length | |
| `Heap` | the list of blocks | implements `Allocator` |
| `Allocator` | an allocator of disjoint areas | |
| `Memory` | frames, directories, tables and the callers that change them | |
| `Files` | ramfs, vfs, descriptors | |
| `Shell` | the commands of the shell, the file system after boot | extends `Files` |
| `Screen` | VGA text output | implements `Terminal` |
| `Terminal` | the last lines of what was printed | |
| `Text` | numbers, formats, command lines | |
| `Boot` | `kernel_main`, the timer and the keyboard controller up to the first dispatch of init | |
| `MCProc`, `MCTty`, `MCHeap`, `MCMemory`, `MCFiles`, `MCShell`, `MCConsole`, `MCBoot` | the instances TLC checks | |

Operators named `X_Something` standing directly before an operator `X` are
variants of `X` with one plausible mistake.  Nothing uses them; they show which
mistake each property detects (`mutants` in `PROJECT.json`).  The type invariant
of a module is a conjunct of one of the properties its run checks (`LineSafe`,
`Accounted`, `FrameCount`, `Tree`, `InsideUnlessTab`, `ConfigKept`).


## 3. Proc

**State.** `state`, `pid`, `ppid`, `sleep_until`, `page_dir` are the fields of
`proc_table`, indexed by slot.  `esp` is what the saved stack pointer of a slot
resumes: the frame `proc_create_kernel` built, the interrupted idle loop, a
`proc_yield` about to return, the loop of `proc_wait`, or the end of
`proc_exit`.  `torn` marks a copy `proc_fork` took of a stack in use.  `intr` is
EFLAGS.IF, `in_service` the PIC's bit for IRQ0, `cr3` the loaded directory, `at`
where the CPU is, `kmain` how far `kernel_main` has come.

**Actions.** `TimerIRQ` is IRQ0 with the `scheduler_tick` in it and the context
switch in that; `IrqReturn` the rest of the handler; `CreateReady` and
`CreateContext` the two halves of `proc_create_kernel` between which an
interrupt matters; `Yield`, `proc_sleep`, `proc_exit`, `proc_wait`, `WaitAgain`,
`proc_kill`, `proc_fork` the calls of a process.  A call is one step because it
runs with interrupts disabled; that this is so is itself an invariant
(`InterruptsOnlyInIdle`).  `proc_exit` too is one step: nothing can observe
that, between its `vmm_destroy_directory` and its `vmm_switch`, cr3 is a
directory that is already destroyed (what it frees is the subject of `Memory`).

**Checked.**  `ProcScheduler` (four slots, two forks, so that slots are reused):
one process runs and the idle process is always there to switch to (`OneRunning`); pids are unique; no process blocks in `proc_wait` with a zombie
it would reap (`NoLostWakeup`); interrupts are enabled only in the idle process;
the loaded directory is that of the current process; nothing returns from
`proc_exit`; each dispatch brings every READY process closer to its turn
(`RoundRobin`); a switch resumes what its target last saved, but for the two
cases named below (`SwitchResumes`); `Proc` implements `ProcLife`; and unless a process other than idle keeps the CPU for ever, or the machine has
crashed, a READY process is dispatched (`ReadyRuns`) and a sleeper wakes, also
across the wrap of `ticks` (`SleeperWakes`).

**Where the code disagrees with what it says.**

- `ProcForkReturn`: `proc_fork` copies the stack from the stack pointer of the
  last switch, and the child need not return from the fork (`proc.c:159`).
- Without a run of its own, because it follows from `InterruptsOnlyInIdle`, which
  is proved: `main.c:214` says that the scheduler runs by interrupt, but no
  process other than idle can be interrupted, so none is ever preempted, and a
  READY process may wait for ever behind one that does not give up the CPU, as
  the shell in the `hlt` of `tty.c:175` (the first case of `Stuck`; `TtyHalt`
  shows it for the shell).
- Without a run: a timer interrupt in the middle of `proc_create_kernel`
  dispatches init while its stack pointer is still 0 (the other exception of
  `SwitchResumes`); `proc_yield` advances `ticks`, so a tick is not the 10 ms of
  `proc.c:131`.

**Bounds.**  Slots: three or four instead of 64; four is enough for a parent,
two children and the idle process, the smallest set in which the order of the
scan, a wait for one child while the other exits and the reuse of a slot (by the
second fork, where the first child was reaped) all occur.  `MaxForks` bounds the pids.  `TickMod` 3 replaces
2^32 so that the wrap happens; `SleepTicks` 1 and 2 are a sleep that the tick in
its own `proc_sleep` ends and one that lasts until a later tick, on either side
of the wrap.  `EarlyTicks` bounds the interrupts before `proc_init`; they only
count: every slot is still zero, and the index the scan computes from a NULL
`current_proc` dispatches nothing (`proc.c:94-105`).

**Fairness.**  `Fairness` is weak fairness of the interrupt, of its return, of
`kernel_main` and of the loop of `proc_wait`: the PIT keeps ticking and the CPU
keeps executing.  Nothing is assumed of processes.  A process need not give up
the CPU, and no interrupt takes it away, so the two liveness properties except
the behaviours in which one keeps it for ever, and the crash (`Stuck`); what
they say is that nothing else holds up a READY process or a sleeper: no order of
yields, sleeps, exits, waits and kills passes over the same process again and
again.  No safety property depends on fairness.


## 4. Tty

The ring, the modifier keys, and the reader, cut where an interrupt may come:
after the test of the buffer (`nap`), in `hlt`, and between reading the
character and advancing `kb_tail`.  `keyboard_handler` is one step (it runs
inside IRQ1); `OtherIRQ` is any other interrupt, which ends a `hlt` too.

Interrupts are delivered before `Start`, the first dispatch of init, in which the
shell runs; after it only if `Interruptible` is TRUE.  In this kernel it is
FALSE: the shell is dispatched from inside the timer interrupt, and `Proc` proves
that interrupts are enabled in no process but idle (`InterruptsOnlyInIdle`).

`TtyInput` takes it as TRUE, the concurrency `tty.c` is written for and the
larger set of behaviours (without it the ring is filled first and emptied
afterwards): the buffer is a queue that drops the newest key when full
(`ImplementsQueue`), the character being read is never overwritten (`CharStable`),
lines stay within their buffers (`LineSafe`).  The run claims no liveness.
`TtyHalt` takes it as FALSE: the `hlt` of a reader that found the buffer empty
("wait for an interrupt", `tty.c:175`) never ends (`HaltEnds` is violated), with
a timer that keeps interrupting wherever it can.  So the shell reads what was
typed before init was dispatched, and then hangs.

A ring of three slots holds two characters: empty, partly full and full are all
different, and the indices wrap.  `MaxLine` 2 makes the line overflow.


## 5. Heap

`hdr` maps addresses to block headers, in words; a header stays where it was
when its block is merged into a neighbour, because the code never clears its
magic number.  `kmalloc` is one action with its search, its expansion, the merge
of the new pages and the split; `kfree` and `krealloc` likewise.

`HeapSafety`: headers of five words, sizes in steps of two (the proportions of
the code: 20 and 8 bytes), pages of 14 words, up to four pages.  One request
splits the block it takes and another takes the rest whole; the large one does
not fit the first page, so that the heap expands behind a free and behind a used
last block; `krealloc` stays in place and moves.  The blocks tile the heap, no
two neighbours are free, the blocks in use are those callers hold, and the heap
implements `Allocator`.

`HeapDoubleFree`: a caller that frees a pointer twice corrupts the list, though
the comment at `heap.c:114` says the test of the magic number prevents it.

Not modelled: sizes that wrap in the rounding, `HEAP_MAX` (never tested by the
code), `kmalloc_aligned` (no caller), a failing `pmm_alloc`.


## 6. Memory

`frames` holds the bitmap, `used_pages`, and for every frame the entries of the
directory or table in it.  The kernel reaches a table through the directory in
cr3; `Reached` and `Commit` take a step that touches an unmapped page to the
panic of `handle_page_fault`.  Operations: one page of `heap_expand`, `proc_fork`
with `vmm_clone`, `Dispatch` with `vmm_switch`, `proc_exit` with
`vmm_destroy_directory`.

`MemSafety`: tables of 12 entries (the identity map covers the first 12 frames),
22 frames, the heap from page 18 on, two forks, a heap of up to 20 pages over
several tables.  So there are frames behind the start of the heap, as on any
machine of more than 16 MB (the Makefile's has 64): their addresses are pages of
the heap.  There is room for one fork below the identity map; the tables of the
next come to lie above it (a panic) or at such an address, where what is meant
for a table goes to the frame behind a page of the heap.  The heap uses up every
frame, and goes on with frame 0, until that has to hold a table.  A process
forks, grows the heap and forks again.  The counter matches the bitmap; and until
frame 0 holds a table of the kernel (not `TablesFound`) every frame has one
owner, shared pages are read-only and marked on both sides, and kernel pages do
not move.

`MemKernelFrames`: the kernel lives below entry 768, which `vmm_clone` and
`vmm_destroy_directory` take for user space, so the exit of a forked process
frees the kernel's directory, tables and heap.  What runs afterwards depends on
data, and the model stops there.  Without a run: a heap page added after a fork is
missing in the forked process's directory, because only entries 768 and up are
copied (`vmm.c:83-86`).

Bounds: a fork waits until its frames are there; otherwise the code goes on with
a directory in frame 0.  A machine has no more frames than the bitmap has bits
(`BitmapAssumption`): on one of more than 256 MB `pmm_init` clears bits behind the
bitmap, in other variables of the kernel (`pmm.c:35-37`).  The model stops where
what follows depends on data: at a panic, after a write into the heap, after the
exit of a forked process.


## 7. Files

`nodes` are the ramfs nodes with their vnodes, `files` the open files, `fds` the
descriptors, `cwd` the working directories.  A path is a sequence of names; names
are opaque, except that `Chop` gives a name without its first character, which
is what `file_open` does to a relative name.  Where `sys_open` and `sys_chdir`
read bytes nobody wrote - the separator overwrites the terminator of the copied
path - the result is either the intended path or one with the name `Junk` in it.

Four kinds of calls break what the file layer promises, and the code tests for
none of them.  They are actions like all others; the history variable `misuse`
records which kinds were made, and the properties say what each of them ends:

- `dup2(fd, fd)` of the last descriptor of a file frees the file it then counts
  again and puts back (`syscall.c:218`; "dup2");
- `proc_fork` copies descriptors without counting them (`proc.c:151`; "fork");
- `proc_exit` closes nothing (`proc.c:190-191`; "exit");
- `ramfs_unlink` frees a node that is open ("unlink") or has nodes in it
  ("rmdir"; `ramfs.c:142`).

A call through a descriptor whose file or node is freed is the action `OnFreed`:
what it does depends on what that memory holds by then, so the behaviour ends
there (`Defined`).  Freed nodes and files are not reused while something refers
to them (`NewId`, `NewFile`): what would be read instead is the subject of
`OnFreed`.  `MaxMisuse` bounds how many kinds a behaviour has.

Descriptors 0 to 2, which init opens on the terminal, are not modelled: their
node is not in the tree.  So the processes of the model begin with none open;
those of the kernel have three, and a fork and an exit of theirs are always
misuse.

`FilesShared` (two processes, two descriptors each, one name, `MaxOpen` 3,
`MaxMisuse` 1; 59,432 states): both reference counts are exact (`RefsExact`) through
every open, close, dup2 and open that finds no descriptor - that of an open file
until fork, exit or dup2 was misused, that of a node until an open one was
removed; no descriptor refers to a freed file until fork or dup2 was misused,
and no open file to a freed node until unlink was (`NothingDangles`: exit and
rmdir lose memory, but leave nothing dangling); and the two sizes of a file agree
after all of them (`SizesAgree`).  That the directories stay a tree is checked
together with the shell (section 8), and so is that what an absolute path creates is
found there (`CreatedAsAsked`, in every state of `FilesTree`).  Without a run:
`open` of a new file by a relative name creates one whose name lacks its first
character, and one by `d/f` creates `f` in the root where the name of `d` is one
character long (`vfs.c:82-90`); `chdir` looks a relative path up from the root but
appends it to the working directory, which then need not exist (`syscall.c:145`).

Two processes and two descriptors are the least in which an open file is shared
by two descriptors of one process while another process has the same node open
and the table of descriptors is full; with three open files there is one for the
open that finds no descriptor left.


## 8. Shell

`Shell` extends `Files` with the commands of `sh.c`, cut at their calls on files:
`cat` is an open, a read and a write of what it got to the terminal per turn of its
loop, and a close; `write` an open with O_CREAT and O_TRUNC, a write and a close;
`ls` opens the directory without a descriptor and reads entry after entry.  `job`
holds the command's local variables and, for the properties, what was open when
it began.  `cd`, `mkdir`, `rm` and `exit` are single steps; `Message` is any command
that changes nothing, the failing ones included.  `rm` removes whatever is named,
open and not empty too, as `cmd_rm` does.  The shell is not preempted, so the
direct calls of `Files` come only at the prompt.

Every step that prints through `printf` or `write(1)`, the prompt included, may be
the last: `serial_putchar` waits on a variable that nothing assigns
(`tty.c:90-94`), so it returns at once or never.  `Printing` leaves the shell with
its next job or `Stuck`.  With the Makefile's flags it is the second, at the first
character, so there nothing after the shell's first output happens; the model
has every point at which it can.

The initial state is that after `build_initfs` and `init_process`, with
the directories and files as the constant `InitFs`.  It includes what
`init_process` leaves behind: `/dev/tty0` is a directory ("placeholder",
`main.c:110`), `init_process` opens it twice and never closes it, so it has two
open files that no descriptor refers to.

`FilesTree` (one more name than the boot has, five nodes of which three are `/`, `/dev`
and `/dev/tty0`, paths of length two, directories of three entries, files of up to
two bytes read one at a time, one descriptor, four open files, two kinds of misuse;
150,919 states): every node is in at most one place, whatever is removed, and the
directories are a tree until a directory is removed with nodes in it (`Tree`); a
command ends with the open files and descriptors it began with, also at a full
table, on a directory and on an empty file (`NothingLeaked`); `cat` shows every byte,
`ls` every entry, and a file that `write` wrote has the length of its text
(`OutputIsWhole`); the loops of a command end, in the prompt or in a write to the
terminal that does not return (`CommandsEnd`, under weak fairness of the command's
own steps: the CPU executes).  A directory at the second level can get an
entry and lose it, and in the root the last entry takes the place of a removed
one; of the open files the kernel has two, a descriptor one, and one is for the
command that finds the descriptor taken; two bytes make `cat` loop; two kinds of misuse let the loss of nodes,
say, come together with an open file on a removed one.

Without a run: `cat` without an operand does not end, because a read of the
terminal never returns 0 (`sh.c:53`, `tty.c:212-216`); `mkdir` of a name that exists
makes a second node behind the first (`ramfs.c:127-134`).


## 9. Screen and Text

`Screen` is VGA memory as a function from cell numbers, with `Beyond` cells after
the screen, and the cursor.  `tty_putchar` prints one of the characters with a
meaning or a glyph; `tty_vfs_write` does the same and then calls `serial_putchar`,
which loops on an uninitialised variable (its `inb` is commented out,
`tty.c:93`): it returns at once or never, and the model takes both, here as in
`Shell`.  With the Makefile's flags it never does.

`Terminal` is the specification: at most `Height` lines, the cursor on the last; a
full line moves up as one.  `ImplementsTerminal` shows that `Screen` implements it
up to the first tab that reaches the end of a line, the one case in which the
code leaves the cursor behind the last column (`tty.c:70-72`); a tab never wraps, so
repeated tabs write behind the screen.  `InsideUnlessTab` says that nothing else
does, `LinesAboveKept` that even then the lines above the cursor are safe.

`itoa_buf`, `atoi`, `vsnprintf` and `parse_args` keep no state: in `Text` they are
operators, and its variable holds the arguments of the one call looked at.  They
are compared with what they promise, over all inputs within bounds here and for
all inputs in section 11: numbers read back, also the smallest
(`NumbersReadBack`); a formatted text is the longest prefix of the full one that
the limit of the buffer leaves room for (`FormatFits`); the arguments are the words of the line,
only the last taking the rest (`ArgumentsAreWords`).

The limit is the size less one, as a size_t: in a buffer of one character or more
the text fits with its terminator, in one of size 0 the limit wraps and there is
none (`libc.c:147`), which the property says.  A `%` at the end of a format takes the
terminator for its conversion, prints it as an unknown one, and the loop goes on
behind the format (`libc.c:156`): such a format is one with the part "nul" in it.

`ConsoleOutput`: three rows of four columns, a tab stop every two and two cells
behind, so that wraps, scrolls and tabs at, before and behind the end of a line all
occur; five-bit integers, so that every number is tried and the unsigned ones
have two digits in both bases; formats of up to two directives, the unknown ones and the `%` at the end among
them, into buffers of size 0, shorter and longer than their text; lines of up to eight characters, so of up to
four words, for three arguments.


## 10. Boot

`Boot` is `kernel_main` up to the first dispatch of init, with `idt_init` in steps:
the gates, `pic_remap`, `lidt`, `sti`, and then `ps2_init`, access by access.  Because
`idt_init` executes `sti` before `ps2_init` (`idt.c:126-127`), both interrupts may
come between any two of these and between the steps that follow: `pmm_init` to
`proc_init` (none of which touches this state), `proc_create_kernel` up to the
point where init is READY, the rest of it, and the idle loop.  `IRQ0` is the timer
with `scheduler_tick`: before init is READY it only counts (see `Proc`); while
`proc_create_kernel` is still building the stack of init it switches to a stack
pointer of 0 and the machine is lost ("lost"); after that it dispatches init, with
IF clear and IRQ0 unacknowledged, and `kernel_main` is over.  An interrupt that finds no
gate of its own ends in "crash".  The keyboard controller is external: one output
buffer, a line to the PIC that the command byte enables, answers to commands that
wait until the buffer is free.

`BootKeyboard` (up to two keys waiting): once the keyboard pauses the boot reaches
init, unless the timer comes inside `proc_create_kernel` (`BootCompletes`); no
interrupt of the timer or the keyboard meets a missing gate or that of an
exception (part of `BootCompletes`, and proved); once `ps2_init` has written the
command byte, a byte of the keyboard never waits in the controller without a
pending, unmasked interrupt that announces it, also one from before the PIC was
set up (`KeysSignalled`); and `ps2_init` changes only the interrupt bit of the
command byte unless a key arrives between its flush and its read
(`ConfigKept`).  That exception is real: the scan code is then written back as
command byte (and `ps2_init` does not wait for the controller's answer,
`idt.c:60-61`; the model's controller answers at once, so the exception is not the
only way to a wrong byte on slow hardware).  That a signalled key is also taken
over is not claimed: after the dispatch of init interrupts stay disabled.

Fairness: the CPU executes and takes its interrupts, and the timer keeps raising
its own.  Nothing is assumed of the keyboard.


## 11. Proofs

Every theorem is proved for every value of the constants that satisfies the
module's assumption (`ProcAssumption`, `TtyAssumption`, ...).  Except for the
refinements, the action properties and `Text` all have the same form: an inductive
invariant `IInv`, a lemma per action that the action keeps it, `Inductive`
(`Spec => []IInv`), and the property as a consequence of `IInv`.

**`ProcProofs`**, for every number of slots, every modulus of the ticks, every set
of sleep times and every number of forks and early ticks.  `TypeCorrect`,
`OneRunningAlways`, `PidsUnique`, `WakeupNeverLost`, `InterruptsDisciplined`,
`DirAlwaysLoaded`, `ExitIsFinal`; the action properties `RoundRobinAlways` and
`SwitchAlwaysResumes`; and `TableImplementsLife`, that the table implements
`ProcLife`.  The invariants are not inductive by themselves.  `PidsIssued`: a pid in
use was handed out before the present value of its counter, so a new one is new.
`SavedContexts`: only idle is suspended inside the interrupt handler and only
other processes inside a call, so that the return from the handler enables
interrupts in idle and nowhere else; and a process suspended in `proc_exit` is a
zombie or its slot is free, so it is never dispatched.  `Booting`: before
`kernel_main` is done nothing else has run.  Every action but four goes through
`scheduler_tick`: lemma `ScanFinds` says its scan finds the nearest READY process
and, as idle is READY whenever it is not current, that it finds one whenever the
current process may not go on; `Tick` states what `scheduler_tick` does in the form
the rest uses; `TickInv` that it re-establishes `IInv`.  `SwitchAlwaysResumes` needs
`Resumable`: every suspended process has a saved context, but for a forked child
and for init under construction.

**`TtyProofs`**, for every size of ring and buffer, reader interruptible or not:
`LineAlwaysSafe`, `CharAlwaysStable`, and `RingIsQueue`, that the ring with its two
indices implements `BoundedQueue`.  `IInv` adds that past its test the reader finds
a character (the handler only adds, and drops what does not fit), and that every
cell between tail and head holds one.  The refinement is arithmetic modulo
`KB_BUF_SIZE`, with and without wrap.

**`HeapProofs`**, for every size of header, page and heap and all request sizes:
`AlwaysTiled`, `AlwaysCoalesced`, `AlwaysAccounted`, and `HeapIsAllocator`, that
`kmalloc`, `kfree` and `krealloc` implement `Allocator`.  The central notion is
`Chain(h, B, brk)`: the blocks `B` are linked both ways and fill the heap.  It says
nothing about a walk, so that splitting, absorbing and appending a block are each
one lemma about it; `BlocksAre` then relates it to the walk from `heap_head`,
which meets exactly the blocks of a chain, in order and without end.  Neighbours
are merged because the list had no two free neighbours before the call.

**`MemoryProofs`**, for every size of tables and of the machine up to that of the
bitmap - also with frames behind the start of the heap -, every place of the kernel
and its heap, and any number of processes.  `FramesCounted`: `FrameCount`, out of
memory too.  The other properties speak of the time until a table of the kernel is
in frame 0: when the frames run out at the moment the heap needs a new table, the
failed `pmm_alloc` makes frame 0 a table (`vmm.c:22-23`), which also holds whatever
else failed to be allocated.  `OneOwnerEach`, `SharingIsCow`, `KernelPagesKept` are
the properties as the runs check them, with that condition (`TablesFound`) in them,
and `TablesAreFound` says that it ends only when no frame is free.  `IInv` says
that each table belongs to one entry of one directory (`Apart`), what the kernel
maps (`KernelMaps`), that a heap page's frame serves nothing else and that every frame
in use is accounted for (`Backs`), that entries for a common page are equal and
read-only (`Shares`), and that no directory maps more than the kernel's (`Below`),
which is why a page the heap adds is shared with nobody.  `vmm_map` writes one
entry of one table (`MapIs`); the loop of `vmm_clone` is unfolded once (`CloneIs`,
with `CloneRound` for a round), after which `ForkMaps` and `GrowsMaps` say what is
mapped, and by which entry, after a fork and an expansion.  `BitmapAssumption` is not
used: the theorems hold of the model for larger machines too, but there the model
is not what the code does.

**`FilesProofs`**, about `Files`, for any number of processes, descriptors, entries,
nodes, sizes, names and kinds of misuse: `RefsAlwaysExact`, `NothingEverDangles`,
`SizesAlwaysAgree`, `AlwaysATree`.  `IInv` has two halves.  What holds after every
call: the shape of the nodes with each in at most one place (`NodesOK`), the count of
open files that each node keeps, also where others were removed while open
(`CountsOK`), and which files descriptors may refer to (`SharesOK`).  And what holds
until a kind of misuse ends it, each with its condition: that all nodes are
reached (`Connected`, until "rmdir"), that open files refer to nodes (`Rooted`, until
"unlink"), that descriptors refer to open files which count at least the
descriptors they are in (`Live`, until "fork" or "dup2"), and exactly those
(`Exact`, until "exit" too).  `Live` is what makes exit harmless to others: it
leaves counts too high, so nothing is freed early.  `Connected` says that every set of nodes
that holds the root and the children of its members holds all nodes.  This needs
no paths and is kept by adding and removing a leaf; only at the end `AllReached`
turns it into what `Tree` says, with the argument that each round of the search
finds a node until there is none left.  The counts are equalities of
cardinalities, so an open, close, dup2 or fork is the addition or removal of one
pair (`SharesOne`, `Recounts`).

About `Shell`, for every list of entries `build_initfs` can make
(`ShellAssumption`, `InitFsAssumption`; the theorems about `Files` use neither):
`NothingEverLeaked`, `OutputAlwaysWhole`, `ShellKeepsTree`, and `CommandsShrink`, the
part of `CommandsEnd` that is not fairness: while a command is in progress nobody
else takes a step, and each of its own lowers the natural number `Left`, also the
write to the terminal that does not return, with which it is 0.  The lemmas
about the calls are shared: `FilesOK(H)` has the open files that no descriptor
refers to as a parameter, none in `Files`, in the shell the two that `init_process`
forgets and the one of an `ls`.  `NothingLeaked` and `OutputIsWhole` speak of the end
of a command only; `ShellInv` says what holds on the way there.  A `cat` or `write`
has one descriptor more than at its start, of a file nobody shares (`ByDescriptor`),
so that closing it brings back exactly what was there before; what `cat` printed
ends at its position in the file; `write` begins on an empty file, which is why the
file then has the length of the text.  `Builds` proves of the loop over `InitFs` that
it leaves a tree with nothing open.

**`ConsoleProofs`**, about `Screen`, for every size of the screen, every tab stop that
divides its width and any memory behind it: `AlwaysInside`, `LinesAboveAlwaysKept`,
and `ScreenIsTerminal`, that the screen implements `Terminal`.  `IInv` adds that the
rows below the cursor are blank, which is why the line that a scroll brings up,
and the one a new line enters, are empty.

About `Text`, for every call (`Text` has no steps: its variable is the call):

- `NumbersAreReadBack`, for every width of an int.  A reader of digits is any
  function that starts from 0 and takes digit after digit, wrapping or not
  (`Reads`); two readers of the same digits agree (`ReadersAgree`), `atoi`'s loop is
  one that wraps (`LeadingIs`) and `ValueOf` one that does not (`ValueOfIs`); and
  what `itoa_buf` writes of k is what it writes of the quotient and a digit, so it
  reads as k (`AllWritten`).  The smallest int is written as the digits of its
  absolute value, which wrap to itself, and negating it changes nothing.
- `ResultsFit`, for every sequence of the parts `vsnprintf` knows, the unknown
  conversion and the `%` at the end among them (`FormatsAssumption`), and every
  size of the buffer that a size_t can have, 0 included (`SizesAssumption`).  Putting a string into a buffer that is already a cut of
  the full text gives the cut of the longer text (`PutCuts`), so the loop computes the
  cut of all parts together (`FormattedIs`).
- `CommandLineSplit`, for every line and every size of `argv`.  After k turns the loop
  of `parse_args` stands where a word may begin, and `argv` holds the words before
  it in their order (`After`); a turn that finds a word adds exactly one to them
  (`NextWord`), and a turn that finds none is one after the last (`NoWordLeft`).

`WordAssumption` states of `2^WordBits` what the proofs use (even, at least 32):
the prover does not know powers.  TLC evaluates it.

**`BootProofs`**, for any number of keys before and during the boot:
`ConfigAlwaysKept`; `InterruptsAlwaysHandled`, that an enabled interrupt of the timer
or the keyboard always finds its own gate (so only the switch inside
`proc_create_kernel` can end the boot, a case `BootCompletes` names); and
`KeysAlwaysSignalled`.  `IInv` says which byte the buffer holds at each step, as long
as the keyboard has not sent one in between; `Prepared` how much is set up at each
step; and `Signalled` that from the end of the flush a byte in the buffer has
raised IRQ1 if the command byte enables it.

Only model-checked:

- liveness (`ReadyRuns`, `SleeperWakes`, `BootCompletes`, `CommandsEnd`): fairness and
  ENABLED are out of the prover's reach.  What `ReadyRuns` and the last two rest on
  besides fairness is proved (`RoundRobinAlways`, `InterruptsAlwaysHandled`,
  `CommandsShrink`);
- `CreatedAsAsked`;
- the properties whose runs end in a violation (`findings` in `PROJECT.json`);
- what `TtyHalt` shows, though the reason for it, `InterruptsOnlyInIdle`, is proved.


## 12. Plan

Done so far: the modules above.  Left, in this order:

1. `Kernel`: a composition of `Proc` and `Memory`, in which `page_dir` is a real
   directory and a heap expansion happens in whatever process runs; and of
   `Heap` and `Memory`, with expansions that fail.
2. `Files` with bytes: gaps after a truncation, negative offsets.

Not modelled: the bits of GDT and IDT entries and `boot.S` (straight-line set-up of
tables), string and memory functions (loops over bytes without state),
`echo`, `help`, `ps`, `pwd`, `uname` (they print), `exec_program` (called by nothing),
`drivers/serial.c` (not in the Makefile).
