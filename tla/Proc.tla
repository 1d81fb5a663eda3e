------------------------------- MODULE Proc -------------------------------
(***************************************************************************)
(* The process table and the scheduler of proc/proc.c, with the interrupt  *)
(* discipline that drives them: the timer interrupt (drivers/irq.c and     *)
(* kernel/isr_stubs.S), context_switch (proc/switch.S) and the part of     *)
(* kernel_main that creates the init process (kernel/main.c).              *)
(*                                                                         *)
(* There is one CPU.  A kernel call runs without interleaving while        *)
(* EFLAGS.IF is clear, up to the point where it switches context, so each  *)
(* call is one action; the only code that runs with IF set is kernel_main  *)
(* (the idle process), which is cut into steps the timer may interrupt.    *)
(*                                                                         *)
(* Abstracted: pending_sigs, sig_mask, sig_handlers and exit_code (written *)
(* and never read back by the scheduler), name, cwd, fds (the file layer), *)
(* and the contents of page directories (the memory component): a          *)
(* directory is a token.                                                   *)
(***************************************************************************)
EXTENDS Integers

CONSTANTS
    MAX_PROCS,    \* number of slots of proc_table (64 in the code)
    TickMod,      \* ticks and sleep_until are integers modulo this (2^32)
    SleepTicks,   \* the values of ms / 10 + 1 a caller may ask for
    MaxForks,     \* BOUND: how many times proc_fork succeeds
    EarlyTicks    \* BOUND: timer interrupts taken before proc_init

ASSUME ProcAssumption ==
    /\ MAX_PROCS \in Nat /\ MAX_PROCS >= 2
    /\ TickMod \in Nat \ {0}
    /\ SleepTicks \subseteq Nat \ {0}
    /\ MaxForks \in Nat
    /\ EarlyTicks \in Nat /\ EarlyTicks < TickMod

Slots    == 0 .. MAX_PROCS - 1
States   == {"UNUSED", "RUNNING", "READY", "BLOCKED", "ZOMBIE", "SLEEPING"}

IdlePid  == 0
InitPid  == 1              \* the static next_pid of proc_create_kernel
ForkPid  == 100            \* the static next_pid of proc_fork
Pids     == {IdlePid, InitPid} \cup ForkPid .. ForkPid + MaxForks

KernelDir == 0             \* vmm_get_kernel_directory()
NullDir   == -1            \* page_dir of a slot that was only memset
Dirs      == {NullDir, KernelDir} \cup ForkPid .. ForkPid + MaxForks

(***************************************************************************)
(* What the esp of a slot resumes:                                         *)
(*   none  - nothing was ever saved there (esp = 0)                        *)
(*   entry - the frame built by proc_create_kernel                         *)
(*   irq   - the timer interrupt that preempted the process                *)
(*   ret   - proc_yield or proc_sleep, about to return to the caller       *)
(*   wait  - the loop of proc_wait(arg)                                    *)
(*   exit  - the hlt loop at the end of proc_exit                          *)
(***************************************************************************)
Kinds    == {"none", "entry", "irq", "ret", "wait", "exit"}
Contexts == [kind : Kinds, arg : Pids \cup {-1}]
Context(k) == [kind |-> k, arg |-> -1]
WaitContext(q) == [kind |-> "wait", arg |-> q]

(***************************************************************************)
(* Where the CPU is: running the current process' own code, at the end of  *)
(* irq_handler, in the loop of proc_wait, in the hlt loop of proc_exit, or *)
(* gone wild after a context that was not one (panic or triple fault).     *)
(***************************************************************************)
Places == {"run", "irq", "wait", "halt", "crash"}

VARIABLES
    state, pid, ppid, sleep_until, page_dir,  \* fields of proc_table[slot]
    esp,          \* slot -> the context saved under process_t.esp
    torn,         \* slot -> the saved context is a copy proc_fork took of a
                  \*         stack its owner was still using
    current_proc, \* the slot of the current process
    ticks,        \* the tick counter
    next_pid,     \* static next_pid of proc_fork
    intr,         \* EFLAGS.IF
    in_service,   \* IRQ0 was delivered and not yet acknowledged (EOI)
    cr3,          \* the page directory the CPU uses
    kmain,        \* progress of kernel_main, the code of slot 0
    at            \* where the CPU is

table == <<state, pid, ppid, sleep_until, page_dir, esp, torn>>
cpu   == <<intr, in_service>>
vars  == <<table, current_proc, ticks, next_pid, cpu, cr3, kmain, at>>

TypeOK ==
    /\ state \in [Slots -> States]
    /\ pid \in [Slots -> Pids]
    /\ ppid \in [Slots -> Pids]
    /\ sleep_until \in [Slots -> 0 .. TickMod - 1]
    /\ page_dir \in [Slots -> Dirs]
    /\ esp \in [Slots -> Contexts]
    /\ torn \in [Slots -> BOOLEAN]
    /\ current_proc \in Slots
    /\ ticks \in 0 .. TickMod - 1
    /\ next_pid \in ForkPid .. ForkPid + MaxForks
    /\ intr \in BOOLEAN
    /\ in_service \in BOOLEAN
    /\ cr3 \in Dirs
    /\ kmain \in {"boot", "create", "idle"}
    /\ at \in Places

(***************************************************************************)
(* The machine as proc_init leaves it.  idt_init already executed sti, so  *)
(* some timer interrupts may have been counted.  Counting is all they do:  *)
(* scheduler_tick then runs with current_proc NULL, from which its scan    *)
(* starts anywhere, at a negative index too, but every slot is still zero, *)
(* UNUSED, and a negative next_idx is not dispatched (proc.c:94-105).      *)
(* Slot 0 is zeroed but for what proc_init sets; its esp is meaningless    *)
(* until it is switched out.                                               *)
(***************************************************************************)
Init ==
    /\ state = [s \in Slots |-> IF s = 0 THEN "RUNNING" ELSE "UNUSED"]
    /\ pid = [s \in Slots |-> IdlePid]
    /\ ppid = [s \in Slots |-> IdlePid]
    /\ sleep_until = [s \in Slots |-> 0]
    /\ page_dir = [s \in Slots |-> IF s = 0 THEN KernelDir ELSE NullDir]
    /\ esp = [s \in Slots |-> Context("none")]
    /\ torn = [s \in Slots |-> FALSE]
    /\ current_proc = 0
    /\ ticks \in 0 .. EarlyTicks
    /\ next_pid = ForkPid
    /\ intr = TRUE
    /\ in_service = FALSE
    /\ cr3 = KernelDir
    /\ kmain = "boot"
    /\ at = "run"

-----------------------------------------------------------------------------
(* Helpers of proc.c.                                                      *)

\* alloc_proc: the first UNUSED slot.
alloc_proc(s) ==
    /\ state[s] = "UNUSED"
    /\ \A r \in Slots : r < s => state[r] # "UNUSED"

\* proc_get: the first slot in use that carries the pid.
proc_get(q, s) ==
    /\ pid[s] = q /\ state[s] # "UNUSED"
    /\ \A r \in Slots : r < s => ~(pid[r] = q /\ state[r] # "UNUSED")

\* The number of steps the scan of scheduler_tick takes from slot a to slot b:
\* a itself comes last.
ScanDist_FromBehind(a, b) == IF b > a THEN MAX_PROCS - b ELSE MAX_PROCS + a - b
ScanDist(a, b) == IF b > a THEN b - a ELSE b - a + MAX_PROCS

\* The sleepers that are due at tick `now' become READY.
Wakeup(st, until, now) ==
    [s \in Slots |-> IF st[s] = "SLEEPING" /\ now >= until[s]
                     THEN "READY" ELSE st[s]]

\* The process the scan reaches first, if it reaches one before the current.
IsNext(st, next) ==
    /\ next # current_proc
    /\ st[next] = "READY"
    /\ \A s \in Slots \ {current_proc} :
          st[s] = "READY" => ScanDist(current_proc, next) <= ScanDist(current_proc, s)

\* Where the CPU is after the `ret' of context_switch, for each context.
Resumes(c) ==
    CASE c.kind \in {"entry", "ret"} -> "run"
      [] c.kind = "irq"  -> "irq"
      [] c.kind = "wait" -> "wait"
      [] c.kind = "exit" -> "halt"
      [] OTHER      -> "crash"

(***************************************************************************)
(* What switching to slot s may do.  A torn copy of a stack that was never *)
(* switched out returns to address 0; any other torn copy may still hold a *)
(* usable frame or not.                                                    *)
(***************************************************************************)
Outcomes(s) ==
    IF torn[s]
    THEN {"crash"} \cup (IF esp[s].kind = "entry" THEN {} ELSE {Resumes(esp[s])})
    ELSE {Resumes(esp[s])}

\* vmm_switch of the next process' directory.
VmmSwitch_Skipped(next) == cr3' = cr3
VmmSwitch(next) == cr3' = page_dir[next]

\* The state of the process switched from.
Preempted_StillRunning(x) == x
Preempted(x) == IF x = "RUNNING" THEN "READY" ELSE x

\* From `process_t* prev' to the context switch; ctx is what prev saves.
SwitchTo_NotSaved(st, next, ctx) ==
    /\ state' = [st EXCEPT ![current_proc] = Preempted(@), ![next] = "RUNNING"]
    /\ current_proc' = next
    /\ VmmSwitch(next)
    /\ esp' = esp
    /\ torn' = [torn EXCEPT ![current_proc] = FALSE]
    /\ at' \in Outcomes(next)
SwitchTo(st, next, ctx) ==
    /\ state' = [st EXCEPT ![current_proc] = Preempted(@), ![next] = "RUNNING"]
    /\ current_proc' = next
    /\ VmmSwitch(next)
    /\ esp' = [esp EXCEPT ![current_proc] = ctx]
    /\ torn' = [torn EXCEPT ![current_proc] = FALSE]
    /\ at' \in Outcomes(next)

\* scheduler_tick, entered with the states st and the wake-up times until.
scheduler_tick(st, until, ctx) ==
    LET now   == (ticks + 1) % TickMod
        awake == Wakeup(st, until, now)
    IN  /\ ticks' = now
        /\ sleep_until' = until
        /\ \/ \E next \in Slots : IsNext(awake, next) /\ SwitchTo(awake, next, ctx)
           \/ /\ \A s \in Slots : ~IsNext(awake, s)
              /\ state' = awake
              /\ at' = Resumes(ctx)
              /\ UNCHANGED <<current_proc, cr3, esp, torn>>

\* proc_yield, entered with the states st.
proc_yield(st, until, ctx) ==
    scheduler_tick([st EXCEPT ![current_proc] = IF @ = "RUNNING" THEN "READY" ELSE @],
                   until, ctx)

\* proc_exit up to its proc_yield: the caller is a zombie and the parent, if
\* it is blocked, wakes.
Exited_ParentSleeps(st) == [st EXCEPT ![current_proc] = "ZOMBIE"]
Exited(st) ==
    LET zombie == [st EXCEPT ![current_proc] = "ZOMBIE"]
    IN  [s \in Slots |->
           IF proc_get(ppid[current_proc], s) /\ zombie[s] = "BLOCKED"
           THEN "READY" ELSE zombie[s]]

\* A process the wait for pid q of the current process would reap.
Reapable_AnyParent(z, q) == state[z] = "ZOMBIE" /\ (q = -1 \/ pid[z] = q)
Reapable(z, q) ==
    /\ state[z] = "ZOMBIE"
    /\ ppid[z] = pid[current_proc]
    /\ q = -1 \/ pid[z] = q

HasChild == \E s \in Slots : ppid[s] = pid[current_proc] /\ state[s] # "UNUSED"

\* The states proc_kill makes READY.
Wakeable_Zombie == {"BLOCKED", "SLEEPING", "ZOMBIE"}
Wakeable == {"BLOCKED", "SLEEPING"}

\* ticks + (ms / 10 + 1) in 32 bits.
WakeTick_Unbounded(d) == ticks + d
WakeTick(d) == (ticks + d) % TickMod

-----------------------------------------------------------------------------
(* The timer interrupt.                                                    *)

\* The IDT gate of an IRQ is an interrupt gate: it clears IF.
EnterIRQ_TrapGate == in_service' = TRUE /\ intr' = intr
EnterIRQ == in_service' = TRUE /\ intr' = FALSE

\* IRQ0: irq_common calls irq_handler, which calls scheduler_tick.
TimerIRQ ==
    /\ intr /\ ~in_service /\ at = "run"
    /\ EnterIRQ
    /\ scheduler_tick(state, sleep_until, Context("irq"))
    /\ UNCHANGED <<pid, ppid, page_dir, next_pid, kmain>>

\* The rest of irq_handler and irq_common: pic_eoi, sti, iret.
IrqReturn ==
    /\ at = "irq"
    /\ in_service' = FALSE
    /\ intr' = TRUE
    /\ at' = "run"
    /\ UNCHANGED <<table, current_proc, ticks, next_pid, cr3, kmain>>

-----------------------------------------------------------------------------
(* kernel_main: proc_create_kernel(init_process, "init"), then the idle    *)
(* loop.  The timer may interrupt between the two steps.                   *)

CreateReady ==
    /\ current_proc = 0 /\ at = "run" /\ kmain = "boot"
    /\ \E s \in Slots :
         /\ alloc_proc(s)
         /\ pid' = [pid EXCEPT ![s] = InitPid]
         /\ ppid' = [ppid EXCEPT ![s] = pid[current_proc]]
         /\ state' = [state EXCEPT ![s] = "READY"]
         /\ sleep_until' = [sleep_until EXCEPT ![s] = 0]
         /\ page_dir' = [page_dir EXCEPT ![s] = NullDir]
         /\ esp' = [esp EXCEPT ![s] = Context("none")]
         /\ torn' = [torn EXCEPT ![s] = FALSE]
    /\ kmain' = "create"
    /\ UNCHANGED <<current_proc, ticks, next_pid, cpu, cr3, at>>

CreateContext ==
    /\ current_proc = 0 /\ at = "run" /\ kmain = "create"
    /\ \E s \in Slots :
         /\ proc_get(InitPid, s)
         /\ page_dir' = [page_dir EXCEPT ![s] = KernelDir]
         /\ esp' = [esp EXCEPT ![s] = Context("entry")]
    /\ kmain' = "idle"
    /\ UNCHANGED <<state, pid, ppid, sleep_until, torn,
                   current_proc, ticks, next_pid, cpu, cr3, at>>

KernelMain == CreateReady \/ CreateContext

-----------------------------------------------------------------------------
(* The calls of proc.h, made by a process other than idle.                 *)

Thread == current_proc # 0 /\ at = "run"

Yield ==
    /\ Thread
    /\ proc_yield(state, sleep_until, Context("ret"))
    /\ UNCHANGED <<pid, ppid, page_dir, next_pid, cpu, kmain>>

proc_sleep(d) ==
    /\ Thread
    /\ proc_yield([state EXCEPT ![current_proc] = "SLEEPING"],
                  [sleep_until EXCEPT ![current_proc] = WakeTick(d)], Context("ret"))
    /\ UNCHANGED <<pid, ppid, page_dir, next_pid, cpu, kmain>>

proc_exit ==
    /\ Thread
    /\ page_dir' = [page_dir EXCEPT ![current_proc] = KernelDir]
    /\ proc_yield(Exited(state), sleep_until, Context("exit"))
    /\ UNCHANGED <<pid, ppid, next_pid, cpu, kmain>>

\* One pass of the loop of proc_wait: reap, fail, or block and yield.
WaitPass(q) ==
    \/ \E z \in Slots :
         /\ Reapable(z, q)
         /\ \A r \in Slots : r < z => ~Reapable(r, q)
         /\ state' = [state EXCEPT ![z] = "UNUSED"]
         /\ at' = "run"
         /\ UNCHANGED <<sleep_until, esp, torn, current_proc, ticks, cr3>>
    \/ /\ ~HasChild
       /\ at' = "run"
       /\ UNCHANGED <<state, sleep_until, esp, torn, current_proc, ticks, cr3>>
    \/ /\ HasChild
       /\ \A z \in Slots : ~Reapable(z, q)
       /\ proc_yield([state EXCEPT ![current_proc] = "BLOCKED"], sleep_until, WaitContext(q))

\* proc_wait(q) up to its return or its first block ...
proc_wait(q) ==
    /\ Thread
    /\ WaitPass(q)
    /\ UNCHANGED <<pid, ppid, page_dir, next_pid, cpu, kmain>>

\* ... and each further pass, after the process was switched back to.
WaitAgain ==
    /\ at = "wait"
    /\ WaitPass(esp[current_proc].arg)
    /\ UNCHANGED <<pid, ppid, page_dir, next_pid, cpu, kmain>>

\* proc_kill: the signal itself is only recorded, nothing delivers it.
proc_kill(q) ==
    /\ Thread
    /\ \E s \in Slots :
         /\ proc_get(q, s)
         /\ state' = [state EXCEPT ![s] = IF @ \in Wakeable THEN "READY" ELSE @]
    /\ UNCHANGED <<pid, ppid, sleep_until, page_dir, esp, torn,
                   current_proc, ticks, next_pid, cpu, cr3, kmain, at>>

\* The pid proc_fork gives next.
PidAfterFork_Same == next_pid
PidAfterFork == next_pid + 1

\* proc_fork: the child's stack is a copy taken at the esp the parent saved
\* when it was last switched out.
proc_fork ==
    /\ Thread
    /\ next_pid < ForkPid + MaxForks
    /\ \E c \in Slots :
         /\ alloc_proc(c)
         /\ pid' = [pid EXCEPT ![c] = next_pid]
         /\ ppid' = [ppid EXCEPT ![c] = pid[current_proc]]
         /\ state' = [state EXCEPT ![c] = "READY"]
         /\ sleep_until' = [sleep_until EXCEPT ![c] = sleep_until[current_proc]]
         /\ page_dir' = [page_dir EXCEPT ![c] = next_pid]
         /\ esp' = [esp EXCEPT ![c] = esp[current_proc]]
         /\ torn' = [torn EXCEPT ![c] = TRUE]
    /\ next_pid' = PidAfterFork
    /\ UNCHANGED <<current_proc, ticks, cpu, cr3, kmain, at>>

-----------------------------------------------------------------------------
ProcCall ==
    \/ Yield
    \/ \E d \in SleepTicks : proc_sleep(d)
    \/ proc_exit
    \/ \E q \in Pids \cup {-1} : proc_wait(q)
    \/ \E q \in Pids : proc_kill(q)
    \/ proc_fork

Next == TimerIRQ \/ IrqReturn \/ KernelMain \/ WaitAgain \/ ProcCall

Spec == Init /\ [][Next]_vars

(***************************************************************************)
(* The PIT keeps raising IRQ0 and the CPU keeps executing kernel code.     *)
(* Nothing is assumed of processes: no interrupt takes the CPU from one    *)
(* (InterruptsOnlyInIdle), and no process has to give it up.               *)
(***************************************************************************)
Fairness ==
    /\ WF_vars(TimerIRQ)
    /\ WF_vars(IrqReturn)
    /\ WF_vars(KernelMain)
    /\ WF_vars(WaitAgain)

FairSpec == Spec /\ Fairness

-----------------------------------------------------------------------------
(* Invariants.                                                             *)

Crashed == at = "crash"

\* Exactly one slot is RUNNING and it is current_proc's; idle is never
\* anything but RUNNING or READY, so the scan of scheduler_tick (proc.c:97-103)
\* always finds a process to leave a blocked, sleeping or dead one for.
OneRunning ==
    /\ \A s \in Slots : state[s] = "RUNNING" <=> s = current_proc
    /\ state[0] \in {"RUNNING", "READY"}

\* The two pid counters, proc_create_kernel's and proc_fork's (proc.c:60, 149),
\* never give two slots in use the same pid, through any reuse of slots.
UniquePids ==
    \A r, s \in Slots :
        state[r] # "UNUSED" /\ state[s] # "UNUSED" /\ pid[r] = pid[s] => r = s

\* A process blocked in proc_wait (proc.c:221) has no zombie child it would
\* reap: the exit of the child and the check-then-block of the parent cannot
\* cross so that the wake-up of proc_exit (proc.c:179-182) is lost.
NoLostWakeup ==
    \A s, z \in Slots :
        ~ /\ state[s] = "BLOCKED"
          /\ state[z] = "ZOMBIE" /\ ppid[z] = pid[s]
          /\ esp[s].arg = -1 \/ pid[z] = esp[s].arg

\* Interrupts are enabled only while idle runs and no IRQ0 is in service: every
\* other process is entered from the timer interrupt and runs as part of it
\* (isr_stubs.S:99-120, irq.c:37), so kernel calls are never interrupted.
InterruptsOnlyInIdle == intr => current_proc = 0 /\ ~in_service

\* The CPU translates with the directory of the current process, also after
\* proc_exit destroyed and replaced it (proc.c:118, 185-188).
LoadedDir == cr3 = page_dir[current_proc]

\* No process continues behind the proc_yield of its proc_exit
\* (proc.c:193-195): the hlt loop there is unreachable.
ExitNeverReturns == at # "halt"

(***************************************************************************)
(* The inductive strengthening of these invariants.  PidsIssued: a pid in  *)
(* use was handed out by one of the two counters before its present value. *)
(* SavedContexts: only idle is ever suspended inside irq_handler, only     *)
(* other processes inside proc_yield, and a process suspended in proc_exit *)
(* stays a zombie until its slot is reaped.  Booting: before kernel_main   *)
(* reached its idle loop no other process ever ran.                        *)
(***************************************************************************)
PidsIssued ==
    \A s \in Slots : state[s] # "UNUSED" =>
        /\ pid[s] = IdlePid <=> s = 0
        /\ pid[s] = InitPid => kmain # "boot"
        /\ pid[s] >= ForkPid => pid[s] < next_pid

SavedContexts ==
    /\ \A s \in Slots :
         /\ esp[s].kind = "irq" => s = 0
         /\ esp[s].kind \in {"ret", "wait", "exit"} => s # 0
         /\ esp[s].kind = "exit" => state[s] \in {"ZOMBIE", "UNUSED"}
    /\ at = "irq" => current_proc = 0
    /\ at = "wait" => current_proc # 0

Booting ==
    kmain # "idle" =>
        /\ current_proc = 0 \/ at = "crash"
        /\ \A s \in Slots : state[s] # "BLOCKED" /\ esp[s].kind \in {"none", "irq"}

\* The conjunction proved inductive: the type invariant, the six invariants
\* above and the three facts they rest on.
IInv ==
    /\ TypeOK /\ OneRunning /\ UniquePids /\ NoLostWakeup
    /\ InterruptsOnlyInIdle /\ LoadedDir /\ ExitNeverReturns
    /\ PidsIssued /\ SavedContexts /\ Booting

-----------------------------------------------------------------------------
(* Action properties and refinement.                                       *)

\* A dispatch brings every other process that is READY strictly closer to its
\* own turn, so at most MAX_PROCS - 1 dispatches pass before it runs
\* (the scan of proc.c:97-103).
RoundRobin ==
    [][ current_proc' # current_proc =>
          \A s \in Slots :
             state[s] = "READY" /\ state'[s] = "READY" =>
                (s - current_proc') % MAX_PROCS < (s - current_proc) % MAX_PROCS ]_vars

\* A switch resumes the context its target last saved; only the two processes
\* whose first stack is not in order can take the machine down: one that
\* proc_create_kernel is still building (proc.c:63-76) and a forked child at its
\* first dispatch (proc.c:162-167).
SwitchResumes ==
    [][Crashed' => Crashed \/ torn[current_proc'] \/ kmain = "create"]_vars

Slot(p) == {s \in Slots : pid[s] = p /\ state[s] # "UNUSED"}
Unborn(p) == IF p = InitPid THEN kmain = "boot" ELSE p >= next_pid

\* What a process table shows of the life of pid p ...
LifeOf(p) ==
    IF Slot(p) # {} THEN IF \E s \in Slot(p) : state[s] = "ZOMBIE" THEN "zombie" ELSE "alive"
    ELSE IF Unborn(p) THEN "unborn" ELSE "reaped"

\* ... and of its parent.
ParentOf(p) == IF Slot(p) = {} THEN IdlePid ELSE ppid[CHOOSE s \in Slot(p) : TRUE]

Life == INSTANCE ProcLife WITH
            Pid    <- Pids,
            Root   <- IdlePid,
            life   <- [p \in Pids |-> LifeOf(p)],
            parent <- [p \in Pids |-> ParentOf(p)]

\* proc_create_kernel, proc_fork, proc_exit and proc_wait keep the promise of
\* ProcLife: created once, exited once, reaped once and by the parent only.
ImplementsLife == Life!LifeSpec

-----------------------------------------------------------------------------
(* Liveness.                                                               *)

\* What stops the scheduler for good, and what nothing in the code prevents: a
\* process that never gives up the CPU, as the shell in its hlt (tty.c:175), or
\* a context that was none.
Stuck == \/ \E p \in Slots \ {0} : <>[](current_proc = p)
         \/ <>Crashed

\* Every READY process is dispatched, unless one other than idle keeps the CPU
\* for ever: idle gives it up at the next tick, and no order of yields, sleeps,
\* exits, waits and kills passes over the same process again and again
\* (proc.c:97-103).
ReadyRuns ==
    Stuck \/ \A s \in Slots : state[s] = "READY" ~> state[s] # "READY"

\* Under the same condition a sleeper wakes, although ticks and sleep_until wrap
\* around and are compared as plain numbers (proc.c:88, 132).
SleeperWakes ==
    Stuck \/ \A s \in Slots : state[s] = "SLEEPING" ~> state[s] # "SLEEPING"

-----------------------------------------------------------------------------
(* What a comment of the source says and the code does not do.             *)

\* proc.c:159 "set up so that it returns from fork": the first dispatch of a
\* forked child resumes it, at the latest copy of its parent's stack.
ForkReturns ==
    [][\A s \in Slots : torn[s] /\ current_proc' = s /\ current_proc # s
          => at' # "crash"]_vars
=============================================================================
