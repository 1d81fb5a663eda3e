---------------------------- MODULE ProcProofs ----------------------------
(***************************************************************************)
(* Theorems about module Proc for every number of slots, every width of    *)
(* the tick counter and every number of forks.  The argument: IInv is      *)
(* inductive.  Every call that gives up the CPU goes through               *)
(* scheduler_tick, so what one tick does to the table is stated once       *)
(* (lemma Tick) and each action only shows with which states it enters it. *)
(***************************************************************************)
EXTENDS Proc, Recursion, TLAPS

USE ProcAssumption

(***************************************************************************)
(* The scan of scheduler_tick finds a process whenever one other than the  *)
(* current is READY.                                                       *)
(***************************************************************************)
LEMMA ScanFinds ==
    ASSUME NEW st \in [Slots -> States], current_proc \in Slots,
           NEW r \in Slots, r # current_proc, st[r] = "READY"
    PROVE  \E next \in Slots : IsNext(st, next)
<1> DEFINE Ready == {s \in Slots \ {current_proc} : st[s] = "READY"}
           T == {ScanDist(current_proc, s) : s \in Ready}
<1>1. \A a, b \in Slots : ScanDist(a, b) \in Nat
  BY DEF ScanDist, Slots
<1>2. T \subseteq Nat /\ T # {}
  <2>1. r \in Ready
    OBVIOUS
  <2> QED BY <1>1, <2>1
<1>3. PICK m \in T : \A k \in T : m <= k
  BY <1>2, NatMin, Zenon
<1>4. PICK next \in Ready : m = ScanDist(current_proc, next)
  BY <1>3
<1>5. \A s \in Slots \ {current_proc} : st[s] = "READY" =>
         ScanDist(current_proc, next) <= ScanDist(current_proc, s)
  BY <1>3, <1>4
<1> QED BY <1>4, <1>5 DEF IsNext

(***************************************************************************)
(* What one scheduler_tick does, entered by idle from the timer interrupt  *)
(* or by another process that gave up the CPU: exactly one process is      *)
(* RUNNING afterwards, no process becomes or stops being BLOCKED, a zombie *)
(* or UNUSED, and a process that is not idle is always switched away from. *)
(***************************************************************************)
TickEffect(st, ctx) ==
    /\ state' \in [Slots -> States]
    /\ \A s \in Slots : \A x \in {"UNUSED", "ZOMBIE", "BLOCKED"} :
          state'[s] = x <=> st[s] = x
    /\ current_proc' \in Slots
    /\ \A s \in Slots : state'[s] = "RUNNING" <=> s = current_proc'
    /\ state'[0] \in {"RUNNING", "READY"}
    /\ ticks' \in 0 .. TickMod - 1
    /\ torn' \in [Slots -> BOOLEAN]
    /\ \/ /\ current_proc' # current_proc
          /\ st[current_proc'] \in {"READY", "SLEEPING"}
          /\ esp' = [esp EXCEPT ![current_proc] = ctx]
          /\ cr3' = page_dir[current_proc']
          /\ at' \in {"crash", Resumes(esp[current_proc'])}
       \/ /\ current_proc = 0 /\ current_proc' = 0
          /\ UNCHANGED <<esp, cr3>>
          /\ at' = Resumes(ctx)

\* scheduler_tick entered with the states st: its callers guarantee the three
\* hypotheses on st, and TickEffect is all they learn of what it did.
LEMMA Tick ==
    ASSUME TypeOK, NEW st \in [Slots -> States], NEW until, NEW ctx,
           scheduler_tick(st, until, ctx),
           \A s \in Slots : st[s] = "RUNNING" => s = current_proc,
           current_proc # 0 => st[0] = "READY",
           current_proc = 0 => st[0] = "RUNNING"
    PROVE  TickEffect(st, ctx)
<1> DEFINE now == (ticks + 1) % TickMod
           awake == Wakeup(st, until, now)
<1>1. ticks' = now /\ now \in 0 .. TickMod - 1
  BY DEF scheduler_tick, TypeOK
<1>2. /\ awake \in [Slots -> States]
      /\ \A s \in Slots : awake[s] = st[s] \/ (st[s] = "SLEEPING" /\ awake[s] = "READY")
  BY DEF Wakeup, States
<1>3. 0 \in Slots /\ current_proc \in Slots
  BY DEF Slots, TypeOK
<1>4. CASE \E next \in Slots : IsNext(awake, next) /\ SwitchTo(awake, next, ctx)
  <2>1. PICK next \in Slots : IsNext(awake, next) /\ SwitchTo(awake, next, ctx)
    BY <1>4
  <2>2. /\ next # current_proc /\ awake[next] = "READY"
        /\ current_proc' = next
        /\ state' = [awake EXCEPT ![current_proc] = Preempted(@), ![next] = "RUNNING"]
        /\ esp' = [esp EXCEPT ![current_proc] = ctx]
        /\ cr3' = page_dir[next]
        /\ torn' = [torn EXCEPT ![current_proc] = FALSE]
    BY <2>1 DEF IsNext, SwitchTo, VmmSwitch
  <2>3. at' \in {"crash", Resumes(esp[next])}
    BY <2>1 DEF SwitchTo, Outcomes
  <2>4. \A s \in Slots : state'[s] = IF s = next THEN "RUNNING"
                                     ELSE IF s = current_proc THEN Preempted(awake[s])
                                     ELSE awake[s]
    BY <1>2, <1>3, <2>2
  <2>5. \A x \in States : Preempted(x) \in States \ {"RUNNING"}
    BY DEF Preempted, States
  <2>6. state' \in [Slots -> States]
    BY <1>2, <1>3, <2>2, <2>5 DEF States
  <2>7. \A s \in Slots : state'[s] = "RUNNING" <=> s = next
    BY <1>2, <2>4, <2>5
  <2>8. \A s \in Slots : \A x \in {"UNUSED", "ZOMBIE", "BLOCKED"} :
           state'[s] = x <=> st[s] = x
    BY <1>2, <2>2, <2>4 DEF Preempted
  <2>9. state'[0] \in {"RUNNING", "READY"}
    BY <1>2, <1>3, <2>4 DEF Preempted
  <2>10. torn' \in [Slots -> BOOLEAN]
    BY <2>2 DEF TypeOK
  <2>11. st[next] \in {"READY", "SLEEPING"}
    BY <1>2, <2>2
  <2> QED
    BY <1>1, <2>2, <2>3, <2>6, <2>7, <2>8, <2>9, <2>10, <2>11 DEF TickEffect
<1>5. CASE \A s \in Slots : ~IsNext(awake, s)
  <2>1. current_proc = 0
    <3> SUFFICES ASSUME current_proc # 0 PROVE FALSE
      OBVIOUS
    <3>1. awake[0] = "READY"
      BY <1>2, <1>3
    <3> QED BY <1>2, <1>3, <1>5, <3>1, ScanFinds
  <2>2. /\ state' = awake /\ at' = Resumes(ctx)
        /\ UNCHANGED <<current_proc, cr3, esp, torn>>
    <3>1. ~ \E next \in Slots : IsNext(awake, next) /\ SwitchTo(awake, next, ctx)
      BY <1>5
    <3> QED BY <3>1 DEF scheduler_tick
  <2>3. \A s \in Slots : state'[s] = "RUNNING" <=> s = 0
    BY <1>2, <1>3, <2>1, <2>2
  <2> QED BY <1>1, <1>2, <1>3, <2>1, <2>2, <2>3 DEF TickEffect, TypeOK
<1> QED BY <1>4, <1>5 DEF scheduler_tick

(***************************************************************************)
(* The states and the context with which an action enters scheduler_tick,  *)
(* and what it does besides, such that the tick preserves IInv.            *)
(***************************************************************************)
EntersTick(st, ctx) ==
    /\ \A s \in Slots : st[s] = "UNUSED" <=> state[s] = "UNUSED"
    /\ \A s \in Slots \ {current_proc} : st[s] = "ZOMBIE" <=> state[s] = "ZOMBIE"
    /\ \A s, z \in Slots :
         ~ /\ st[s] = "BLOCKED" /\ st[z] = "ZOMBIE" /\ ppid[z] = pid[s]
           /\ LET c == IF s = current_proc THEN ctx ELSE esp[s]
              IN  c.arg = -1 \/ pid[z] = c.arg
    /\ IF current_proc = 0 THEN ctx.kind = "irq" ELSE ctx.kind \in {"ret", "wait", "exit"}
    /\ ctx.kind = "exit" => st[current_proc] = "ZOMBIE"
    /\ kmain # "idle" => current_proc = 0 /\ \A s \in Slots : st[s] # "BLOCKED"
    /\ UNCHANGED <<pid, ppid, next_pid, kmain>>
    /\ sleep_until' \in [Slots -> 0 .. TickMod - 1]
    /\ page_dir' \in [Slots -> Dirs]
    /\ \A s \in Slots : page_dir'[s] = page_dir[s] \/ (s = current_proc /\ s # 0)
    /\ in_service' \in BOOLEAN
    /\ intr' = FALSE

\* scheduler_tick re-establishes the invariant, whichever call or interrupt
\* entered it (proc.c:83-122).
LEMMA TickInv ==
    ASSUME IInv, NEW st \in [Slots -> States], NEW ctx \in Contexts,
           TickEffect(st, ctx), EntersTick(st, ctx)
    PROVE  IInv'
<1> USE DEF IInv
<1>0. 0 \in Slots /\ current_proc \in Slots
  BY DEF Slots, TypeOK
<1>1. CASE current_proc' # current_proc
  <2>1. /\ current_proc' \in Slots \ {current_proc}
        /\ st[current_proc'] \in {"READY", "SLEEPING"}
        /\ esp' = [esp EXCEPT ![current_proc] = ctx]
        /\ cr3' = page_dir[current_proc']
        /\ at' \in {"crash", Resumes(esp[current_proc'])}
    BY <1>1 DEF TickEffect
  <2>2. esp' \in [Slots -> Contexts]
    BY <2>1 DEF TypeOK
  <2>3. \A s \in Slots : esp'[s] = IF s = current_proc THEN ctx ELSE esp[s]
    BY <1>0, <2>1 DEF TypeOK
  <2>4. esp[current_proc'].kind # "exit"
    BY <2>1 DEF EntersTick, SavedContexts
  <2>5. /\ at' \in Places /\ at' # "halt"
        /\ at' = "irq" => current_proc' = 0
        /\ at' = "wait" => current_proc' # 0
    BY <2>1, <2>4 DEF Resumes, SavedContexts, TypeOK, Contexts, Kinds, Places
  <2>6. TypeOK'
    BY <2>1, <2>2, <2>5 DEF TypeOK, TickEffect, EntersTick
  <2>7. LoadedDir'
    BY <2>1 DEF LoadedDir, EntersTick
  <2>8. SavedContexts'
    <3>1. \A s \in Slots :
            /\ esp'[s].kind = "irq" => s = 0
            /\ esp'[s].kind \in {"ret", "wait", "exit"} => s # 0
      BY <1>0, <2>3 DEF EntersTick, SavedContexts
    <3>2. \A s \in Slots : esp'[s].kind = "exit" => state'[s] \in {"ZOMBIE", "UNUSED"}
      BY <1>0, <2>3 DEF EntersTick, SavedContexts, TickEffect
    <3> QED BY <2>5, <3>1, <3>2 DEF SavedContexts
  <2>9. NoLostWakeup'
    BY <2>3 DEF NoLostWakeup, EntersTick, TickEffect
  <2>10. OneRunning' /\ UniquePids' /\ PidsIssued'
    BY DEF OneRunning, UniquePids, PidsIssued, EntersTick, TickEffect
  <2>11. InterruptsOnlyInIdle' /\ ExitNeverReturns'
    BY <2>5 DEF InterruptsOnlyInIdle, ExitNeverReturns, EntersTick
  <2>12. Booting'
    <3> SUFFICES ASSUME kmain # "idle" PROVE Booting'
      BY DEF Booting, EntersTick
    <3>1. at' = "crash"
      BY <2>1 DEF Resumes, Booting, SavedContexts, EntersTick
    <3>2. \A s \in Slots : state'[s] # "BLOCKED" /\ esp'[s].kind \in {"none", "irq"}
      BY <2>3 DEF Booting, EntersTick, TickEffect
    <3> QED BY <3>1, <3>2 DEF Booting
  <2> QED BY <2>6, <2>7, <2>8, <2>9, <2>10, <2>11, <2>12
<1>2. CASE current_proc' = current_proc
  <2>1. current_proc = 0 /\ UNCHANGED <<esp, cr3>> /\ at' = "irq"
    BY <1>2 DEF TickEffect, EntersTick, Resumes
  <2>2. TypeOK'
    BY <2>1 DEF TypeOK, TickEffect, EntersTick, Places
  <2>3. LoadedDir'
    BY <1>0, <1>2, <2>1 DEF LoadedDir, EntersTick
  <2>4. SavedContexts'
    <3>1. \A s \in Slots : esp'[s].kind = "exit" => state'[s] \in {"ZOMBIE", "UNUSED"}
      BY <1>0, <2>1 DEF EntersTick, SavedContexts, TickEffect
    <3> QED BY <1>2, <2>1, <3>1 DEF SavedContexts
  <2>5. NoLostWakeup'
    <3>1. \A s \in Slots : st[s] = "BLOCKED" => s # current_proc
      BY <1>0, <1>2, <2>1 DEF TickEffect
    <3> QED BY <2>1, <3>1 DEF NoLostWakeup, EntersTick, TickEffect
  <2>6. OneRunning' /\ UniquePids' /\ PidsIssued'
    BY DEF OneRunning, UniquePids, PidsIssued, EntersTick, TickEffect
  <2>7. InterruptsOnlyInIdle' /\ ExitNeverReturns'
    BY <2>1 DEF InterruptsOnlyInIdle, ExitNeverReturns, EntersTick
  <2>8. Booting'
    BY <1>2, <2>1 DEF Booting, EntersTick, TickEffect
  <2> QED BY <2>2, <2>3, <2>4, <2>5, <2>6, <2>7, <2>8
<1> QED BY <1>1, <1>2

(***************************************************************************)
(* proc_yield enters the tick with the current process READY if it ran.    *)
(***************************************************************************)
LEMMA YieldInv ==
    ASSUME IInv, current_proc # 0,
           NEW st \in [Slots -> States], NEW until, NEW ctx \in Contexts,
           proc_yield(st, until, ctx),
           \A s \in Slots \ {current_proc} : st[s] # "RUNNING",
           st[0] = "READY",
           EntersTick([st EXCEPT ![current_proc] = IF @ = "RUNNING" THEN "READY" ELSE @], ctx)
    PROVE  IInv'
<1> DEFINE st0 == [st EXCEPT ![current_proc] = IF @ = "RUNNING" THEN "READY" ELSE @]
<1>0. 0 \in Slots /\ current_proc \in Slots
  BY DEF Slots, IInv, TypeOK
<1>1. st0 \in [Slots -> States]
  BY DEF States
<1>2. /\ \A s \in Slots : st0[s] # "RUNNING"
      /\ st0[0] = "READY"
  BY <1>0
<1>3. scheduler_tick(st0, until, ctx)
  BY DEF proc_yield
<1> HIDE DEF st0
<1>4. TickEffect(st0, ctx)
  BY <1>1, <1>2, <1>3, Tick DEF IInv
<1>5. EntersTick(st0, ctx)
  BY DEF st0
<1> QED BY <1>1, <1>4, <1>5, TickInv

\* IRQ0 finds idle running and leaves interrupts disabled (isr_stubs.S:99-111).
LEMMA TimerIRQInv == IInv /\ TimerIRQ => IInv'
<1> SUFFICES ASSUME IInv, TimerIRQ PROVE IInv'
  OBVIOUS
<1> DEFINE ctx == Context("irq")
<1>0. current_proc = 0 /\ current_proc \in Slots /\ 0 \in Slots
  BY DEF TimerIRQ, IInv, InterruptsOnlyInIdle, Slots, TypeOK
<1>1. /\ state \in [Slots -> States]
      /\ \A s \in Slots : state[s] = "RUNNING" <=> s = current_proc
  BY DEF IInv, TypeOK, OneRunning
<1>2. ctx \in Contexts /\ ctx.kind = "irq"
  BY DEF Context, Contexts, Kinds
<1>3. TickEffect(state, ctx)
  BY <1>0, <1>1, Tick DEF TimerIRQ, IInv
<1>4. EntersTick(state, ctx)
  <2>1. \A s, z \in Slots :
         ~ /\ state[s] = "BLOCKED" /\ state[z] = "ZOMBIE" /\ ppid[z] = pid[s]
           /\ LET c == IF s = current_proc THEN ctx ELSE esp[s]
              IN  c.arg = -1 \/ pid[z] = c.arg
    BY <1>1 DEF IInv, NoLostWakeup
  <2>2. /\ UNCHANGED <<pid, ppid, next_pid, kmain, page_dir, sleep_until>>
        /\ in_service' \in BOOLEAN /\ intr' = FALSE
    BY DEF TimerIRQ, EnterIRQ, scheduler_tick
  <2>3. kmain # "idle" => \A s \in Slots : state[s] # "BLOCKED"
    BY DEF IInv, Booting
  <2> QED BY <1>0, <1>2, <2>1, <2>2, <2>3 DEF EntersTick, IInv, TypeOK
<1> QED BY <1>1, <1>2, <1>3, <1>4, TickInv

\* The return from the handler enables interrupts in idle and nowhere else.
LEMMA IrqReturnInv == IInv /\ IrqReturn => IInv'
<1> SUFFICES ASSUME IInv, IrqReturn PROVE IInv'
  OBVIOUS
<1>1. /\ current_proc = 0 /\ at' = "run" /\ in_service' = FALSE /\ intr' = TRUE
      /\ UNCHANGED <<state, pid, ppid, sleep_until, page_dir, esp, torn,
                     current_proc, ticks, next_pid, cr3, kmain>>
  BY DEF IrqReturn, table, IInv, SavedContexts
<1>2. TypeOK'
  BY <1>1 DEF IInv, TypeOK, Places
<1>3. OneRunning' /\ UniquePids' /\ NoLostWakeup' /\ PidsIssued' /\ LoadedDir'
  BY <1>1 DEF IInv, OneRunning, UniquePids, NoLostWakeup, PidsIssued, LoadedDir
<1>4. InterruptsOnlyInIdle' /\ ExitNeverReturns' /\ SavedContexts' /\ Booting'
  BY <1>1 DEF IInv, InterruptsOnlyInIdle, ExitNeverReturns, SavedContexts, Booting
<1> QED BY <1>2, <1>3, <1>4 DEF IInv

\* The first half of proc_create_kernel: a slot in use with pid 1 and no stack.
LEMMA CreateReadyInv == IInv /\ CreateReady => IInv'
<1> SUFFICES ASSUME IInv, CreateReady PROVE IInv'
  OBVIOUS
<1> USE DEF IInv
<1>1. PICK s \in Slots :
         /\ alloc_proc(s)
         /\ pid' = [pid EXCEPT ![s] = InitPid]
         /\ ppid' = [ppid EXCEPT ![s] = pid[current_proc]]
         /\ state' = [state EXCEPT ![s] = "READY"]
         /\ sleep_until' = [sleep_until EXCEPT ![s] = 0]
         /\ page_dir' = [page_dir EXCEPT ![s] = NullDir]
         /\ esp' = [esp EXCEPT ![s] = Context("none")]
         /\ torn' = [torn EXCEPT ![s] = FALSE]
  BY DEF CreateReady
<1>2. /\ current_proc = 0 /\ at = "run" /\ kmain = "boot" /\ kmain' = "create"
      /\ UNCHANGED <<current_proc, ticks, next_pid, intr, in_service, cr3, at>>
  BY DEF CreateReady, cpu
<1>3. state[s] = "UNUSED" /\ s # 0 /\ 0 \in Slots
  BY <1>1 DEF alloc_proc, OneRunning, Slots
<1>4. TypeOK'
  <2>1. InitPid \in Pids /\ NullDir \in Dirs /\ Context("none") \in Contexts
    BY DEF Pids, Dirs, Context, Contexts, Kinds
  <2>2. 0 \in 0 .. TickMod - 1
    OBVIOUS
  <2> QED BY <1>1, <1>2, <2>1, <2>2 DEF TypeOK, States
<1>5. OneRunning' /\ LoadedDir' /\ InterruptsOnlyInIdle' /\ ExitNeverReturns'
  BY <1>1, <1>2, <1>3
  DEF TypeOK, OneRunning, LoadedDir, InterruptsOnlyInIdle, ExitNeverReturns
<1>6. UniquePids' /\ PidsIssued'
  BY <1>1, <1>2, <1>3 DEF TypeOK, UniquePids, PidsIssued, InitPid, IdlePid, ForkPid
<1>7. NoLostWakeup'
  BY <1>1, <1>2, <1>3 DEF TypeOK, NoLostWakeup
<1>8. SavedContexts' /\ Booting'
  BY <1>1, <1>2, <1>3 DEF TypeOK, SavedContexts, Booting, Context
<1> QED BY <1>4, <1>5, <1>6, <1>7, <1>8

\* The second half of proc_create_kernel: directory and stack.
LEMMA CreateContextInv == IInv /\ CreateContext => IInv'
<1> SUFFICES ASSUME IInv, CreateContext PROVE IInv'
  OBVIOUS
<1> USE DEF IInv
<1>1. PICK s \in Slots :
         /\ proc_get(InitPid, s)
         /\ page_dir' = [page_dir EXCEPT ![s] = KernelDir]
         /\ esp' = [esp EXCEPT ![s] = Context("entry")]
  BY DEF CreateContext
<1>2. /\ current_proc = 0 /\ at = "run" /\ kmain = "create" /\ kmain' = "idle"
      /\ UNCHANGED <<state, pid, ppid, sleep_until, torn,
                     current_proc, ticks, next_pid, intr, in_service, cr3, at>>
  BY DEF CreateContext, cpu
<1>3. state[s] # "UNUSED" /\ s # 0 /\ 0 \in Slots
  BY <1>1 DEF proc_get, PidsIssued, Slots, InitPid, IdlePid
<1>4. TypeOK'
  <2>1. KernelDir \in Dirs /\ Context("entry") \in Contexts
    BY DEF Dirs, Context, Contexts, Kinds
  <2> QED BY <1>1, <1>2, <2>1 DEF TypeOK
<1>5. OneRunning' /\ LoadedDir' /\ InterruptsOnlyInIdle' /\ ExitNeverReturns'
  BY <1>1, <1>2, <1>3
  DEF TypeOK, OneRunning, LoadedDir, InterruptsOnlyInIdle, ExitNeverReturns
<1>6. UniquePids' /\ PidsIssued'
  BY <1>1, <1>2, <1>3 DEF TypeOK, UniquePids, PidsIssued
<1>7. NoLostWakeup'
  BY <1>2 DEF NoLostWakeup, Booting
<1>8. SavedContexts' /\ Booting'
  BY <1>1, <1>2, <1>3 DEF TypeOK, SavedContexts, Booting, Context
<1> QED BY <1>4, <1>5, <1>6, <1>7, <1>8

\* proc_yield, called by the process itself (proc.c:125-128).
LEMMA YieldCallInv == IInv /\ Yield => IInv'
<1> SUFFICES ASSUME IInv, Yield PROVE IInv'
  OBVIOUS
<1> DEFINE ctx == Context("ret")
           st0 == [state EXCEPT ![current_proc] = IF @ = "RUNNING" THEN "READY" ELSE @]
<1>0. /\ current_proc # 0 /\ current_proc \in Slots /\ 0 \in Slots
      /\ state \in [Slots -> States]
  BY DEF Yield, Thread, IInv, Slots, TypeOK
<1>1. /\ \A s \in Slots : state[s] = "RUNNING" <=> s = current_proc
      /\ state[0] = "READY"
  BY <1>0 DEF IInv, OneRunning
<1>2. ctx \in Contexts /\ ctx.kind = "ret"
  BY DEF Context, Contexts, Kinds
<1>3. EntersTick(st0, ctx)
  <2>1. /\ \A s \in Slots \ {current_proc} : st0[s] = state[s]
        /\ st0[current_proc] = "READY"
    BY <1>0, <1>1
  <2>2. /\ UNCHANGED <<pid, ppid, next_pid, kmain, page_dir, sleep_until, cpu>>
    BY DEF Yield, proc_yield, scheduler_tick
  <2>3. in_service' \in BOOLEAN /\ intr' = FALSE
    BY <1>0, <2>2 DEF cpu, IInv, TypeOK, InterruptsOnlyInIdle
  <2>5. kmain = "idle"
    BY <1>0 DEF Yield, Thread, IInv, Booting
  <2> HIDE DEF st0
  <2> QED BY <2>5, <1>0, <1>1, <1>2, <2>1, <2>2, <2>3 DEF EntersTick, IInv, TypeOK, NoLostWakeup
<1> QED BY <1>0, <1>1, <1>2, <1>3, YieldInv DEF Yield

\* proc_sleep: the sleeper's state and wake-up time, then proc_yield.
LEMMA SleepInv == IInv /\ (\E d \in SleepTicks : proc_sleep(d)) => IInv'
<1> SUFFICES ASSUME IInv, NEW d \in SleepTicks, proc_sleep(d) PROVE IInv'
  OBVIOUS
<1> DEFINE ctx == Context("ret")
           st  == [state EXCEPT ![current_proc] = "SLEEPING"]
           st0 == [st EXCEPT ![current_proc] = IF @ = "RUNNING" THEN "READY" ELSE @]
           until == [sleep_until EXCEPT ![current_proc] = WakeTick(d)]
<1>0. /\ current_proc # 0 /\ current_proc \in Slots /\ 0 \in Slots
      /\ state \in [Slots -> States]
  BY DEF proc_sleep, Thread, IInv, Slots, TypeOK
<1>1. /\ \A s \in Slots : state[s] = "RUNNING" <=> s = current_proc
      /\ state[0] = "READY"
  BY <1>0 DEF IInv, OneRunning
<1>2. ctx \in Contexts /\ ctx.kind = "ret"
  BY DEF Context, Contexts, Kinds
<1>3. st \in [Slots -> States] /\ st[0] = "READY"
      /\ \A s \in Slots \ {current_proc} : st[s] # "RUNNING"
  BY <1>0, <1>1 DEF States
<1>4. EntersTick(st0, ctx)
  <2>1. /\ \A s \in Slots \ {current_proc} : st0[s] = state[s]
        /\ st0[current_proc] = "SLEEPING"
    BY <1>0, <1>1
  <2>2. /\ UNCHANGED <<pid, ppid, next_pid, kmain, page_dir, cpu>>
        /\ sleep_until' = until
    BY DEF proc_sleep, proc_yield, scheduler_tick
  <2>3. in_service' \in BOOLEAN /\ intr' = FALSE
    BY <1>0, <2>2 DEF cpu, IInv, TypeOK, InterruptsOnlyInIdle
  <2>4. sleep_until' \in [Slots -> 0 .. TickMod - 1]
    <3>1. WakeTick(d) \in 0 .. TickMod - 1
      BY DEF WakeTick, IInv, TypeOK
    <3> QED BY <2>2, <3>1 DEF IInv, TypeOK
  <2>5. kmain = "idle"
    BY <1>0 DEF proc_sleep, Thread, IInv, Booting
  <2> HIDE DEF st0
  <2> QED BY <2>5, <1>0, <1>1, <1>2, <2>1, <2>2, <2>3, <2>4 DEF EntersTick, IInv, TypeOK, NoLostWakeup
<1>5. proc_yield(st, until, ctx)
  BY DEF proc_sleep
<1> HIDE DEF st, until
<1> QED BY <1>0, <1>2, <1>3, <1>4, <1>5, YieldInv

\* proc_exit: the zombie is not dispatched again, and the parent it wakes keeps
\* NoLostWakeup.
LEMMA ExitInv == IInv /\ proc_exit => IInv'
<1> SUFFICES ASSUME IInv, proc_exit PROVE IInv'
  OBVIOUS
<1> DEFINE ctx == Context("exit")
           st  == Exited(state)
           st0 == [st EXCEPT ![current_proc] = IF @ = "RUNNING" THEN "READY" ELSE @]
<1>0. /\ current_proc # 0 /\ current_proc \in Slots /\ 0 \in Slots
      /\ state \in [Slots -> States]
  BY DEF proc_exit, Thread, IInv, Slots, TypeOK
<1>1. /\ \A s \in Slots : state[s] = "RUNNING" <=> s = current_proc
      /\ state[0] = "READY"
  BY <1>0 DEF IInv, OneRunning
<1>2. ctx \in Contexts /\ ctx.kind = "exit"
  BY DEF Context, Contexts, Kinds
<1>3. /\ st \in [Slots -> States]
      /\ st[current_proc] = "ZOMBIE"
      /\ \A s \in Slots \ {current_proc} :
            st[s] = IF proc_get(ppid[current_proc], s) /\ state[s] = "BLOCKED"
                    THEN "READY" ELSE state[s]
  BY <1>0 DEF Exited, States
<1>4. st[0] = "READY" /\ \A s \in Slots \ {current_proc} : st[s] # "RUNNING"
  BY <1>0, <1>1, <1>3
<1>5. st0 = st
  BY <1>3
<1>6. /\ UNCHANGED <<pid, ppid, next_pid, kmain, cpu, sleep_until>>
      /\ page_dir' = [page_dir EXCEPT ![current_proc] = KernelDir]
      /\ kmain = "idle" /\ in_service' \in BOOLEAN /\ intr' = FALSE
  BY <1>0 DEF proc_exit, proc_yield, scheduler_tick, cpu, Thread,
              IInv, TypeOK, InterruptsOnlyInIdle, Booting
<1>7. \A s, z \in Slots :
         ~ /\ st[s] = "BLOCKED" /\ st[z] = "ZOMBIE" /\ ppid[z] = pid[s]
           /\ LET c == IF s = current_proc THEN ctx ELSE esp[s]
              IN  c.arg = -1 \/ pid[z] = c.arg
  <2> SUFFICES ASSUME NEW s \in Slots, NEW z \in Slots,
                      st[s] = "BLOCKED", st[z] = "ZOMBIE", ppid[z] = pid[s],
                      LET c == IF s = current_proc THEN ctx ELSE esp[s]
                      IN  c.arg = -1 \/ pid[z] = c.arg
               PROVE FALSE
    OBVIOUS
  <2>1. s # current_proc /\ state[s] = "BLOCKED"
    BY <1>3
  <2>2. CASE z = current_proc
    <3>1. proc_get(ppid[current_proc], s)
      BY <2>1, <2>2 DEF proc_get, IInv, UniquePids, Slots
    <3> QED BY <1>3, <2>1, <3>1
  <2>3. CASE z # current_proc
    <3>1. state[z] = "ZOMBIE"
      BY <1>3, <2>3
    <3> QED BY <2>1, <3>1 DEF IInv, NoLostWakeup
  <2> QED BY <2>2, <2>3
<1>8. EntersTick(st, ctx)
  <2>1. \A s \in Slots : st[s] = "UNUSED" <=> state[s] = "UNUSED"
    BY <1>0, <1>1, <1>3
  <2>2. \A s \in Slots \ {current_proc} : st[s] = "ZOMBIE" <=> state[s] = "ZOMBIE"
    BY <1>3
  <2>3. page_dir' \in [Slots -> Dirs]
    BY <1>6 DEF IInv, TypeOK, Dirs
  <2>4. \A s \in Slots : page_dir'[s] = page_dir[s] \/ (s = current_proc /\ s # 0)
    BY <1>0, <1>6 DEF IInv, TypeOK
  <2>5. sleep_until' \in [Slots -> 0 .. TickMod - 1]
    BY <1>6 DEF IInv, TypeOK
  <2> HIDE DEF st, ctx
  <2> QED BY <1>0, <1>2, <1>3, <1>6, <1>7, <2>1, <2>2, <2>3, <2>4, <2>5 DEF EntersTick
<1>9. proc_yield(st, sleep_until, ctx)
  BY DEF proc_exit
<1> HIDE DEF st
<1> QED BY <1>0, <1>2, <1>3, <1>4, <1>5, <1>8, <1>9, YieldInv

\* One pass of the loop of proc_wait: reaping frees a slot, blocking leaves no
\* zombie behind that would be reaped.
LEMMA WaitPassInv ==
    ASSUME IInv, current_proc # 0, at # "crash", NEW q \in Pids \cup {-1}, WaitPass(q),
           UNCHANGED <<pid, ppid, page_dir, next_pid, cpu, kmain>>
    PROVE  IInv'
<1> DEFINE ctx == WaitContext(q)
           st  == [state EXCEPT ![current_proc] = "BLOCKED"]
           st0 == [st EXCEPT ![current_proc] = IF @ = "RUNNING" THEN "READY" ELSE @]
<1>0. /\ current_proc \in Slots /\ 0 \in Slots
      /\ state \in [Slots -> States]
      /\ kmain = "idle" /\ in_service' \in BOOLEAN /\ intr' = FALSE
  BY DEF IInv, Slots, TypeOK, Booting, InterruptsOnlyInIdle, cpu
<1>1. /\ \A s \in Slots : state[s] = "RUNNING" <=> s = current_proc
      /\ state[0] = "READY"
  BY <1>0 DEF IInv, OneRunning
<1>2. CASE \E z \in Slots :
         /\ Reapable(z, q)
         /\ \A r \in Slots : r < z => ~Reapable(r, q)
         /\ state' = [state EXCEPT ![z] = "UNUSED"]
         /\ at' = "run"
         /\ UNCHANGED <<sleep_until, esp, torn, current_proc, ticks, cr3>>
  <2>1. PICK z \in Slots :
         /\ state[z] = "ZOMBIE"
         /\ state' = [state EXCEPT ![z] = "UNUSED"]
         /\ at' = "run"
         /\ UNCHANGED <<sleep_until, esp, torn, current_proc, ticks, cr3>>
    BY <1>2 DEF Reapable
  <2>2. TypeOK'
    BY <2>1 DEF IInv, TypeOK, States, Places, cpu
  <2>3. OneRunning' /\ LoadedDir' /\ InterruptsOnlyInIdle' /\ ExitNeverReturns'
    BY <1>0, <1>1, <2>1
    DEF IInv, TypeOK, OneRunning, LoadedDir, InterruptsOnlyInIdle, ExitNeverReturns, cpu
  <2>4. UniquePids' /\ PidsIssued' /\ NoLostWakeup'
    BY <1>0, <2>1 DEF IInv, TypeOK, UniquePids, PidsIssued, NoLostWakeup
  <2>5. SavedContexts' /\ Booting'
    BY <1>0, <2>1 DEF IInv, TypeOK, SavedContexts, Booting
  <2> QED BY <2>2, <2>3, <2>4, <2>5 DEF IInv
<1>3. CASE /\ at' = "run"
           /\ UNCHANGED <<state, sleep_until, esp, torn, current_proc, ticks, cr3>>
  <2>1. TypeOK'
    BY <1>3 DEF IInv, TypeOK, Places, cpu
  <2>2. OneRunning' /\ LoadedDir' /\ InterruptsOnlyInIdle' /\ ExitNeverReturns'
    BY <1>0, <1>3
    DEF IInv, OneRunning, LoadedDir, InterruptsOnlyInIdle, ExitNeverReturns, cpu
  <2>3. UniquePids' /\ PidsIssued' /\ NoLostWakeup'
    BY <1>3 DEF IInv, UniquePids, PidsIssued, NoLostWakeup
  <2>4. SavedContexts' /\ Booting'
    BY <1>3 DEF IInv, SavedContexts, Booting
  <2> QED BY <2>1, <2>2, <2>3, <2>4 DEF IInv
<1>4. CASE /\ HasChild
           /\ \A z \in Slots : ~Reapable(z, q)
           /\ proc_yield(st, sleep_until, ctx)
  <2>1. ctx \in Contexts /\ ctx.kind = "wait" /\ ctx.arg = q
    BY DEF WaitContext, Contexts, Kinds
  <2>2. /\ st \in [Slots -> States]
        /\ st[current_proc] = "BLOCKED"
        /\ \A s \in Slots \ {current_proc} : st[s] = state[s]
    BY <1>0 DEF States
  <2>3. st0 = st
    BY <2>2
  <2>4. sleep_until' = sleep_until
    BY <1>4 DEF proc_yield, scheduler_tick
  <2>5. \A s, z \in Slots :
          ~ /\ st[s] = "BLOCKED" /\ st[z] = "ZOMBIE" /\ ppid[z] = pid[s]
            /\ LET c == IF s = current_proc THEN ctx ELSE esp[s]
               IN  c.arg = -1 \/ pid[z] = c.arg
    BY <1>4, <2>1, <2>2 DEF Reapable, IInv, NoLostWakeup
  <2>6. EntersTick(st, ctx)
    <3>1. \A s \in Slots : st[s] = "UNUSED" <=> state[s] = "UNUSED"
      BY <1>0, <1>1, <2>2
    <3> HIDE DEF st, ctx
    <3> QED BY <1>0, <2>1, <2>2, <2>4, <2>5, <3>1 DEF EntersTick, IInv, TypeOK
  <2>7. st[0] = "READY" /\ \A s \in Slots \ {current_proc} : st[s] # "RUNNING"
    BY <1>0, <1>1, <2>2
  <2> HIDE DEF st, ctx
  <2> QED BY <1>4, <2>1, <2>2, <2>3, <2>6, <2>7, YieldInv
<1> QED BY <1>2, <1>3, <1>4 DEF WaitPass

\* proc_wait, on entry and after each wake-up.
LEMMA WaitInv == IInv /\ (WaitAgain \/ \E q \in Pids \cup {-1} : proc_wait(q)) => IInv'
<1>1. ASSUME IInv, WaitAgain PROVE IInv'
  <2>1. current_proc # 0 /\ at # "crash" /\ esp[current_proc].arg \in Pids \cup {-1}
    BY <1>1 DEF WaitAgain, IInv, SavedContexts, TypeOK, Contexts
  <2> QED BY <1>1, <2>1, WaitPassInv DEF WaitAgain
<1>2. ASSUME IInv, NEW q \in Pids \cup {-1}, proc_wait(q) PROVE IInv'
  BY <1>2, WaitPassInv DEF proc_wait, Thread
<1> QED BY <1>1, <1>2

\* proc_kill wakes a blocked or sleeping process and no zombie.
LEMMA KillInv == IInv /\ (\E q \in Pids : proc_kill(q)) => IInv'
<1> SUFFICES ASSUME IInv, NEW q \in Pids, proc_kill(q) PROVE IInv'
  OBVIOUS
<1>1. PICK s \in Slots :
         state' = [state EXCEPT ![s] = IF @ \in Wakeable THEN "READY" ELSE @]
  BY DEF proc_kill
<1>2. /\ current_proc # 0 /\ at = "run"
      /\ UNCHANGED <<pid, ppid, sleep_until, page_dir, esp, torn,
                     current_proc, ticks, next_pid, intr, in_service, cr3, kmain, at>>
  BY DEF proc_kill, Thread, cpu
<1>3. state' \in [Slots -> States]
  BY <1>1 DEF IInv, TypeOK, States
<1>4. \A r \in Slots : state'[r] = state[r]
                       \/ (state[r] \in {"BLOCKED", "SLEEPING"} /\ state'[r] = "READY")
  BY <1>1 DEF IInv, TypeOK, Wakeable
<1>5. TypeOK'
  BY <1>2, <1>3 DEF IInv, TypeOK
<1>6. OneRunning' /\ LoadedDir' /\ InterruptsOnlyInIdle' /\ ExitNeverReturns'
  BY <1>2, <1>4
  DEF IInv, OneRunning, LoadedDir, InterruptsOnlyInIdle, ExitNeverReturns, Slots
<1>7. UniquePids' /\ PidsIssued' /\ NoLostWakeup'
  BY <1>2, <1>4 DEF IInv, UniquePids, PidsIssued, NoLostWakeup
<1>8. SavedContexts' /\ Booting'
  BY <1>2, <1>4 DEF IInv, SavedContexts, Booting
<1> QED BY <1>5, <1>6, <1>7, <1>8 DEF IInv

\* proc_fork: the pid is fresh, and the copied context is no more than its
\* parent's.
LEMMA ForkInv == IInv /\ proc_fork => IInv'
<1> SUFFICES ASSUME IInv, proc_fork PROVE IInv'
  OBVIOUS
<1>1. PICK c \in Slots :
         /\ alloc_proc(c)
         /\ pid' = [pid EXCEPT ![c] = next_pid]
         /\ ppid' = [ppid EXCEPT ![c] = pid[current_proc]]
         /\ state' = [state EXCEPT ![c] = "READY"]
         /\ sleep_until' = [sleep_until EXCEPT ![c] = sleep_until[current_proc]]
         /\ page_dir' = [page_dir EXCEPT ![c] = next_pid]
         /\ esp' = [esp EXCEPT ![c] = esp[current_proc]]
         /\ torn' = [torn EXCEPT ![c] = TRUE]
  BY DEF proc_fork
<1>2. /\ current_proc # 0 /\ at = "run" /\ kmain = "idle"
      /\ next_pid < ForkPid + MaxForks /\ next_pid' = next_pid + 1
      /\ UNCHANGED <<current_proc, ticks, intr, in_service, cr3, kmain, at>>
  BY DEF proc_fork, Thread, PidAfterFork, cpu, IInv, Booting
<1>3. /\ current_proc \in Slots /\ 0 \in Slots /\ current_proc # c /\ c # 0
      /\ state[c] = "UNUSED" /\ state[current_proc] = "RUNNING"
  BY <1>1 DEF alloc_proc, IInv, TypeOK, OneRunning, Slots
<1>4. TypeOK'
  <2>1. /\ next_pid \in ForkPid .. ForkPid + MaxForks
        /\ next_pid' \in ForkPid .. ForkPid + MaxForks
    BY <1>2 DEF IInv, TypeOK, ForkPid
  <2>2. next_pid \in Pids /\ next_pid \in Dirs
    BY <2>1 DEF Pids, Dirs
  <2> QED BY <1>1, <1>2, <1>3, <2>1, <2>2 DEF IInv, TypeOK, States
<1>5. OneRunning' /\ LoadedDir' /\ InterruptsOnlyInIdle' /\ ExitNeverReturns'
  BY <1>1, <1>2, <1>3
  DEF IInv, TypeOK, OneRunning, LoadedDir, InterruptsOnlyInIdle, ExitNeverReturns
<1>6. UniquePids' /\ PidsIssued'
  <2>1. next_pid \in Nat /\ next_pid >= 100
    BY DEF IInv, TypeOK, ForkPid
  <2>2. \A s \in Slots : state[s] # "UNUSED" => pid[s] \in Int /\ pid[s] # next_pid
    <3> SUFFICES ASSUME NEW s \in Slots, state[s] # "UNUSED"
                 PROVE  pid[s] \in Int /\ pid[s] # next_pid
      OBVIOUS
    <3>1. pid[s] \in {0, 1} \/ (pid[s] \in Int /\ pid[s] >= 100)
      BY DEF IInv, TypeOK, Pids, IdlePid, InitPid, ForkPid
    <3> QED BY <2>1, <3>1 DEF IInv, PidsIssued, ForkPid
  <2>3. UniquePids'
    BY <1>1, <1>3, <2>2 DEF IInv, TypeOK, UniquePids
  <2>4. \A s \in Slots : state'[s] # "UNUSED" => pid'[s] = IdlePid <=> s = 0
    BY <1>1, <1>3, <2>1 DEF IInv, TypeOK, PidsIssued, IdlePid
  <2>5. \A s \in Slots : state'[s] # "UNUSED" /\ pid'[s] >= ForkPid => pid'[s] < next_pid'
    BY <1>1, <1>2, <1>3, <2>1, <2>2 DEF IInv, TypeOK, PidsIssued, ForkPid
  <2> QED BY <1>2, <2>3, <2>4, <2>5 DEF PidsIssued
<1>7. NoLostWakeup'
  BY <1>1, <1>2, <1>3 DEF IInv, TypeOK, NoLostWakeup
<1>8. SavedContexts' /\ Booting'
  BY <1>1, <1>2, <1>3 DEF IInv, TypeOK, SavedContexts, Booting
<1> QED BY <1>4, <1>5, <1>6, <1>7, <1>8 DEF IInv

(***************************************************************************)
(* IInv is inductive.                                                      *)
(***************************************************************************)
LEMMA InitIInv == Init => IInv
<1> SUFFICES ASSUME Init PROVE IInv
  OBVIOUS
<1>1. 0 \in Slots /\ 0 \in 0 .. TickMod - 1 /\ ForkPid \in ForkPid .. ForkPid + MaxForks
  BY DEF Slots, ForkPid
<1>2. /\ IdlePid \in Pids /\ KernelDir \in Dirs /\ NullDir \in Dirs
      /\ Context("none") \in Contexts
  BY DEF Pids, Dirs, Context, Contexts, Kinds
<1>3. ticks \in 0 .. TickMod - 1
  BY DEF Init
<1>4. TypeOK
  BY <1>1, <1>2, <1>3 DEF Init, TypeOK, States, Places
<1>5. OneRunning /\ UniquePids /\ NoLostWakeup /\ PidsIssued
  BY <1>1 DEF Init, OneRunning, UniquePids, NoLostWakeup, PidsIssued,
              IdlePid, InitPid, ForkPid
<1>6. InterruptsOnlyInIdle /\ LoadedDir /\ ExitNeverReturns
  BY <1>1 DEF Init, InterruptsOnlyInIdle, LoadedDir, ExitNeverReturns
<1>7. SavedContexts /\ Booting
  BY DEF Init, SavedContexts, Booting, Context
<1> QED BY <1>4, <1>5, <1>6, <1>7 DEF IInv

\* Every step of the kernel preserves the invariant.
LEMMA NextIInv == IInv /\ [Next]_vars => IInv'
<1> SUFFICES ASSUME IInv, [Next]_vars PROVE IInv'
  OBVIOUS
<1>1. CASE TimerIRQ
  BY <1>1, TimerIRQInv
<1>2. CASE IrqReturn
  BY <1>2, IrqReturnInv
<1>3. CASE KernelMain
  BY <1>3, CreateReadyInv, CreateContextInv DEF KernelMain
<1>4. CASE WaitAgain
  BY <1>4, WaitInv
<1>5. CASE ProcCall
  BY <1>5, YieldCallInv, SleepInv, ExitInv, WaitInv, KillInv, ForkInv DEF ProcCall
<1>6. CASE UNCHANGED vars
  BY <1>6 DEF vars, table, cpu, IInv, TypeOK, OneRunning, UniquePids, NoLostWakeup,
              InterruptsOnlyInIdle, LoadedDir, ExitNeverReturns, PidsIssued,
              SavedContexts, Booting
<1> QED BY <1>1, <1>2, <1>3, <1>4, <1>5, <1>6 DEF Next

\* Every reachable state satisfies the inductive invariant.
THEOREM Inductive == Spec => []IInv
<1> QED BY InitIInv, NextIInv, PTL DEF Spec

\* The process table and the CPU always have their types: in particular ticks
\* and sleep_until never leave their 32 bits.
THEOREM TypeCorrect == Spec => []TypeOK
<1>1. IInv => TypeOK
  BY DEF IInv
<1> QED BY <1>1, Inductive, PTL

\* Exactly one process is RUNNING, the current one, and idle is always there to
\* switch to: no call that gives up the CPU ever returns for lack of a process.
THEOREM OneRunningAlways == Spec => []OneRunning
<1>1. IInv => OneRunning
  BY DEF IInv
<1> QED BY <1>1, Inductive, PTL

\* Two slots in use never carry the same pid.
THEOREM PidsUnique == Spec => []UniquePids
<1>1. IInv => UniquePids
  BY DEF IInv
<1> QED BY <1>1, Inductive, PTL

\* A parent blocked in proc_wait has no zombie child it waits for.
THEOREM WakeupNeverLost == Spec => []NoLostWakeup
<1>1. IInv => NoLostWakeup
  BY DEF IInv
<1> QED BY <1>1, Inductive, PTL

\* Only idle runs with interrupts enabled, and with no IRQ0 in service: kernel
\* calls are never interrupted.
THEOREM InterruptsDisciplined == Spec => []InterruptsOnlyInIdle
<1>1. IInv => InterruptsOnlyInIdle
  BY DEF IInv
<1> QED BY <1>1, Inductive, PTL

\* The CPU translates with the directory of the current process after every
\* switch, fork and exit.
THEOREM DirAlwaysLoaded == Spec => []LoadedDir
<1>1. IInv => LoadedDir
  BY DEF IInv
<1> QED BY <1>1, Inductive, PTL

\* The hlt loop behind the proc_yield of proc_exit is never reached.
THEOREM ExitIsFinal == Spec => []ExitNeverReturns
<1>1. IInv => ExitNeverReturns
  BY DEF IInv
<1> QED BY <1>1, Inductive, PTL

-----------------------------------------------------------------------------
(* Round robin.                                                            *)

\* The arithmetic of the scan, (current_proc + i) % MAX_PROCS (proc.c:98).
LEMMA SlotDistance ==
    ASSUME NEW a \in Slots, NEW b \in Slots
    PROVE  (b - a) % MAX_PROCS = IF b >= a THEN b - a ELSE b - a + MAX_PROCS
<1>1. a \in Int /\ b \in Int /\ 0 <= a /\ a < MAX_PROCS /\ 0 <= b /\ b < MAX_PROCS
  BY DEF Slots
<1>2. CASE b >= a
  BY <1>1, <1>2
<1>3. CASE b < a
  BY <1>1, <1>3
<1> QED BY <1>1, <1>2, <1>3

\* A process that stays READY over a dispatch comes strictly closer to its turn.
Closer ==
    current_proc' # current_proc =>
      \A s \in Slots :
         state[s] = "READY" /\ state'[s] = "READY" =>
            (s - current_proc') % MAX_PROCS < (s - current_proc) % MAX_PROCS

\* scheduler_tick takes the nearest READY process, so it passes over none.
LEMMA TickCloser ==
    ASSUME IInv, NEW st \in [Slots -> States], NEW until, NEW ctx,
           scheduler_tick(st, until, ctx),
           \A s \in Slots : state[s] = "READY" => st[s] = "READY"
    PROVE  Closer
<1> DEFINE awake == Wakeup(st, until, (ticks + 1) % TickMod)
<1> SUFFICES ASSUME current_proc' # current_proc, NEW s \in Slots,
                    state[s] = "READY", state'[s] = "READY"
             PROVE  (s - current_proc') % MAX_PROCS < (s - current_proc) % MAX_PROCS
  BY DEF Closer
<1>1. PICK next \in Slots : IsNext(awake, next) /\ SwitchTo(awake, next, ctx)
  BY DEF scheduler_tick
<1>2. current_proc' = next /\ next # current_proc /\ current_proc \in Slots
  BY <1>1 DEF SwitchTo, IsNext, IInv, TypeOK
<1>3. s # current_proc
  BY DEF IInv, OneRunning
<1>4. s # next
  BY <1>1, <1>2 DEF SwitchTo, Wakeup
<1>5. awake[s] = "READY"
  BY DEF Wakeup
<1>6. ScanDist(current_proc, next) <= ScanDist(current_proc, s)
  BY <1>1, <1>3, <1>5 DEF IsNext
<1> HIDE DEF awake
<1>7. /\ (s - next) % MAX_PROCS = IF s >= next THEN s - next ELSE s - next + MAX_PROCS
      /\ (s - current_proc) % MAX_PROCS
           = IF s >= current_proc THEN s - current_proc ELSE s - current_proc + MAX_PROCS
  BY <1>2, SlotDistance
<1>8. s \in Int /\ next \in Int /\ current_proc \in Int
      /\ 0 <= s /\ s < MAX_PROCS /\ 0 <= next /\ next < MAX_PROCS
      /\ 0 <= current_proc /\ current_proc < MAX_PROCS
  BY <1>2 DEF Slots
<1> QED BY <1>2, <1>3, <1>4, <1>6, <1>7, <1>8 DEF ScanDist

\* The same for proc_yield, which only makes its caller READY.
LEMMA YieldCloser ==
    ASSUME IInv, NEW st \in [Slots -> States], NEW until, NEW ctx,
           proc_yield(st, until, ctx),
           \A s \in Slots : state[s] = "READY" => st[s] = "READY"
    PROVE  Closer
<1> DEFINE st0 == [st EXCEPT ![current_proc] = IF @ = "RUNNING" THEN "READY" ELSE @]
<1>1. st0 \in [Slots -> States]
  BY DEF States
<1>2. \A s \in Slots : state[s] = "READY" => st0[s] = "READY"
  OBVIOUS
<1>3. scheduler_tick(st0, until, ctx)
  BY DEF proc_yield
<1> HIDE DEF st0
<1> QED BY <1>1, <1>2, <1>3, TickCloser

\* Every step of the kernel that dispatches a process passes over none.
LEMMA NextCloser == IInv /\ [Next]_vars => Closer
<1> SUFFICES ASSUME IInv, [Next]_vars PROVE Closer
  OBVIOUS
<1>0. /\ state \in [Slots -> States] /\ current_proc \in Slots
      /\ \A s \in Slots : state[s] = "READY" => s # current_proc
  BY DEF IInv, TypeOK, OneRunning
<1>1. CASE TimerIRQ
  BY <1>0, <1>1, TickCloser DEF TimerIRQ
<1>2. CASE IrqReturn \/ KernelMain \/ UNCHANGED vars
          \/ proc_fork \/ \E q \in Pids : proc_kill(q)
  BY <1>2 DEF IrqReturn, KernelMain, CreateReady, CreateContext, vars,
              proc_fork, proc_kill, Closer
<1>3. CASE Yield
  BY <1>0, <1>3, YieldCloser DEF Yield
<1>4. ASSUME NEW d \in SleepTicks, proc_sleep(d) PROVE Closer
  <2> DEFINE st == [state EXCEPT ![current_proc] = "SLEEPING"]
  <2>1. st \in [Slots -> States] /\ \A s \in Slots : state[s] = "READY" => st[s] = "READY"
    BY <1>0 DEF States
  <2>2. proc_yield(st, [sleep_until EXCEPT ![current_proc] = WakeTick(d)], Context("ret"))
    BY <1>4 DEF proc_sleep
  <2> HIDE DEF st
  <2> QED BY <2>1, <2>2, YieldCloser
<1>5. CASE proc_exit
  <2>1. /\ Exited(state) \in [Slots -> States]
        /\ \A s \in Slots : state[s] = "READY" => Exited(state)[s] = "READY"
    BY <1>0 DEF Exited, States
  <2> QED BY <1>5, <2>1, YieldCloser DEF proc_exit
<1>6. ASSUME NEW q, WaitPass(q) PROVE Closer
  <2> DEFINE st == [state EXCEPT ![current_proc] = "BLOCKED"]
  <2>1. st \in [Slots -> States] /\ \A s \in Slots : state[s] = "READY" => st[s] = "READY"
    BY <1>0 DEF States
  <2>2. CASE UNCHANGED current_proc
    BY <2>2 DEF Closer
  <2>3. CASE proc_yield(st, sleep_until, WaitContext(q))
    <3> HIDE DEF st
    <3> QED BY <2>1, <2>3, YieldCloser
  <2> QED BY <1>6, <2>2, <2>3 DEF WaitPass
<1>7. CASE WaitAgain \/ \E q \in Pids \cup {-1} : proc_wait(q)
  BY <1>6, <1>7 DEF WaitAgain, proc_wait
<1> QED BY <1>1, <1>2, <1>3, <1>4, <1>5, <1>7 DEF Next, ProcCall

\* Round robin for any number of processes: every dispatch brings each process
\* that stays READY closer to its turn.
THEOREM RoundRobinAlways == Spec => RoundRobin
<1>1. IInv /\ [Next]_vars => [Closer]_vars
  BY NextCloser
<1> QED BY <1>1, Inductive, PTL DEF Spec, RoundRobin, Closer

-----------------------------------------------------------------------------
(* Saved contexts.                                                         *)

\* Every process that is not running has a context it was suspended with, but
\* for a forked child that still has its parent's and for init while
\* proc_create_kernel is building it.
Resumable ==
    \A s \in Slots :
        s # current_proc /\ state[s] # "UNUSED" /\ esp[s].kind = "none"
           => torn[s] \/ (kmain = "create" /\ pid[s] = InitPid)

\* Only a context that was never saved brings the machine down.
LEMMA ResumesIs ==
    ASSUME NEW c \in Contexts, c.kind # "none"
    PROVE  Resumes(c) # "crash"
<1>1. c.kind \in {"entry", "irq", "ret", "wait", "exit"}
  BY DEF Contexts, Kinds
<1>2. CASE c.kind \in {"entry", "ret"}
  BY <1>2, Zenon DEF Resumes
<1>3. CASE c.kind = "irq"
  BY <1>3, Zenon DEF Resumes
<1>4. CASE c.kind = "wait"
  BY <1>4, Zenon DEF Resumes
<1>5. CASE c.kind = "exit"
  BY <1>5, Zenon DEF Resumes
<1> QED BY <1>1, <1>2, <1>3, <1>4, <1>5

\* A dispatch saves the context of the process it leaves.
LEMMA TickSaves ==
    ASSUME IInv, Resumable, NEW st \in [Slots -> States], NEW until, NEW ctx \in Contexts,
           ctx.kind # "none", scheduler_tick(st, until, ctx),
           \A s \in Slots : st[s] # "UNUSED" => state[s] # "UNUSED",
           UNCHANGED <<kmain, pid>>
    PROVE  /\ Resumable'
           /\ at' = "crash" => torn[current_proc'] \/ kmain = "create"
<1> DEFINE awake == Wakeup(st, until, (ticks + 1) % TickMod)
<1>1. /\ esp \in [Slots -> Contexts] /\ torn \in [Slots -> BOOLEAN] /\ current_proc \in Slots
  BY DEF IInv, TypeOK
<1>2. /\ awake \in [Slots -> States]
      /\ \A s \in Slots : awake[s] # "UNUSED" => state[s] # "UNUSED"
  BY DEF Wakeup, States
<1>3. CASE \E next \in Slots : IsNext(awake, next) /\ SwitchTo(awake, next, ctx)
  <2>1. PICK next \in Slots : IsNext(awake, next) /\ SwitchTo(awake, next, ctx)
    BY <1>3
  <2> HIDE DEF awake
  <2>2. /\ next # current_proc /\ state[next] # "UNUSED" /\ current_proc' = next
        /\ state' = [awake EXCEPT ![current_proc] = Preempted(@), ![next] = "RUNNING"]
        /\ esp' = [esp EXCEPT ![current_proc] = ctx]
        /\ torn' = [torn EXCEPT ![current_proc] = FALSE]
        /\ at' \in Outcomes(next)
    BY <1>2, <2>1 DEF IsNext, SwitchTo
  <2>3. \A s \in Slots \ {current_proc, next} :
           state'[s] = awake[s] /\ esp'[s] = esp[s] /\ torn'[s] = torn[s]
    BY <1>1, <1>2, <2>2
  <2>4. esp'[current_proc] = ctx
    BY <1>1, <2>2
  <2>5. Resumable'
    BY <1>2, <2>2, <2>3, <2>4 DEF Resumable
  <2>6. ASSUME at' = "crash", ~torn[next] PROVE kmain = "create"
    <3>1. Resumes(esp[next]) = "crash"
      BY <2>2, <2>6 DEF Outcomes
    <3>2. esp[next].kind = "none"
      BY <1>1, <3>1, ResumesIs
    <3> QED BY <2>2, <2>6, <3>2 DEF Resumable
  <2> QED BY <2>2, <2>5, <2>6
<1>4. CASE ~\E next \in Slots : IsNext(awake, next) /\ SwitchTo(awake, next, ctx)
  <2>1. /\ state' = awake /\ at' = Resumes(ctx) /\ UNCHANGED <<current_proc, esp, torn>>
    BY <1>4 DEF scheduler_tick
  <2>2. at' # "crash"
    BY <2>1, ResumesIs
  <2>3. Resumable'
    <3> HIDE DEF awake
    <3> QED BY <1>2, <2>1 DEF Resumable
  <2> QED BY <2>2, <2>3
<1> QED BY <1>3, <1>4

\* The same for proc_yield.
LEMMA YieldSaves ==
    ASSUME IInv, Resumable, NEW st \in [Slots -> States], NEW until, NEW ctx \in Contexts,
           ctx.kind # "none", proc_yield(st, until, ctx),
           \A s \in Slots : st[s] # "UNUSED" => state[s] # "UNUSED",
           UNCHANGED <<kmain, pid>>
    PROVE  /\ Resumable'
           /\ at' = "crash" => torn[current_proc'] \/ kmain = "create"
<1> DEFINE st0 == [st EXCEPT ![current_proc] = IF @ = "RUNNING" THEN "READY" ELSE @]
<1>1. /\ st0 \in [Slots -> States]
      /\ \A s \in Slots : st0[s] # "UNUSED" => state[s] # "UNUSED"
  BY DEF States
<1>2. scheduler_tick(st0, until, ctx)
  BY DEF proc_yield
<1> HIDE DEF st0
<1> QED BY <1>1, <1>2, TickSaves

\* What a step does to the saved contexts, and when it takes the machine down.
Switches ==
    Resumable' /\ (Crashed' => Crashed \/ torn[current_proc'] \/ kmain = "create")

\* Every step of a resumable kernel is such a step.
LEMMA NextSaves == IInv /\ Resumable /\ [Next]_vars => Switches
<1> SUFFICES ASSUME IInv, Resumable, [Next]_vars PROVE Switches
  OBVIOUS
<1>0. /\ state \in [Slots -> States] /\ current_proc \in Slots /\ esp \in [Slots -> Contexts]
      /\ pid \in [Slots -> Pids] /\ torn \in [Slots -> BOOLEAN]
      /\ state[current_proc] = "RUNNING"
  BY DEF IInv, TypeOK, OneRunning
<1>1. /\ \A k \in {"irq", "ret", "exit"} : Context(k) \in Contexts /\ Context(k).kind # "none"
      /\ \A q \in Pids \cup {-1} : WaitContext(q) \in Contexts /\ WaitContext(q).kind # "none"
  BY DEF Context, WaitContext, Contexts, Kinds
<1>2. CASE TimerIRQ
  BY <1>0, <1>1, <1>2, TickSaves DEF TimerIRQ, Switches, Crashed
<1>3. CASE IrqReturn
  BY <1>3 DEF IrqReturn, table, Switches, Crashed, Resumable
<1>4. CASE CreateReady
  <2>1. PICK s \in Slots : /\ pid' = [pid EXCEPT ![s] = InitPid]
                           /\ state' = [state EXCEPT ![s] = "READY"]
                           /\ esp' = [esp EXCEPT ![s] = Context("none")]
                           /\ torn' = [torn EXCEPT ![s] = FALSE]
    BY <1>4 DEF CreateReady
  <2>2. /\ kmain = "boot" /\ kmain' = "create"
        /\ at' = at /\ current_proc' = current_proc
    BY <1>4 DEF CreateReady
  <2>3. Resumable'
    BY <1>0, <2>1, <2>2 DEF Resumable
  <2> QED BY <2>2, <2>3 DEF Switches, Crashed
<1>5. CASE CreateContext
  <2>1. PICK s \in Slots : proc_get(InitPid, s) /\ esp' = [esp EXCEPT ![s] = Context("entry")]
    BY <1>5 DEF CreateContext
  <2>2. /\ UNCHANGED <<state, pid, torn, at, current_proc>>
    BY <1>5 DEF CreateContext
  <2>3. \A r \in Slots : state[r] # "UNUSED" /\ pid[r] = InitPid => r = s
    BY <2>1 DEF proc_get, IInv, UniquePids
  <2>4. Context("entry").kind # "none"
    BY DEF Context
  <2>5. Resumable'
    BY <1>0, <2>1, <2>2, <2>3, <2>4 DEF Resumable
  <2> QED BY <2>2, <2>5 DEF Switches, Crashed
<1>6. CASE Yield
  BY <1>0, <1>1, <1>6, YieldSaves DEF Yield, Switches, Crashed
<1>7. ASSUME NEW d \in SleepTicks, proc_sleep(d) PROVE Switches
  <2> DEFINE st == [state EXCEPT ![current_proc] = "SLEEPING"]
             until == [sleep_until EXCEPT ![current_proc] = WakeTick(d)]
  <2>1. st \in [Slots -> States] /\ \A s \in Slots : st[s] # "UNUSED" => state[s] # "UNUSED"
    BY <1>0 DEF States
  <2>2. proc_yield(st, until, Context("ret")) /\ UNCHANGED <<kmain, pid>>
    BY <1>7 DEF proc_sleep
  <2> HIDE DEF st, until
  <2> QED BY <1>1, <2>1, <2>2, YieldSaves DEF Switches, Crashed
<1>8. CASE proc_exit
  <2>1. /\ Exited(state) \in [Slots -> States]
        /\ \A s \in Slots : Exited(state)[s] # "UNUSED" => state[s] # "UNUSED"
    BY <1>0 DEF Exited, States
  <2>2. proc_yield(Exited(state), sleep_until, Context("exit")) /\ UNCHANGED <<kmain, pid>>
    BY <1>8 DEF proc_exit
  <2> QED BY <1>1, <2>1, <2>2, YieldSaves DEF Switches, Crashed
<1>9. ASSUME NEW q \in Pids \cup {-1}, WaitPass(q), UNCHANGED <<kmain, pid>> PROVE Switches
  <2>1. CASE \E z \in Slots : /\ state' = [state EXCEPT ![z] = "UNUSED"] /\ at' = "run"
                              /\ UNCHANGED <<esp, torn, current_proc>>
    BY <1>0, <1>9, <2>1 DEF Resumable, Switches, Crashed
  <2>2. CASE at' = "run" /\ UNCHANGED <<state, esp, torn, current_proc>>
    BY <1>9, <2>2 DEF Resumable, Switches, Crashed
  <2>3. CASE proc_yield([state EXCEPT ![current_proc] = "BLOCKED"], sleep_until, WaitContext(q))
    <3> DEFINE st == [state EXCEPT ![current_proc] = "BLOCKED"]
    <3>1. st \in [Slots -> States] /\ \A s \in Slots : st[s] # "UNUSED" => state[s] # "UNUSED"
      BY <1>0 DEF States
    <3>2. proc_yield(st, sleep_until, WaitContext(q))
      BY <2>3
    <3> HIDE DEF st
    <3> QED BY <1>1, <1>9, <3>1, <3>2, YieldSaves DEF Switches, Crashed
  <2> QED BY <1>9, <2>1, <2>2, <2>3 DEF WaitPass
<1>10. CASE WaitAgain
  <2>1. esp[current_proc].arg \in Pids \cup {-1}
    BY <1>0 DEF Contexts
  <2> QED BY <1>9, <1>10, <2>1 DEF WaitAgain
<1>11. CASE \E q \in Pids \cup {-1} : proc_wait(q)
  BY <1>9, <1>11 DEF proc_wait
<1>12. ASSUME NEW q \in Pids, proc_kill(q) PROVE Switches
  <2>1. PICK s \in Slots : state' = [state EXCEPT ![s] = IF @ \in Wakeable THEN "READY" ELSE @]
    BY <1>12 DEF proc_kill
  <2>2. UNCHANGED <<pid, esp, torn, current_proc, kmain, at>>
    BY <1>12 DEF proc_kill
  <2> QED BY <1>0, <2>1, <2>2 DEF Resumable, Switches, Crashed, Wakeable
<1>13. CASE proc_fork
  <2>1. PICK c \in Slots : /\ alloc_proc(c)
                           /\ pid' = [pid EXCEPT ![c] = next_pid]
                           /\ state' = [state EXCEPT ![c] = "READY"]
                           /\ esp' = [esp EXCEPT ![c] = esp[current_proc]]
                           /\ torn' = [torn EXCEPT ![c] = TRUE]
    BY <1>13 DEF proc_fork
  <2>2. UNCHANGED <<current_proc, kmain, at>>
    BY <1>13 DEF proc_fork
  <2>3. Resumable'
    BY <1>0, <2>1, <2>2 DEF Resumable
  <2> QED BY <2>2, <2>3 DEF Switches, Crashed
<1>14. CASE UNCHANGED vars
  BY <1>14 DEF vars, table, Resumable, Switches, Crashed
<1> QED BY <1>2, <1>3, <1>4, <1>5, <1>6, <1>7, <1>8, <1>10, <1>11, <1>12, <1>13, <1>14
        DEF Next, KernelMain, ProcCall

\* A switch resumes the context its target last saved; only a forked child at
\* its first dispatch and init under construction can take the machine down.
THEOREM SwitchAlwaysResumes == Spec => SwitchResumes
<1>1. Init => Resumable
  BY DEF Init, Resumable
<1>2. IInv /\ Resumable /\ [Next]_vars => Resumable'
  BY NextSaves DEF Switches
<1>3. IInv /\ Resumable /\ [Next]_vars
        => [Crashed' => Crashed \/ torn[current_proc'] \/ kmain = "create"]_vars
  BY NextSaves DEF Switches
<1> QED BY <1>1, <1>2, <1>3, Inductive, PTL DEF Spec, SwitchResumes

-----------------------------------------------------------------------------
(* The process table implements ProcLife.                                  *)

LifeMap   == [p \in Pids |-> LifeOf(p)]
ParentMap == [p \in Pids |-> ParentOf(p)]

\* A pid in use has one slot.
LEMMA SlotIs ==
    ASSUME UniquePids, NEW s \in Slots, state[s] # "UNUSED"
    PROVE  Slot(pid[s]) = {s}
BY DEF UniquePids, Slot

\* What the table shows of the process in a slot, before and after a step.
LEMMA LifeOfSlots ==
    UniquePids => \A s \in Slots : state[s] # "UNUSED" =>
                    /\ LifeOf(pid[s]) = IF state[s] = "ZOMBIE" THEN "zombie" ELSE "alive"
                    /\ ParentOf(pid[s]) = ppid[s]
<1> SUFFICES ASSUME UniquePids, NEW s \in Slots, state[s] # "UNUSED"
             PROVE  /\ LifeOf(pid[s]) = IF state[s] = "ZOMBIE" THEN "zombie" ELSE "alive"
                    /\ ParentOf(pid[s]) = ppid[s]
  OBVIOUS
<1>1. Slot(pid[s]) = {s}
  BY SlotIs
<1> QED BY <1>1 DEF LifeOf, ParentOf

\* The same of the table a step leaves.
LEMMA LifeOfSlotsNext ==
    UniquePids' => \A s \in Slots : state'[s] # "UNUSED" =>
                    /\ LifeOf(pid[s])' = IF state'[s] = "ZOMBIE" THEN "zombie" ELSE "alive"
                    /\ ParentOf(pid[s])' = ppid'[s]
<1>1. (UniquePids => \A s \in Slots : state[s] # "UNUSED" =>
          /\ LifeOf(pid[s]) = IF state[s] = "ZOMBIE" THEN "zombie" ELSE "alive"
          /\ ParentOf(pid[s]) = ppid[s])'
  BY ONLY LifeOfSlots, PTL
<1> QED BY <1>1

\* A pid whose slot keeps its owner keeps its life and its parent.
LEMMA SameLife ==
    ASSUME UniquePids, UniquePids', NEW p,
           \A s \in Slots : pid[s] = p /\ state[s] # "UNUSED"
                              <=> pid'[s] = p /\ state'[s] # "UNUSED",
           \A s \in Slots : pid[s] = p /\ state[s] # "UNUSED"
                              => /\ state[s] = "ZOMBIE" <=> state'[s] = "ZOMBIE"
                                 /\ ppid'[s] = ppid[s],
           Slot(p) = {} => (Unborn(p) <=> Unborn(p)')
    PROVE  LifeOf(p)' = LifeOf(p) /\ ParentOf(p)' = ParentOf(p)
<1>1. Slot(p)' = Slot(p)
  BY DEF Slot
<1>2. CASE Slot(p) = {}
  BY <1>1, <1>2 DEF LifeOf, ParentOf
<1>3. CASE Slot(p) # {}
  <2>1. PICK s \in Slots : pid[s] = p /\ state[s] # "UNUSED"
    BY <1>3 DEF Slot
  <2>2. Slot(p) = {s} /\ Slot(p)' = {s}
    BY <1>1, <2>1, SlotIs
  <2> QED BY <2>1, <2>2 DEF LifeOf, ParentOf
<1> QED BY <1>2, <1>3

\* A step that neither gives nor takes a slot, nor makes or unmakes a zombie,
\* changes nothing that ProcLife shows.
LEMMA SameLives ==
    ASSUME IInv, IInv', UNCHANGED <<pid, ppid, next_pid>>,
           kmain = "boot" <=> kmain' = "boot",
           \A s \in Slots : \A x \in {"UNUSED", "ZOMBIE"} : state'[s] = x <=> state[s] = x
    PROVE  UNCHANGED <<LifeMap, ParentMap>>
<1>1. ASSUME NEW p \in Pids PROVE LifeOf(p)' = LifeOf(p) /\ ParentOf(p)' = ParentOf(p)
  <2>1. Unborn(p) <=> Unborn(p)'
    BY DEF Unborn
  <2>2. UniquePids /\ UniquePids'
    BY DEF IInv
  <2> QED BY <2>1, <2>2, SameLife
<1> QED BY <1>1 DEF LifeMap, ParentMap

\* A dispatch neither gives nor takes a slot, nor makes or unmakes a zombie.
LEMMA TickKeeps ==
    ASSUME current_proc \in Slots, NEW st \in [Slots -> States], NEW until, NEW ctx,
           scheduler_tick(st, until, ctx)
    PROVE  \A s \in Slots : \A x \in {"UNUSED", "ZOMBIE"} : state'[s] = x <=> st[s] = x
<1> DEFINE awake == Wakeup(st, until, (ticks + 1) % TickMod)
<1>1. /\ awake \in [Slots -> States]
      /\ \A s \in Slots : \A x \in {"UNUSED", "ZOMBIE"} : awake[s] = x <=> st[s] = x
  BY DEF Wakeup, States
<1>2. CASE \E next \in Slots : IsNext(awake, next) /\ SwitchTo(awake, next, ctx)
  <2> HIDE DEF awake
  <2>1. PICK next \in Slots : IsNext(awake, next) /\ SwitchTo(awake, next, ctx)
    BY <1>2
  <2>2. /\ awake[next] = "READY" /\ next # current_proc
        /\ state' = [awake EXCEPT ![current_proc] = Preempted(@), ![next] = "RUNNING"]
    BY <2>1 DEF IsNext, SwitchTo
  <2>3. \A s \in Slots : state'[s] = IF s = next THEN "RUNNING"
                                     ELSE IF s = current_proc THEN Preempted(awake[s])
                                     ELSE awake[s]
    BY <1>1, <2>2
  <2> QED BY <1>1, <2>2, <2>3 DEF Preempted
<1>3. CASE ~\E next \in Slots : IsNext(awake, next) /\ SwitchTo(awake, next, ctx)
  BY <1>1, <1>3 DEF scheduler_tick
<1> QED BY <1>2, <1>3

\* Nor does proc_yield.
LEMMA YieldKeeps ==
    ASSUME current_proc \in Slots, NEW st \in [Slots -> States], NEW until, NEW ctx,
           proc_yield(st, until, ctx)
    PROVE  \A s \in Slots : \A x \in {"UNUSED", "ZOMBIE"} : state'[s] = x <=> st[s] = x
<1> DEFINE st0 == [st EXCEPT ![current_proc] = IF @ = "RUNNING" THEN "READY" ELSE @]
<1>1. /\ st0 \in [Slots -> States]
      /\ \A s \in Slots : \A x \in {"UNUSED", "ZOMBIE"} : st0[s] = x <=> st[s] = x
  BY DEF States
<1>2. scheduler_tick(st0, until, ctx)
  BY DEF proc_yield
<1> HIDE DEF st0
<1>3. \A s \in Slots : \A x \in {"UNUSED", "ZOMBIE"} : state'[s] = x <=> st0[s] = x
  BY <1>1, <1>2, TickKeeps
<1> QED BY <1>1, <1>3

\* A step that changes the life of c only.
LEMMA OneLife ==
    ASSUME NEW c \in Pids, NEW x, NEW p, LifeOf(c)' = x, ParentOf(c)' = p,
           \A q \in Pids \ {c} : LifeOf(q)' = LifeOf(q) /\ ParentOf(q)' = ParentOf(q)
    PROVE  /\ LifeMap' = [LifeMap EXCEPT ![c] = x]
           /\ ParentMap' = [ParentMap EXCEPT ![c] = p]
BY DEF LifeMap, ParentMap

\* A new process in slot c, with a pid no process has and none had: both of
\* proc_create_kernel and proc_fork.
LEMMA CreateLife ==
    ASSUME IInv, IInv', NEW c \in Slots, NEW q \in Pids, state[c] = "UNUSED",
           pid' = [pid EXCEPT ![c] = q],
           ppid' = [ppid EXCEPT ![c] = pid[current_proc]],
           state' = [state EXCEPT ![c] = "READY"],
           \A s \in Slots : state[s] # "UNUSED" => pid[s] # q,
           Unborn(q), \A p \in Pids \ {q} : Unborn(p) <=> Unborn(p)'
    PROVE  Life!LifeNext
<1>1. /\ state \in [Slots -> States] /\ current_proc \in Slots /\ UniquePids /\ UniquePids'
      /\ pid \in [Slots -> Pids] /\ ppid \in [Slots -> Pids] /\ state[current_proc] = "RUNNING"
  BY DEF IInv, TypeOK, OneRunning
<1> DEFINE par == pid[current_proc]
<1>2. LifeOf(par) = "alive" /\ par \in Pids
  BY <1>1, LifeOfSlots
<1>3. LifeOf(q) = "unborn"
  BY DEF LifeOf, Slot
<1>4. /\ pid'[c] = q /\ ppid'[c] = par /\ state'[c] = "READY"
      /\ \A s \in Slots \ {c} : pid'[s] = pid[s] /\ ppid'[s] = ppid[s] /\ state'[s] = state[s]
  BY <1>1
<1>5. LifeOf(q)' = "alive" /\ ParentOf(q)' = par
  <2>1. LifeOf(pid[c])' = "alive" /\ ParentOf(pid[c])' = par
    BY <1>1, <1>4, LifeOfSlotsNext
  <2> QED BY <1>4, <2>1
<1>6. ASSUME NEW p \in Pids \ {q} PROVE LifeOf(p)' = LifeOf(p) /\ ParentOf(p)' = ParentOf(p)
  BY <1>1, <1>4, <1>6, SameLife
<1>7. /\ LifeMap' = [LifeMap EXCEPT ![q] = "alive"]
      /\ ParentMap' = [ParentMap EXCEPT ![q] = par]
  BY <1>5, <1>6, OneLife
<1>8. LifeMap[q] = "unborn" /\ LifeMap[par] = "alive" /\ LifeMap'[q] = "alive"
  BY <1>2, <1>3, <1>5 DEF LifeMap
<1>9. Life!Create(par, q)
  BY <1>7, <1>8 DEF Life!Create, LifeMap, ParentMap
<1> QED BY <1>2, <1>8, <1>9 DEF Life!LifeNext, LifeMap

\* proc_create_kernel: idle creates init.
LEMMA CreateReadyLife == IInv /\ IInv' /\ CreateReady => Life!LifeNext
<1> SUFFICES ASSUME IInv, IInv', CreateReady PROVE Life!LifeNext
  OBVIOUS
<1>1. PICK c \in Slots : /\ alloc_proc(c)
                         /\ pid' = [pid EXCEPT ![c] = InitPid]
                         /\ ppid' = [ppid EXCEPT ![c] = pid[current_proc]]
                         /\ state' = [state EXCEPT ![c] = "READY"]
  BY DEF CreateReady
<1>2. kmain = "boot" /\ kmain' = "create" /\ next_pid' = next_pid
  BY DEF CreateReady
<1>3. \A s \in Slots : state[s] # "UNUSED" => pid[s] # InitPid
  BY <1>2 DEF IInv, PidsIssued
<1>4. Unborn(InitPid) /\ \A p \in Pids \ {InitPid} : Unborn(p) <=> Unborn(p)'
  BY <1>2 DEF Unborn
<1>5. state[c] = "UNUSED" /\ InitPid \in Pids
  BY <1>1 DEF alloc_proc, Pids
<1> QED BY <1>1, <1>3, <1>4, <1>5, CreateLife

\* proc_fork: the current process creates one with a pid never used before.
LEMMA ForkLife == IInv /\ IInv' /\ proc_fork => Life!LifeNext
<1> SUFFICES ASSUME IInv, IInv', proc_fork PROVE Life!LifeNext
  OBVIOUS
<1>1. PICK c \in Slots : /\ alloc_proc(c)
                         /\ pid' = [pid EXCEPT ![c] = next_pid]
                         /\ ppid' = [ppid EXCEPT ![c] = pid[current_proc]]
                         /\ state' = [state EXCEPT ![c] = "READY"]
  BY DEF proc_fork
<1>2. /\ next_pid' = next_pid + 1 /\ kmain' = kmain
      /\ next_pid \in ForkPid .. ForkPid + MaxForks /\ MaxForks \in Nat
  BY ProcAssumption DEF proc_fork, PidAfterFork, IInv, TypeOK
<1>3. \A s \in Slots : state[s] # "UNUSED" => pid[s] # next_pid
  BY <1>2 DEF IInv, PidsIssued, ForkPid
<1>4. Unborn(next_pid)
  BY <1>2 DEF Unborn, InitPid, ForkPid
<1>5. \A p \in Pids \ {next_pid} : Unborn(p) <=> Unborn(p)'
  BY <1>2 DEF Unborn, Pids, InitPid, ForkPid, IdlePid
<1>6. state[c] = "UNUSED" /\ next_pid \in Pids
  BY <1>1, <1>2 DEF alloc_proc, Pids
<1> QED BY <1>1, <1>3, <1>4, <1>5, <1>6, CreateLife

\* proc_exit: the current process becomes a zombie, and no other does.
LEMMA ExitLife == IInv /\ IInv' /\ proc_exit => Life!LifeNext
<1> SUFFICES ASSUME IInv, IInv', proc_exit PROVE Life!LifeNext
  OBVIOUS
<1>0. current_proc \in Slots
  BY DEF IInv, TypeOK
<1> PICK c \in Slots : c = current_proc
  BY <1>0
<1>1. /\ state \in [Slots -> States] /\ c = current_proc /\ c \in Slots /\ UniquePids /\ UniquePids'
      /\ pid \in [Slots -> Pids] /\ state[c] = "RUNNING" /\ c # 0
  BY DEF IInv, TypeOK, OneRunning, proc_exit, Thread
<1>2. /\ UNCHANGED <<pid, ppid, next_pid, kmain>>
      /\ proc_yield(Exited(state), sleep_until, Context("exit"))
  BY DEF proc_exit
<1>3. /\ Exited(state) \in [Slots -> States] /\ Exited(state)[c] = "ZOMBIE"
      /\ \A s \in Slots \ {c} : \A x \in {"UNUSED", "ZOMBIE"} :
            Exited(state)[s] = x <=> state[s] = x
  BY <1>1 DEF Exited, States
<1>4. \A s \in Slots : \A x \in {"UNUSED", "ZOMBIE"} : state'[s] = x <=> Exited(state)[s] = x
  BY <1>1, <1>2, <1>3, YieldKeeps
<1>5. /\ state'[c] = "ZOMBIE"
      /\ \A s \in Slots \ {c} : \A x \in {"UNUSED", "ZOMBIE"} : state'[s] = x <=> state[s] = x
  BY <1>1, <1>3, <1>4
<1>6. pid[c] \in Pids /\ pid[c] # IdlePid
  BY <1>1 DEF IInv, PidsIssued
<1> PICK q \in Pids : q = pid[c] /\ q # IdlePid
  BY <1>6
<1>7. LifeOf(q) = "alive" /\ ParentOf(q) = ppid[c]
  BY <1>1, LifeOfSlots
<1>8. LifeOf(q)' = "zombie" /\ ParentOf(q)' = ppid[c]
  <2>1. LifeOf(pid[c])' = "zombie" /\ ParentOf(pid[c])' = ppid[c]
    BY <1>1, <1>2, <1>5, LifeOfSlotsNext
  <2>2. pid'[c] = q
    BY <1>2
  <2> QED BY <2>1, <2>2
<1>9. ASSUME NEW p \in Pids \ {q} PROVE LifeOf(p)' = LifeOf(p) /\ ParentOf(p)' = ParentOf(p)
  <2>1. Unborn(p) <=> Unborn(p)'
    BY <1>2 DEF Unborn
  <2>2. \A s \in Slots : pid[s] = p => s # c
    OBVIOUS
  <2>3. \A s \in Slots : pid[s] = p => /\ pid'[s] = p /\ ppid'[s] = ppid[s]
                                       /\ state[s] = "UNUSED" <=> state'[s] = "UNUSED"
                                       /\ state[s] = "ZOMBIE" <=> state'[s] = "ZOMBIE"
    BY <1>2, <1>5, <2>2
  <2> QED BY <1>1, <1>2, <2>1, <2>3, SameLife
<1>10. /\ LifeMap' = [LifeMap EXCEPT ![q] = "zombie"]
       /\ ParentMap' = [ParentMap EXCEPT ![q] = ppid[c]]
  BY <1>6, <1>8, <1>9, OneLife
<1>11. ParentMap' = ParentMap
  BY <1>6, <1>7, <1>10 DEF ParentMap
<1>12. LifeMap[q] = "alive" /\ LifeMap'[q] = "zombie"
  BY <1>6, <1>7, <1>8 DEF LifeMap
<1>13. Life!Exit(q)
  BY <1>6, <1>10, <1>11, <1>12 DEF Life!Exit, LifeMap, ParentMap
<1> QED BY <1>6, <1>12, <1>13 DEF Life!LifeNext, LifeMap

\* proc_wait: the current process reaps one of its own zombies.
LEMMA ReapLife ==
    ASSUME IInv, IInv', NEW q, NEW z \in Slots, Reapable(z, q),
           state' = [state EXCEPT ![z] = "UNUSED"],
           UNCHANGED <<pid, ppid, next_pid, kmain>>
    PROVE  Life!LifeNext
<1>1. /\ state \in [Slots -> States] /\ current_proc \in Slots /\ UniquePids /\ UniquePids'
      /\ pid \in [Slots -> Pids] /\ state[current_proc] = "RUNNING"
      /\ state[z] = "ZOMBIE" /\ ppid[z] = pid[current_proc]
      /\ next_pid \in ForkPid .. ForkPid + MaxForks /\ MaxForks \in Nat
  BY ProcAssumption DEF IInv, TypeOK, OneRunning, Reapable
<1> PICK c \in Pids : c = pid[z]
  BY <1>1
<1> PICK par \in Pids : par = pid[current_proc]
  BY <1>1
<1>2. c \in Pids /\ par \in Pids
  OBVIOUS
<1>3. LifeOf(c) = "zombie" /\ ParentOf(c) = par /\ LifeOf(par) = "alive"
  BY <1>1, LifeOfSlots
<1>4. Slot(c)' = {}
  <2>1. \A s \in Slots : state'[s] # "UNUSED" => s # z /\ state'[s] = state[s]
    BY <1>1
  <2> QED BY <1>1, <2>1 DEF Slot, UniquePids
<1>5. ~Unborn(c)'
  <2>1. c = InitPid => kmain # "boot"
    BY <1>1 DEF IInv, PidsIssued
  <2>2. c >= ForkPid => c < next_pid
    BY <1>1 DEF IInv, PidsIssued
  <2>3. c # InitPid => ~(c >= next_pid)
    BY <1>1, <1>2, <2>2 DEF Pids, ForkPid, InitPid, IdlePid
  <2> QED BY <2>1, <2>3 DEF Unborn
<1>6. LifeOf(c)' = "reaped" /\ ParentOf(c)' = IdlePid
  BY <1>4, <1>5 DEF LifeOf, ParentOf
<1>7. ASSUME NEW p \in Pids \ {c} PROVE LifeOf(p)' = LifeOf(p) /\ ParentOf(p)' = ParentOf(p)
  <2>1. Unborn(p) <=> Unborn(p)'
    BY DEF Unborn
  <2>2. \A s \in Slots : pid[s] = p => pid'[s] = p /\ ppid'[s] = ppid[s] /\ state'[s] = state[s]
    BY <1>1
  <2> QED BY <1>1, <2>1, <2>2, SameLife
<1>8. /\ LifeMap' = [LifeMap EXCEPT ![c] = "reaped"]
      /\ ParentMap' = [ParentMap EXCEPT ![c] = IdlePid]
  BY <1>2, <1>6, <1>7, OneLife
<1>9. LifeMap[c] = "zombie" /\ LifeMap[par] = "alive" /\ ParentMap[c] = par /\ LifeMap'[c] = "reaped"
  BY <1>2, <1>3, <1>6 DEF LifeMap, ParentMap
<1>10. Life!Reap(par, c)
  BY <1>8, <1>9 DEF Life!Reap, LifeMap, ParentMap
<1> QED BY <1>2, <1>9, <1>10 DEF Life!LifeNext, LifeMap

\* Every pass of proc_wait reaps, or leaves the lives as they are.
LEMMA WaitLife ==
    ASSUME IInv, IInv', NEW q, WaitPass(q), UNCHANGED <<pid, ppid, next_pid, kmain>>
    PROVE  Life!LifeNext \/ UNCHANGED <<LifeMap, ParentMap>>
<1>0. state \in [Slots -> States] /\ current_proc \in Slots /\ state[current_proc] = "RUNNING"
  BY DEF IInv, TypeOK, OneRunning
<1>1. CASE \E z \in Slots : Reapable(z, q) /\ state' = [state EXCEPT ![z] = "UNUSED"]
  BY <1>1, ReapLife
<1>2. CASE state' = state
  BY <1>2, SameLives
<1>3. CASE proc_yield([state EXCEPT ![current_proc] = "BLOCKED"], sleep_until, WaitContext(q))
  <2> DEFINE st == [state EXCEPT ![current_proc] = "BLOCKED"]
  <2>1. /\ st \in [Slots -> States]
        /\ \A s \in Slots : \A x \in {"UNUSED", "ZOMBIE"} : st[s] = x <=> state[s] = x
    BY <1>0 DEF States
  <2>2. proc_yield(st, sleep_until, WaitContext(q))
    BY <1>3
  <2> HIDE DEF st
  <2>3. \A s \in Slots : \A x \in {"UNUSED", "ZOMBIE"} : state'[s] = x <=> st[s] = x
    BY <1>0, <2>1, <2>2, YieldKeeps
  <2>4. \A s \in Slots : \A x \in {"UNUSED", "ZOMBIE"} : state'[s] = x <=> state[s] = x
    BY <2>1, <2>3
  <2> QED BY <2>4, SameLives
<1> QED BY <1>1, <1>2, <1>3 DEF WaitPass

\* Every step of the kernel is a step in the life of one process, or none.
LEMMA LifeStep == IInv /\ [Next]_vars => Life!LifeNext \/ UNCHANGED <<LifeMap, ParentMap>>
<1> SUFFICES ASSUME IInv, [Next]_vars PROVE Life!LifeNext \/ UNCHANGED <<LifeMap, ParentMap>>
  OBVIOUS
<1>0. /\ IInv' /\ state \in [Slots -> States] /\ current_proc \in Slots
      /\ state[current_proc] = "RUNNING"
  BY NextIInv DEF IInv, TypeOK, OneRunning
<1>1. CASE TimerIRQ
  <2>1. \A s \in Slots : \A x \in {"UNUSED", "ZOMBIE"} : state'[s] = x <=> state[s] = x
    BY <1>0, <1>1, TickKeeps DEF TimerIRQ
  <2> QED BY <1>0, <1>1, <2>1, SameLives DEF TimerIRQ
<1>2. CASE IrqReturn
  BY <1>0, <1>2, SameLives DEF IrqReturn, table
<1>3. CASE CreateReady
  BY <1>0, <1>3, CreateReadyLife
<1>4. CASE CreateContext
  BY <1>0, <1>4, SameLives DEF CreateContext
<1>5. CASE Yield
  <2>1. \A s \in Slots : \A x \in {"UNUSED", "ZOMBIE"} : state'[s] = x <=> state[s] = x
    BY <1>0, <1>5, YieldKeeps DEF Yield
  <2> QED BY <1>0, <1>5, <2>1, SameLives DEF Yield
<1>6. ASSUME NEW d \in SleepTicks, proc_sleep(d) PROVE UNCHANGED <<LifeMap, ParentMap>>
  <2> DEFINE st == [state EXCEPT ![current_proc] = "SLEEPING"]
             until == [sleep_until EXCEPT ![current_proc] = WakeTick(d)]
  <2>1. /\ st \in [Slots -> States]
        /\ \A s \in Slots : \A x \in {"UNUSED", "ZOMBIE"} : st[s] = x <=> state[s] = x
    BY <1>0 DEF States
  <2>2. proc_yield(st, until, Context("ret")) /\ UNCHANGED <<pid, ppid, next_pid, kmain>>
    BY <1>6 DEF proc_sleep
  <2> HIDE DEF st, until
  <2>3. \A s \in Slots : \A x \in {"UNUSED", "ZOMBIE"} : state'[s] = x <=> st[s] = x
    BY <1>0, <2>1, <2>2, YieldKeeps
  <2>4. \A s \in Slots : \A x \in {"UNUSED", "ZOMBIE"} : state'[s] = x <=> state[s] = x
    BY <2>1, <2>3
  <2> QED BY <1>0, <2>2, <2>4, SameLives
<1>7. CASE proc_exit
  BY <1>0, <1>7, ExitLife
<1>8. CASE WaitAgain \/ \E q \in Pids \cup {-1} : proc_wait(q)
  BY <1>0, <1>8, WaitLife DEF WaitAgain, proc_wait
<1>9. ASSUME NEW q \in Pids, proc_kill(q) PROVE UNCHANGED <<LifeMap, ParentMap>>
  <2>1. PICK s \in Slots : state' = [state EXCEPT ![s] = IF @ \in Wakeable THEN "READY" ELSE @]
    BY <1>9 DEF proc_kill
  <2>2. \A r \in Slots : \A x \in {"UNUSED", "ZOMBIE"} : state'[r] = x <=> state[r] = x
    BY <1>0, <2>1 DEF Wakeable
  <2> QED BY <1>0, <1>9, <2>2, SameLives DEF proc_kill
<1>10. CASE proc_fork
  BY <1>0, <1>10, ForkLife
<1>11. CASE UNCHANGED vars
  BY <1>0, <1>11, SameLives DEF vars, table
<1> QED BY <1>1, <1>2, <1>3, <1>4, <1>5, <1>6, <1>7, <1>8, <1>9, <1>10, <1>11
        DEF Next, KernelMain, ProcCall

\* The process table keeps the promise of ProcLife for any number of slots and
\* forks: every process is created once, exits once and is reaped once, by its
\* parent.
THEOREM TableImplementsLife == Spec => ImplementsLife
<1>1. Init => Life!LifeInit
  <2> SUFFICES ASSUME Init PROVE Life!LifeInit
    OBVIOUS
  <2>1. 0 \in Slots
    BY ProcAssumption DEF Slots
  <2>2. Slot(IdlePid) = {0} /\ \A p \in Pids \ {IdlePid} : Slot(p) = {}
    BY <2>1 DEF Init, Slot
  <2>3. LifeOf(IdlePid) = "alive" /\ ParentOf(IdlePid) = IdlePid
    BY <2>1, <2>2 DEF Init, LifeOf, ParentOf
  <2>4. \A p \in Pids \ {IdlePid} : Unborn(p)
    BY ProcAssumption DEF Init, Unborn, Pids, InitPid, ForkPid, IdlePid
  <2>5. \A p \in Pids \ {IdlePid} : LifeOf(p) = "unborn" /\ ParentOf(p) = IdlePid
    BY <2>2, <2>4 DEF LifeOf, ParentOf
  <2> QED BY <2>3, <2>5 DEF Life!LifeInit
<1>2. IInv /\ [Next]_vars => [Life!LifeNext]_<<LifeMap, ParentMap>>
  BY LifeStep
<1> QED BY <1>1, <1>2, Inductive, PTL DEF Spec, ImplementsLife, Life!LifeSpec, LifeMap, ParentMap
=============================================================================
