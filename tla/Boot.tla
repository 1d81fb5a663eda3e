------------------------------- MODULE Boot -------------------------------
(***************************************************************************)
(* The start of the kernel up to the first dispatch of init: kernel_main   *)
(* (kernel/main.c) with idt_init, pic_remap and ps2_init (kernel/idt.c),   *)
(* and the interrupts of the timer and the keyboard through irq_handler    *)
(* (drivers/irq.c), which may come between any two accesses to the         *)
(* hardware once idt_init has executed sti.                                *)
(*                                                                         *)
(* The hardware is modelled as the code uses it.  The keyboard controller  *)
(* has one output buffer, which holds a byte of the keyboard or the answer *)
(* to a command; a byte entering it raises IRQ1 if the command byte says   *)
(* so, and the interrupt controller remembers the rise until the CPU takes *)
(* it.  Reading the data port of an empty buffer gives the last byte again.*)
(*                                                                         *)
(* Abstracted: which key it is; the command byte but for its interrupt bit *)
(* and for whether it is the one the firmware left; the tick counter; the  *)
(* steps of kernel_main that touch none of this.                           *)
(***************************************************************************)
EXTENDS Integers, Sequences

CONSTANT MaxQueue     \* BOUND: the bytes the keyboard holds back

ASSUME BootAssumption == MaxQueue \in Nat \ {0}

VARIABLES
    step,        \* the next step of kernel_main and what it calls
    status,      \* the local variable of ps2_init
    gates,       \* the vectors whose gate is set
    idtr,        \* the gates the CPU uses: lidt was executed
    intr,        \* EFLAGS.IF
    pic_base,    \* the vector of IRQ0
    pic_mask,    \* the masked interrupt requests
    irr,         \* IRQ1 was raised and not yet taken
    full, data,  \* the output buffer of the controller, its last byte
    answering,   \* the answer to a command waits for the buffer
    config,      \* the command byte: [irq, kept]
    queue,       \* the bytes the keyboard has not yet sent
    raced        \* history: a byte of the keyboard came while ps2_init was
                 \* reading the command byte

cpu     == <<gates, idtr, intr, pic_base, pic_mask>>
port    == <<irr, full, data, answering>>
vars    == <<step, status, cpu, port, config, queue, raced>>

Bytes   == {"key", "ack", "config"}
Configs == [irq : BOOLEAN, kept : BOOLEAN]

Steps == <<"gates", "pic_remap", "lidt", "sti", "flush", "drain", "ask", "answer",
           "enable", "activate", "rest", "create", "ready", "idle">>

\* Where the machine is when kernel_main no longer runs: in init, in the handler of
\* an exception, or anywhere, after a switch to a process without a stack.
Gone == {"init", "crash", "lost"}

TypeOK ==
    /\ step \in {Steps[i] : i \in DOMAIN Steps} \cup Gone
    /\ status \in {"none", "config", "junk"}
    /\ gates \subseteq 0 .. 255 /\ idtr \in BOOLEAN /\ intr \in BOOLEAN
    /\ pic_base \in {8, 32} /\ pic_mask \subseteq 0 .. 15
    /\ {irr, full, answering, raced} \subseteq BOOLEAN
    /\ data \in Bytes /\ config \in Configs
    /\ queue \in Seq({"key", "ack"}) /\ Len(queue) <= MaxQueue + 1

\* What the firmware and the loader leave: interrupts disabled, the controllers
\* in use before, perhaps a key typed by then.
Init ==
    /\ step = "gates" /\ status = "none"
    /\ gates = {} /\ idtr = FALSE /\ intr = FALSE
    /\ pic_base = 8 /\ pic_mask = {}
    /\ full \in BOOLEAN /\ irr \in BOOLEAN /\ (irr => full)
    /\ data = "key" /\ answering = FALSE
    /\ config \in {[irq |-> b, kept |-> TRUE] : b \in BOOLEAN}
    /\ queue = <<>> /\ raced = FALSE

-----------------------------------------------------------------------------
(* The keyboard and its controller.                                        *)

\* Between the test that found the buffer empty and the read of the answer.
Asking == step \in {"ask", "answer"}

KeyTyped ==
    /\ Len(queue) < MaxQueue
    /\ queue' = Append(queue, "key")
    /\ UNCHANGED <<step, status, cpu, port, config, raced>>

\* A byte of the keyboard enters the empty buffer.
Send ==
    /\ ~full /\ ~answering /\ queue # <<>>
    /\ full' = TRUE /\ data' = Head(queue) /\ queue' = Tail(queue)
    /\ irr' = (irr \/ config.irq)
    /\ raced' = (raced \/ Asking)
    /\ UNCHANGED <<step, status, cpu, answering, config>>

\* inb(0x60): empties the buffer, the answer of the controller follows.  IRQ1
\* falls; a rise the CPU has not taken may be withdrawn with it.
ReadPort(pending) ==
    /\ full' = answering /\ answering' = FALSE
    /\ data' = IF answering THEN "config" ELSE data
    /\ irr' = (pending \/ (answering /\ config.irq))

-----------------------------------------------------------------------------
(* The interrupts: irq_handler, scheduler_tick or keyboard_handler,        *)
(* pic_eoi, iret.                                                          *)

\* IRQ n has a gate, and not that of an exception, whose handler halts.
Handled(n) == idtr /\ pic_base + n \in gates \ 0 .. 31

\* Where scheduler_tick leaves the CPU.  Without a READY process it only counts,
\* also before proc_init, with current_proc NULL (module Proc, Init); init is
\* READY before it has a stack, and the switch to it is the end of kernel_main.
Ticked ==
    CASE step = "create" -> "lost"
      [] step \in {"ready", "idle"} -> "init"
      [] OTHER -> step

\* A process dispatched from the handler runs with IF clear, and no EOI is sent.
IRQ0 ==
    /\ intr /\ 0 \notin pic_mask
    /\ step' = IF Handled(0) THEN Ticked ELSE "crash"
    /\ intr' = (step' = step)
    /\ UNCHANGED <<status, gates, idtr, pic_base, pic_mask, port, config, queue, raced>>

IRQ1 ==
    /\ intr /\ irr /\ 1 \notin pic_mask
    /\ IF Handled(1) THEN ReadPort(FALSE) /\ UNCHANGED <<step, intr>>
                     ELSE step' = "crash" /\ intr' = FALSE /\ UNCHANGED port
    /\ UNCHANGED <<status, gates, idtr, pic_base, pic_mask, config, queue, raced>>

-----------------------------------------------------------------------------
(* kernel_main and idt_init.                                               *)

Goto(from, to) == step = from /\ step' = to

\* The idt_set_gate calls: exceptions, interrupt requests, the system call.
Gates_NoIrqs == 0 .. 19 \cup {128}
Gates == 0 .. 19 \cup 32 .. 47 \cup {128}

SetGates ==
    /\ Goto("gates", "pic_remap")
    /\ gates' = Gates
    /\ UNCHANGED <<status, idtr, intr, pic_base, pic_mask, port, config, queue, raced>>

\* The initialisation forgets a request whose line rose before it.
pic_remap ==
    /\ Goto("pic_remap", "lidt")
    /\ pic_base' = 32 /\ pic_mask' = 2 .. 15
    /\ irr' = FALSE
    /\ UNCHANGED <<status, gates, idtr, intr, full, data, answering, config, queue, raced>>

LoadIdt ==
    /\ Goto("lidt", "sti") /\ idtr' = TRUE
    /\ UNCHANGED <<status, gates, intr, pic_base, pic_mask, port, config, queue, raced>>

EnableInterrupts ==
    /\ Goto("sti", "flush") /\ intr' = TRUE
    /\ UNCHANGED <<status, gates, idtr, pic_base, pic_mask, port, config, queue, raced>>

\* ps2_flush_output: while (inb(0x64) & 1) inb(0x60).
Flush ==
    /\ step = "flush" /\ step' = IF full THEN "drain" ELSE "ask"
    /\ UNCHANGED <<status, cpu, port, config, queue, raced>>

Drain ==
    /\ Goto("drain", "flush")
    /\ \E pending \in {irr, FALSE} : ReadPort(pending)
    /\ UNCHANGED <<status, cpu, config, queue, raced>>

\* outb(0x64, 0x20): the controller answers with the command byte.
AskConfig ==
    /\ Goto("ask", "answer")
    /\ IF full THEN answering' = TRUE /\ UNCHANGED <<irr, full, data>>
       ELSE /\ full' = TRUE /\ data' = "config" /\ irr' = (irr \/ config.irq)
            /\ UNCHANGED answering
    /\ UNCHANGED <<status, cpu, config, queue, raced>>

\* status = inb(0x60), whatever byte that is.
ReadStatus ==
    /\ Goto("answer", "enable")
    /\ status' = IF data = "config" THEN "config" ELSE "junk"
    /\ \E pending \in {irr, FALSE} : ReadPort(pending)
    /\ UNCHANGED <<cpu, config, queue, raced>>

\* status |= 1, outb(0x64, 0x60), outb(0x60, status).  A byte that waits in the
\* buffer raises the line when its interrupt gets enabled.
WriteConfig_Blind ==
    /\ Goto("enable", "activate")
    /\ config' = [irq |-> TRUE, kept |-> FALSE]
    /\ irr' = (irr \/ (full /\ ~config.irq))
    /\ UNCHANGED <<status, cpu, full, data, answering, queue, raced>>
WriteConfig_NoInterrupt ==
    /\ Goto("enable", "activate")
    /\ config' = [irq |-> config.irq, kept |-> status = "config"]
    /\ UNCHANGED <<status, cpu, port, queue, raced>>
WriteConfig ==
    /\ Goto("enable", "activate")
    /\ config' = [irq |-> TRUE, kept |-> status = "config"]
    /\ irr' = (irr \/ (full /\ ~config.irq))
    /\ UNCHANGED <<status, cpu, full, data, answering, queue, raced>>

\* outb(0x60, 0xF4): the keyboard acknowledges.
Activate ==
    /\ Goto("activate", "rest")
    /\ queue' = Append(queue, "ack")
    /\ UNCHANGED <<status, cpu, port, config, raced>>

\* pmm_init ... proc_init, and proc_create_kernel until init is READY ...
CreateReady ==
    /\ Goto("rest", "create")
    /\ UNCHANGED <<status, cpu, port, config, queue, raced>>

\* ... and has its stack and its directory.
CreateContext ==
    /\ Goto("create", "ready")
    /\ UNCHANGED <<status, cpu, port, config, queue, raced>>

\* sti, although IF is set since idt_init, and the idle loop.
IdleLoop ==
    /\ Goto("ready", "idle") /\ intr' = TRUE
    /\ UNCHANGED <<status, gates, idtr, pic_base, pic_mask, port, config, queue, raced>>

kernel_main ==
    \/ SetGates \/ pic_remap \/ LoadIdt \/ EnableInterrupts \/ Flush \/ Drain
    \/ AskConfig \/ ReadStatus \/ WriteConfig \/ Activate
    \/ CreateReady \/ CreateContext \/ IdleLoop

Next == KeyTyped \/ Send \/ IRQ0 \/ IRQ1 \/ kernel_main

Spec == Init /\ [][Next]_vars

\* The CPU executes and takes its interrupts, and the timer keeps raising its own.
Fairness == WF_vars(kernel_main) /\ WF_vars(IRQ0) /\ WF_vars(IRQ1)
FairSpec == Spec /\ Fairness

-----------------------------------------------------------------------------
(* Properties.                                                             *)

\* ps2_init only adds the interrupt bit to the command byte (idt.c:59-68): the
\* byte it writes back is the one it read, unless the keyboard sent one between
\* the two, for idt_init enables interrupts first.
ConfigKept == TypeOK /\ (config.kept \/ raced)

\* The boot reaches init once the keyboard pauses: the flush ends, though keys
\* arrive in it, and every interrupt on the way finds its gate (idt.c:36-54,
\* 81-126).  It does not if the timer comes while proc_create_kernel is still
\* building the stack of init, which is READY by then (proc.c:63-76).
BootCompletes == <>[](queue = <<>>) => <>(step \in {"init", "lost"})

\* Once ps2_init has written the command byte, no byte of the keyboard waits
\* without an interrupt that announces it, whether it came before the interrupt
\* controller was set up, during the flush or while its interrupt was disabled
\* (idt.c:52-71): the next time interrupts are enabled it is taken over.
\* (Once init was dispatched that time does not come, see Proc.)
KeysSignalled ==
    step \in {"activate", "rest", "create", "ready", "idle", "init"} /\ full =>
        irr /\ 1 \notin pic_mask /\ Handled(1)
=============================================================================
