----------------------------- MODULE BootProofs -----------------------------
(***************************************************************************)
(* Theorems about module Boot, for every number of keys that may wait.     *)
(*                                                                         *)
(* ConfigKept is not inductive: that the byte ps2_init reads is the answer *)
(* to its question depends on the flush before it.  Answered says what     *)
(* ps2_init knows at each of its steps as long as no byte of the keyboard  *)
(* came in between, and Acked that the keyboard's acknowledgement finds    *)
(* room behind the keys.  Prepared and Signalled are what interrupts meet  *)
(* and what raises them at each step.                                      *)
(***************************************************************************)
EXTENDS Boot, TLAPS

\* The steps before the controller was asked, and before the keyboard was.
Unasked == {"gates", "pic_remap", "lidt", "sti", "flush", "drain", "ask"}
Unacked == Unasked \cup {"answer", "enable", "activate"}

\* Unless the keyboard sent a byte after the flush, the buffer is empty when the
\* controller is asked, its answer is what is read, and that is written back.
Answered ==
    /\ step \in Unasked => ~answering
    /\ ~raced => /\ step = "ask" => ~full
                 /\ step = "answer" => data = "config" /\ ~answering
                 /\ step = "enable" => status = "config"
                 /\ config.kept

Acked == step \in Unacked => Len(queue) <= MaxQueue

IInv == TypeOK /\ Answered /\ Acked

-----------------------------------------------------------------------------

StepSet == Unacked \cup {"rest", "create", "ready", "idle", "init", "crash", "lost"}

\* The steps of kernel_main by their names.
LEMMA StepsAre == {Steps[i] : i \in DOMAIN Steps} \cup Gone = StepSet
BY DEF Steps, StepSet, Unacked, Unasked, Gone

\* The type invariant, with the steps by their names.
Typed ==
    /\ step \in StepSet
    /\ status \in {"none", "config", "junk"}
    /\ gates \subseteq 0 .. 255 /\ idtr \in BOOLEAN /\ intr \in BOOLEAN
    /\ pic_base \in {8, 32} /\ pic_mask \subseteq 0 .. 15
    /\ irr \in BOOLEAN /\ full \in BOOLEAN /\ answering \in BOOLEAN /\ raced \in BOOLEAN
    /\ data \in Bytes /\ config \in Configs
    /\ queue \in Seq({"key", "ack"}) /\ Len(queue) <= MaxQueue + 1

\* Typed says what the type invariant says.
LEMMA TypeIs == TypeOK <=> Typed
BY StepsAre DEF TypeOK, Typed

\* The same of the state a step leaves.
LEMMA TypeIsNext == TypeOK' <=> Typed'
<1>1. (TypeOK <=> Typed)'
  BY ONLY TypeIs, PTL
<1> QED BY <1>1

\* The machine the loader leaves.
LEMMA InitIInv == Init => IInv
<1> SUFFICES ASSUME Init PROVE IInv
  OBVIOUS
<1>1. TypeOK
  <2>1. step \in StepSet
    BY DEF Init, StepSet, Unacked, Unasked
  <2>2. queue \in Seq({"key", "ack"}) /\ Len(queue) <= MaxQueue + 1
    BY BootAssumption DEF Init
  <2>3. PICK b \in BOOLEAN : config = [irq |-> b, kept |-> TRUE]
    BY DEF Init
  <2>4. config \in Configs
    BY <2>3 DEF Configs
  <2>5. Typed
    BY <2>1, <2>2, <2>4 DEF Init, Typed, Bytes
  <2> QED BY <2>5, TypeIs
<1>2. Answered
  BY DEF Init, Answered
<1>3. Acked
  BY BootAssumption DEF Init, Acked
<1> QED BY <1>1, <1>2, <1>3 DEF IInv

\* The steps of kernel_main that do not use the keyboard controller.
Straight ==
    \/ SetGates \/ pic_remap \/ LoadIdt \/ EnableInterrupts
    \/ CreateReady \/ CreateContext \/ IdleLoop

\* Every step of the hardware and of kernel_main keeps the invariant.
LEMMA NextIInv == IInv /\ [Next]_vars => IInv'
<1> SUFFICES ASSUME IInv, [Next]_vars PROVE IInv'
  OBVIOUS
<1>0. /\ Typed /\ Answered /\ Acked /\ step \in StepSet /\ MaxQueue \in Nat
      /\ queue \in Seq({"key", "ack"})
  BY TypeIs, BootAssumption DEF IInv, Typed
<1>1. CASE KeyTyped
  <2>1. queue' \in Seq({"key", "ack"}) /\ Len(queue') = Len(queue) + 1 /\ Len(queue) < MaxQueue
    BY <1>0, <1>1 DEF KeyTyped
  <2> QED BY <1>0, <1>1, <2>1, TypeIsNext DEF KeyTyped, cpu, port, IInv, Typed, Answered, Acked
<1>2. CASE Send
  <2>1. /\ queue' \in Seq({"key", "ack"}) /\ Len(queue') = Len(queue) - 1
        /\ Head(queue) \in {"key", "ack"}
    BY <1>0, <1>2 DEF Send
  <2>2. TypeOK'
    BY <1>0, <1>2, <2>1, TypeIsNext DEF Send, cpu, Typed, Bytes, Configs
  <2>3. Answered'
    BY <1>0, <1>2 DEF Send, cpu, Answered, Asking, Unasked, Typed
  <2>4. Acked'
    BY <1>0, <1>2, <2>1 DEF Send, Acked
  <2> QED BY <2>2, <2>3, <2>4 DEF IInv
<1>3. CASE IRQ1
  <2>1. config.irq \in BOOLEAN
    BY <1>0 DEF Typed, Configs
  <2>3. TypeOK'
    <3>1. UNCHANGED <<status, gates, idtr, pic_base, pic_mask, config, queue, raced>>
      BY <1>3 DEF IRQ1
    <3>2. step' \in StepSet /\ data' \in Bytes
      BY <1>0, <1>3 DEF IRQ1, ReadPort, port, Typed, Bytes, StepSet
    <3>3. /\ irr' \in BOOLEAN /\ full' \in BOOLEAN /\ answering' \in BOOLEAN
          /\ intr' \in BOOLEAN
      BY <1>0, <1>3, <2>1 DEF IRQ1, ReadPort, port, Typed
    <3>4. Typed'
      BY <1>0, <3>1, <3>2, <3>3 DEF Typed
    <3> QED BY <3>4, TypeIsNext
  <2>4. Acked'
    BY <1>0, <1>3 DEF IRQ1, Acked, Unacked, Unasked
  <2>2. Answered'
    BY <1>0, <1>3 DEF IRQ1, ReadPort, port, Answered, Unasked
  <2> QED BY <2>2, <2>3, <2>4 DEF IInv
<1>12. CASE IRQ0
  <2>1. /\ step' \in {step, "init", "crash", "lost"} /\ intr' \in BOOLEAN
        /\ UNCHANGED <<status, gates, idtr, pic_base, pic_mask, port, config, queue, raced>>
    BY <1>12 DEF IRQ0, Ticked
  <2>2. step' \in StepSet
    BY <1>0, <2>1 DEF StepSet
  <2>3. TypeOK'
    BY <1>0, <2>1, <2>2, TypeIsNext DEF port, Typed
  <2>4. Answered' /\ Acked'
    BY <1>0, <2>1 DEF port, Answered, Acked, Unacked, Unasked
  <2> QED BY <2>3, <2>4 DEF IInv
<1>4. CASE Straight
  <2>1. step' \in StepSet /\ step' \notin {"ask", "answer", "enable"}
    BY <1>4 DEF Straight, SetGates, pic_remap, LoadIdt, EnableInterrupts, CreateReady,
               CreateContext, IdleLoop, Goto, StepSet, Unacked, Unasked
  <2>2. Acked'
    BY <1>0, <1>4 DEF Straight, SetGates, pic_remap, LoadIdt, EnableInterrupts, CreateReady,
                    CreateContext, IdleLoop, Goto, Acked, Unacked, Unasked
  <2>3. TypeOK'
    <3>1. /\ UNCHANGED <<status, full, answering, raced, data, config, queue>>
      BY <1>4 DEF Straight, SetGates, pic_remap, LoadIdt, EnableInterrupts, CreateReady,
               CreateContext, IdleLoop, port
    <3>5. irr' \in BOOLEAN /\ intr' \in BOOLEAN /\ idtr' \in BOOLEAN
      BY <1>0, <1>4 DEF Straight, SetGates, pic_remap, LoadIdt, EnableInterrupts, CreateReady,
                    CreateContext, IdleLoop, port, cpu, Typed
    <3>2. /\ gates' = gates \/ gates' = Gates
          /\ pic_base' \in {pic_base, 32} /\ (pic_mask' = pic_mask \/ pic_mask' = 2 .. 15)
      BY <1>4 DEF Straight, SetGates, pic_remap, LoadIdt, EnableInterrupts, CreateReady,
               CreateContext, IdleLoop, cpu
    <3>3. Gates \subseteq 0 .. 255 /\ 2 .. 15 \subseteq 0 .. 15
      BY DEF Gates
    <3>4. Typed'
      <4>1. gates' \subseteq 0 .. 255
        <5>1. gates \subseteq 0 .. 255
          BY <1>0 DEF Typed
        <5>2. CASE gates' = gates
          BY <5>1, <5>2
        <5>3. CASE gates' = Gates
          BY <3>3, <5>3
        <5> QED BY <3>2, <5>2, <5>3
      <4>2. pic_base' \in {8, 32}
        BY <1>0, <3>2, Zenon DEF Typed
      <4>3. pic_mask' \subseteq 0 .. 15
        <5>1. pic_mask \subseteq 0 .. 15
          BY <1>0 DEF Typed
        <5>2. CASE pic_mask' = pic_mask
          BY <5>1, <5>2
        <5>3. CASE pic_mask' = 2 .. 15
          BY <3>3, <5>3
        <5> QED BY <3>2, <5>2, <5>3
      <4> QED BY <1>0, <2>1, <3>1, <3>5, <4>1, <4>2, <4>3 DEF Typed
    <3> QED BY <3>4, TypeIsNext
  <2>4. Answered'
    BY <1>0, <1>4, <2>1
       DEF Straight, SetGates, pic_remap, LoadIdt, EnableInterrupts, CreateReady,
           CreateContext, IdleLoop, Goto, port, Answered, Unasked
  <2> QED BY <2>2, <2>3, <2>4 DEF IInv
<1>5. CASE Flush
  <2>1. step = "flush" /\ step' \in {"drain", "ask"} /\ (step' = "ask" => ~full)
    BY <1>5 DEF Flush
  <2>2. TypeOK'
    BY <1>0, <1>5, <2>1, TypeIsNext DEF Flush, cpu, port, Typed, StepSet, Unacked, Unasked
  <2>3. Answered' /\ Acked'
    BY <1>0, <1>5, <2>1 DEF Flush, cpu, port, Answered, Acked, Unacked, Unasked
  <2> QED BY <2>2, <2>3 DEF IInv
<1>6. CASE Drain
  <2>1. step = "drain" /\ step' = "flush" /\ ~answering'
    BY <1>6 DEF Drain, Goto, ReadPort
  <2>2. TypeOK'
    BY <1>0, <1>6, <2>1, TypeIsNext
       DEF Drain, ReadPort, cpu, Typed, StepSet, Unacked, Unasked, Bytes, Configs
  <2>3. Answered' /\ Acked'
    BY <1>0, <1>6, <2>1 DEF Drain, cpu, Answered, Acked, Unacked, Unasked
  <2> QED BY <2>2, <2>3 DEF IInv
<1>7. CASE AskConfig
  <2>1. step = "ask" /\ step' = "answer"
    BY <1>7 DEF AskConfig, Goto
  <2>2. TypeOK'
    BY <1>0, <1>7, <2>1, TypeIsNext
       DEF AskConfig, cpu, Typed, StepSet, Unacked, Unasked, Bytes, Configs
  <2>3. Answered' /\ Acked'
    BY <1>0, <1>7, <2>1 DEF AskConfig, cpu, Answered, Acked, Unacked, Unasked
  <2> QED BY <2>2, <2>3 DEF IInv
<1>8. CASE ReadStatus
  <2>1. step = "answer" /\ step' = "enable"
    BY <1>8 DEF ReadStatus, Goto
  <2>2. TypeOK'
    BY <1>0, <1>8, <2>1, TypeIsNext
       DEF ReadStatus, ReadPort, cpu, Typed, StepSet, Unacked, Unasked, Bytes, Configs
  <2>3. Answered' /\ Acked'
    BY <1>0, <1>8, <2>1 DEF ReadStatus, ReadPort, cpu, Answered, Acked, Unacked, Unasked
  <2> QED BY <2>2, <2>3 DEF IInv
<1>9. CASE WriteConfig
  <2>1. /\ step = "enable" /\ step' = "activate"
        /\ config' = [irq |-> TRUE, kept |-> status = "config"]
    BY <1>9 DEF WriteConfig, Goto
  <2>2. config' \in Configs /\ config'.kept = (status = "config")
    BY <2>1 DEF Configs
  <2>3. TypeOK'
    BY <1>0, <1>9, <2>1, <2>2, TypeIsNext
       DEF WriteConfig, cpu, Typed, StepSet, Unacked, Unasked, Configs
  <2>4. Answered' /\ Acked'
    BY <1>0, <1>9, <2>1, <2>2 DEF WriteConfig, cpu, Answered, Acked, Unacked, Unasked
  <2> QED BY <2>3, <2>4 DEF IInv
<1>10. CASE Activate
  <2>1. step = "activate" /\ step' = "rest"
    BY <1>10 DEF Activate, Goto
  <2>2. queue' \in Seq({"key", "ack"}) /\ Len(queue') = Len(queue) + 1 /\ Len(queue) <= MaxQueue
    BY <1>0, <1>10, <2>1 DEF Activate, Acked, Unacked
  <2>3. TypeOK'
    BY <1>0, <1>10, <2>1, <2>2, TypeIsNext
       DEF Activate, cpu, port, Typed, StepSet, Unacked, Unasked
  <2>4. Answered' /\ Acked'
    BY <1>0, <1>10, <2>1 DEF Activate, cpu, port, Answered, Acked, Unacked, Unasked
  <2> QED BY <2>3, <2>4 DEF IInv
<1>11. CASE UNCHANGED vars
  BY <1>0, <1>11, TypeIsNext DEF vars, cpu, port, IInv, Typed, Answered, Acked
<1> QED BY <1>1, <1>2, <1>3, <1>4, <1>5, <1>6, <1>7, <1>8, <1>9, <1>10, <1>11, <1>12
        DEF Next, kernel_main, Straight

\* The invariant of the boot, for any number of keys typed meanwhile.
THEOREM Inductive == Spec => []IInv
BY InitIInv, NextIInv, PTL DEF Spec

\* ps2_init writes back the command byte it read, unless the keyboard sent a
\* byte between its flush and its read.
THEOREM ConfigAlwaysKept == Spec => []ConfigKept
<1>1. IInv => ConfigKept
  BY DEF IInv, Answered, ConfigKept
<1> QED BY <1>1, Inductive, PTL

-----------------------------------------------------------------------------
(* Interrupts during the boot: what BootCompletes needs besides fairness,  *)
(* and KeysSignalled.                                                      *)

\* How much is set up at each step; interrupts are enabled after all of it, until
\* init is dispatched.
Prepared ==
    /\ step # "crash"
    /\ step # "gates" => gates = Gates
    /\ step \notin {"gates", "pic_remap"} => pic_base = 32 /\ pic_mask = 2 .. 15
    /\ step \notin {"gates", "pic_remap", "lidt"} => idtr
    /\ intr <=> step \notin {"gates", "pic_remap", "lidt", "sti", "init", "lost"}

\* The steps at which the command byte was written.
Configured == {"activate", "rest", "create", "ready", "idle", "init", "lost"}

\* From the end of the flush on a byte in the buffer has raised IRQ1, if the
\* command byte enables that; and after ps2_init it does.
Signalled ==
    /\ step \in {"ask", "answer", "enable"} \cup Configured /\ config.irq /\ full => irr
    /\ step \in Configured => config.irq

\* No interrupt of the timer or the keyboard finds a missing gate, or that of an
\* exception, which halts.
EachHandled == step # "crash" /\ (intr => Handled(0) /\ Handled(1))

\* What is set up handles both interrupts.
LEMMA PreparedHandles ==
    ASSUME Prepared
    PROVE  step \notin {"gates", "pic_remap", "lidt"} => Handled(0) /\ Handled(1) /\ 1 \notin pic_mask
<1>1. 32 \in Gates \ 0 .. 31 /\ 33 \in Gates \ 0 .. 31 /\ 1 \notin 2 .. 15
  BY DEF Gates
<1>2. step \notin {"gates", "pic_remap", "lidt"} =>
        idtr /\ pic_base = 32 /\ gates = Gates /\ pic_mask = 2 .. 15
  BY DEF Prepared
<1> QED BY <1>1, <1>2 DEF Handled

\* Every step keeps both.
LEMMA NextPrepared == IInv /\ Prepared /\ Signalled /\ [Next]_vars => Prepared' /\ Signalled'
<1> SUFFICES ASSUME IInv, Prepared, Signalled, [Next]_vars PROVE Prepared' /\ Signalled'
  OBVIOUS
<1>0. step \in StepSet /\ config \in Configs /\ irr \in BOOLEAN /\ full \in BOOLEAN
      /\ answering \in BOOLEAN
  BY TypeIs DEF IInv, Typed
<1>1. CASE KeyTyped \/ Send \/ Flush \/ Drain \/ AskConfig \/ ReadStatus \/ Activate
  <2>1. UNCHANGED <<cpu, config>> /\ step # "crash" /\ step' # "crash"
    BY <1>0, <1>1 DEF KeyTyped, Send, Flush, Drain, AskConfig, ReadStatus, Activate, Goto, Prepared
  <2>2. Prepared'
    BY <1>0, <1>1, <2>1 DEF KeyTyped, Send, Flush, Drain, AskConfig, ReadStatus, Activate, Goto,
                            Prepared, cpu
  <2>3. Signalled'
    <3>0. config.irq \in BOOLEAN
      BY <1>0 DEF Configs
    <3>1. CASE KeyTyped
      BY <3>1 DEF KeyTyped, port, Signalled, Configured
    <3>2. CASE Send
      <4>1. step' = step /\ config' = config /\ (irr' <=> irr \/ config.irq)
        BY <1>0, <3>0, <3>2 DEF Send
      <4> QED BY <4>1 DEF Signalled, Configured
    <3>3. CASE Flush
      <4>1. /\ step = "flush" /\ step' \in {"drain", "ask"} /\ (step' = "ask" => ~full)
            /\ full' = full
        BY <1>0, <3>3 DEF Flush, port
      <4> QED BY <4>1 DEF Signalled, Configured
    <3>4. CASE Drain
      BY <3>4 DEF Drain, Goto, Signalled, Configured
    <3>5. CASE AskConfig
      <4>1. /\ step = "ask" /\ step' = "answer" /\ config' = config
            /\ full => (irr' <=> irr)
            /\ ~full => (irr' <=> irr \/ config.irq)
        BY <1>0, <3>0, <3>5 DEF AskConfig, Goto
      <4> QED BY <4>1 DEF Signalled, Configured
    <3>6. CASE ReadStatus
      <4>1. PICK pending \in {irr, FALSE} : ReadPort(pending)
        BY <3>6 DEF ReadStatus
      <4>2. pending \in BOOLEAN /\ step' = "enable" /\ config' = config
        BY <1>0, <3>6 DEF ReadStatus, Goto
      <4>3. (full' <=> answering) /\ (irr' <=> pending \/ (answering /\ config.irq))
        BY <1>0, <3>0, <4>1, <4>2 DEF ReadPort
      <4> QED BY <4>2, <4>3 DEF Signalled, Configured
    <3>7. CASE Activate
      BY <1>0, <3>7 DEF Activate, Goto, port, Signalled, Configured
    <3> QED BY <1>1, <3>1, <3>2, <3>3, <3>4, <3>5, <3>6, <3>7
  <2> QED BY <2>2, <2>3
<1>2. CASE IRQ1
  <2>1. Handled(1)
    BY <1>2, PreparedHandles DEF IRQ1, Prepared
  <2>2. ReadPort(FALSE) /\ UNCHANGED <<step, cpu, config>>
    BY <1>2, <2>1 DEF IRQ1, cpu
  <2>3. Prepared'
    BY <2>2 DEF Prepared, cpu
  <2>4. Signalled'
    BY <1>0, <2>2 DEF ReadPort, Signalled
  <2> QED BY <2>3, <2>4
<1>6. CASE IRQ0
  <2>1. Handled(0) /\ intr
    BY <1>6, PreparedHandles DEF IRQ0, Prepared
  <2>2. /\ UNCHANGED <<gates, idtr, pic_base, pic_mask, port, config>>
        /\ \/ step' = step /\ intr'
           \/ /\ step \in {"create", "ready", "idle"} /\ step' \in {"init", "lost"}
              /\ ~intr'
    BY <1>6, <2>1 DEF IRQ0, Ticked
  <2>3. Prepared'
    BY <2>1, <2>2 DEF Prepared
  <2>4. Signalled'
    BY <2>2 DEF Signalled, Configured, port
  <2> QED BY <2>3, <2>4
<1>3. CASE Straight
  <2>1. Prepared'
    <3>1. CASE SetGates
      BY <3>1 DEF SetGates, Goto, Prepared
    <3>2. CASE pic_remap
      BY <3>2 DEF pic_remap, Goto, Prepared
    <3>3. CASE LoadIdt
      BY <3>3 DEF LoadIdt, Goto, Prepared
    <3>4. CASE EnableInterrupts
      BY <3>4 DEF EnableInterrupts, Goto, Prepared
    <3>5. CASE CreateReady \/ CreateContext \/ IdleLoop
      BY <3>5 DEF CreateReady, CreateContext, IdleLoop, Goto, cpu, Prepared
    <3> QED BY <1>3, <3>1, <3>2, <3>3, <3>4, <3>5 DEF Straight
  <2>2. Signalled'
    <3>1. CASE CreateReady \/ CreateContext \/ IdleLoop
      BY <3>1 DEF CreateReady, CreateContext, IdleLoop, Goto, port, Signalled, Configured
    <3>2. CASE SetGates \/ pic_remap \/ LoadIdt \/ EnableInterrupts
      <4>1. step' \in {"pic_remap", "lidt", "sti", "flush"}
        BY <3>2 DEF SetGates, pic_remap, LoadIdt, EnableInterrupts, Goto
      <4> QED BY <4>1 DEF Signalled, Configured
    <3> QED BY <1>3, <3>1, <3>2 DEF Straight
  <2> QED BY <2>1, <2>2
<1>4. CASE WriteConfig
  <2>1. step = "enable" /\ step' = "activate" /\ UNCHANGED <<cpu, full>> /\ config'.irq = TRUE
        /\ irr' = (irr \/ (full /\ ~config.irq))
    BY <1>4 DEF WriteConfig, Goto
  <2>2. Prepared'
    BY <2>1 DEF Prepared, cpu
  <2>3. Signalled'
    BY <1>0, <2>1 DEF Signalled, Configured
  <2> QED BY <2>2, <2>3
<1>5. CASE UNCHANGED vars
  BY <1>5 DEF vars, cpu, port, Prepared, Signalled
<1> QED BY <1>1, <1>2, <1>3, <1>4, <1>5, <1>6 DEF Next, kernel_main, Straight

\* Both hold from the start.
LEMMA AlwaysPrepared == Spec => [](Prepared /\ Signalled)
<1>1. Init => Prepared /\ Signalled
  BY DEF Init, Prepared, Signalled, Configured
<1> QED BY <1>1, NextPrepared, Inductive, PTL DEF Spec

\* idt_init enables interrupts only when everything is in place: from the sti on
\* every interrupt of the timer and of the keyboard finds its own gate, behind
\* those of the exceptions (idt.c:36-54, 81-127).
THEOREM InterruptsAlwaysHandled == Spec => []EachHandled
<1>1. Prepared /\ Signalled => EachHandled
  BY PreparedHandles DEF Prepared, EachHandled
<1> QED BY <1>1, AlwaysPrepared, PTL

\* Once ps2_init is done the controller never holds a byte that no interrupt
\* announces: not one that came before pic_remap, during the flush, while
\* ps2_init spoke to the controller, or while its interrupt was disabled
\* (idt.c:52-71).
THEOREM KeysAlwaysSignalled == Spec => []KeysSignalled
<1>1. Prepared /\ Signalled => KeysSignalled
  <2> SUFFICES ASSUME Prepared, Signalled, full,
                      step \in {"activate", "rest", "create", "ready", "idle", "init"}
               PROVE  irr /\ 1 \notin pic_mask /\ Handled(1)
    BY DEF KeysSignalled
  <2>1. irr
    BY DEF Signalled, Configured
  <2> QED BY <2>1, PreparedHandles
<1> QED BY <1>1, AlwaysPrepared, PTL
=============================================================================
