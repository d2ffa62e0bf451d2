------------------------------- MODULE TheIrq -------------------------------
(* theM, src/c/them/op_codes.c and io.c: the run loop of the emulated 8086,  *)
(* its stack, and the timer and keyboard lines that interrupt it.  The guest *)
(* is any program that takes from the stack what it put there: a handler     *)
(* ends with IRET or RETF 2 on the frame it was entered with, on whatever    *)
(* stack it meanwhile worked, or its process ends under it.                  *)
EXTENDS Naturals, Sequences, FiniteSets

CONSTANTS MaxPending,   \* the ticks that wait for the guest at most, 8
          QueueCap,     \* the keys that wait, 63
          MaxNesting,   \* how deep EXEC nests, DOS_NESTING
          Bounds        \* [keys, stack]: how many keys are pressed in a behaviour, and how
                        \* much lies on all the stacks together

VARIABLES cpu,          \* flags, stacks, which one SS:SP is on, and whether it runs
          pic,          \* the interrupt controller, the timer and irq_frame
          kbd,          \* the keyboard controller
          parents,      \* what EXEC put aside
          past          \* the keys that were accepted, those the guest has read, and the bounds

vars == <<cpu, pic, kbd, parents, past>>

Lines == {0, 1}         \* the timer and the keyboard
Stacks == {"main", "own"}
NoFrame == <<>>

Fresh == [f |-> {"IF"}, stk |-> [s \in Stacks |-> <<>>], ss |-> "main", state |-> "run"]

\* io_init() and the zeroed statics.
NewPic == [mask |-> {}, request |-> {}, busy |-> {}, pending |-> 0, frame |-> [i \in Lines |-> NoFrame]]
NewKbd == [queue |-> <<>>, port |-> 0, full |-> FALSE]
Init ==
    /\ cpu = Fresh
    /\ pic = NewPic
    /\ kbd = NewKbd
    /\ parents = <<>>
    /\ past \in [typed : {0}, accepted : {<<>>}, seen : {<<>>}, most : Bounds]

-----------------------------------------------------------------------------
(* The stack.  A word here is whatever one instruction pushes: a return      *)
(* address, near or far, or the three words of an interrupt.                 *)

Top == cpu.stk[cpu.ss][Len(cpu.stk[cpu.ss])]
HasTop(kinds) == cpu.stk[cpu.ss] # <<>> /\ Top.k \in kinds

Height(c) == Len(c.stk.main) + Len(c.stk.own)
Room == Height(cpu) + (IF parents = <<>> THEN 0 ELSE Height(parents[1].cpu)) < past.most.stack

\* push16() and pop16().
Push(c, word) == [c EXCEPT !.stk[c.ss] = Append(@, word)]
Pop(c) == [c EXCEPT !.stk[c.ss] = SubSeq(@, 1, Len(@) - 1)]

\* stack_linear(): processes and stacks lie in different places.
StackLinear(c) == <<Len(parents), c.ss, Len(c.stk[c.ss])>>

\* cpu_int(): the flags and the place to return to, and no more interrupts.
CpuInt(c, kind) == [Push(c, [k |-> kind, f |-> c.f]) EXCEPT !.f = @ \ {"IF", "TF"}]

\* Faulty variant: whatever returns, the lines are free again.
IrqFrameReturnAny(p, at) == [p EXCEPT !.busy = {}, !.frame = [i \in Lines |-> NoFrame]]

\* irq_frame_return() and hw_irq_return(): the frame that is popped frees its line.  What
\* irq_frame holds for a line that is free is never looked at: no frame, here.
IrqFrameReturn(p, at) ==
    [p EXCEPT !.busy = {i \in @ : p.frame[i] # at},
              !.frame = [i \in Lines |-> IF @[i] = at THEN NoFrame ELSE @[i]]]

-----------------------------------------------------------------------------
(* The hardware.                                                             *)

\* kbd_enqueue(): a queue that is full drops the key.
KbdEnqueue(k, key) == IF Len(k.queue) >= QueueCap THEN k ELSE [k EXCEPT !.queue = Append(@, key)]

\* The end of hw_poll(): the next key goes to port 60h once the last has been read.
Offer(k) == IF k.full \/ k.queue = <<>> THEN k
            ELSE [queue |-> Tail(k.queue), port |-> Head(k.queue), full |-> TRUE]

\* hw_poll(): the ticks that fell due and a key, if one was pressed.
HwPoll(ticks, pressed) ==
    /\ pressed <= past.most.keys - past.typed
    /\ LET pending == IF pic.pending + ticks > MaxPending THEN MaxPending ELSE pic.pending + ticks
           key == past.typed + 1
           queued == IF pressed = 1 THEN KbdEnqueue(kbd, key) ELSE kbd
           offered == Offer(queued)
           raised == (IF ticks > 0 /\ pending > 0 THEN {0} ELSE {})
                     \cup (IF offered # queued THEN {1} ELSE {})
       IN  /\ pic' = [pic EXCEPT !.pending = pending, !.request = @ \cup raised]
           /\ kbd' = offered
           /\ past' = [past EXCEPT !.typed = @ + pressed,
                                   !.accepted = IF queued # kbd THEN Append(@, key) ELSE @]
    /\ cpu.state # "off"
    /\ UNCHANGED <<cpu, parents>>

\* F12 at hw_poll(), or a window that closed: switch_opcode() returns
\* and the process ends.
Off == cpu' = [Fresh EXCEPT !.state = "off"] /\ pic' = NewPic /\ kbd' = NewKbd /\ parents' = <<>>
       /\ past' = [past EXCEPT !.typed = past.most.keys, !.accepted = <<>>, !.seen = <<>>]
Quit == cpu.state # "off" /\ Off

\* hw_pending_irq(): the lines that may interrupt.
Live == pic.request \ (pic.mask \cup pic.busy)

\* Faulty variant: the line is not held while its handler runs.
HwTakeIrqFree(p, irq) == [p EXCEPT !.request = @ \ {irq}, !.pending = IF irq = 0 /\ @ > 0 THEN @ - 1 ELSE @]

\* Faulty variant: the ticks that wait are not raised again.
HwTakeIrqOnce(p, irq) == [HwTakeIrqFree(p, irq) EXCEPT !.busy = @ \cup {irq}]

\* hw_take_irq(): the line is held, and raised again while ticks are left.
HwTakeIrq(p, irq) ==
    LET left == IF irq = 0 /\ p.pending > 0 THEN p.pending - 1 ELSE p.pending
    IN  [p EXCEPT !.request = (@ \ {irq}) \cup (IF irq = 0 /\ left > 0 THEN {0} ELSE {}),
                  !.busy = @ \cup {irq}, !.pending = left]

\* The run loop between instructions: the lowest line first; HLT ends.
Interrupted ==
    /\ cpu.state # "off" /\ "IF" \in cpu.f /\ Live # {}
    /\ Room
    /\ LET irq == IF 0 \in Live THEN 0 ELSE 1
           c == CpuInt([cpu EXCEPT !.state = "run"], IF irq = 0 THEN "irq0" ELSE "irq1")
       IN  /\ cpu' = c
           /\ pic' = [HwTakeIrq(pic, irq) EXCEPT !.frame[irq] = StackLinear(c)]
    /\ UNCHANGED <<kbd, parents, past>>

-----------------------------------------------------------------------------
(* The guest's instructions.  TF is looked at before one runs; one that      *)
(* raised an interrupt itself is not trapped after.                          *)

Runs == cpu.state = "run" /\ ~("IF" \in cpu.f /\ Live # {})
Frames == {"irq0", "irq1", "int"}

Done(c, raised) ==
    /\ "TF" \in cpu.f /\ ~raised => Room
    /\ cpu' = IF "TF" \in cpu.f /\ ~raised THEN CpuInt(c, "int") ELSE c

Same == UNCHANGED <<pic, kbd, parents, past>>

\* FA and FB, POPF, F4.
SetFlags(f) == Runs /\ Done([cpu EXCEPT !.f = f], FALSE) /\ Same
Hlt == Runs /\ Done([cpu EXCEPT !.state = "hlt"], FALSE) /\ Same

\* 9A and FF: a call, and CB, which returns from it; a near one is no different here.
Call == Runs /\ Room /\ Done(Push(cpu, [k |-> "call", f |-> {}]), FALSE) /\ Same
Ret == Runs /\ HasTop({"call"}) /\ Done(Pop(cpu), FALSE) /\ Same

\* CC, CD, CE, 62, a division; BIOS stubs raise INT 1Ch from the timer's.
Int == Runs /\ Room /\ Done(CpuInt(cpu, "int"), TRUE) /\ Same

\* CF.
Iret ==
    /\ Runs /\ HasTop(Frames)
    /\ pic' = IrqFrameReturn(pic, StackLinear(cpu))
    /\ Done([Pop(cpu) EXCEPT !.f = Top.f], FALSE)
    /\ UNCHANGED <<kbd, parents, past>>

\* CA with two bytes or more: an interrupt whose flags are dropped, or a far call's
\* arguments.
RetfN ==
    /\ Runs /\ HasTop(Frames \cup {"call"})
    /\ pic' = IrqFrameReturn(pic, StackLinear(cpu))
    /\ Done(Pop(cpu), FALSE)
    /\ UNCHANGED <<kbd, parents, past>>

\* A handler's own stack, loaded into SS:SP, and left empty.
SwitchStack ==
    /\ Runs /\ cpu.stk.own = <<>>
    /\ Done([cpu EXCEPT !.ss = IF @ = "main" THEN "own" ELSE "main"], FALSE)
    /\ Same

\* IN of port 60h, the guest's or handle_09h()'s; OUT to 21h.
ReadKey ==
    /\ Runs
    /\ kbd' = [kbd EXCEPT !.full = FALSE]
    /\ past' = IF kbd.full THEN [past EXCEPT !.seen = Append(@, kbd.port)] ELSE past
    /\ Done(cpu, FALSE)
    /\ UNCHANGED <<pic, parents>>
SetMask(mask) == Runs /\ pic' = [pic EXCEPT !.mask = mask] /\ Done(cpu, FALSE) /\ UNCHANGED <<kbd, parents, past>>

\* bios_retry_instruction(): the INT will run again, with interrupts allowed.
Retry ==
    /\ Runs /\ HasTop({"int"})
    /\ Done([cpu EXCEPT !.stk[cpu.ss] = [@ EXCEPT ![Len(@)] = [Top EXCEPT !.f = @ \cup {"IF"}]]], FALSE)
    /\ Same

\* dos_exec() with cpu_irq_save(): the child begins with interrupts allowed.
Exec ==
    /\ Runs /\ HasTop({"int"}) /\ Len(parents) < MaxNesting
    /\ parents' = Append(parents, [cpu |-> cpu, frame |-> pic.frame, busy |-> pic.busy])
    /\ Done(Fresh, TRUE)
    /\ UNCHANGED <<pic, kbd, past>>

\* Faulty variant: the lines the child held stay held.
TerminateHolds(p, saved) == p

\* cpu_irq_restore().
CpuIrqRestore(p, saved) == [p EXCEPT !.frame = saved.frame, !.busy = saved.busy]

\* dos_terminate(): the parent goes on where it called, or the machine stops.
Terminate ==
    /\ Runs /\ HasTop({"int"})
    /\ IF parents = <<>> THEN Off
       ELSE LET p == parents[Len(parents)]
            IN  /\ cpu' = p.cpu
                /\ pic' = CpuIrqRestore(pic, p)
                /\ parents' = SubSeq(parents, 1, Len(parents) - 1)
                /\ UNCHANGED <<kbd, past>>

\* What the hardware does, and what the guest may run.
Next ==
    \/ \E ticks \in 0 .. 2, pressed \in {0, 1} : HwPoll(ticks, pressed)
    \/ Interrupted
    \/ \E f \in {{}, {"IF"}, {"IF", "TF"}} : SetFlags(f)
    \/ Hlt
    \/ Call \/ Ret \/ Int \/ Iret \/ RetfN \/ SwitchStack \/ ReadKey
    \/ \E mask \in {{}, {0}} : SetMask(mask)
    \/ Retry \/ Exec \/ Terminate \/ Quit

-----------------------------------------------------------------------------
FramesOn(c, line) ==
    {at \in Stacks \X (1 .. Height(c)) :
        at[2] \in DOMAIN c.stk[at[1]] /\ c.stk[at[1]][at[2]].k = (IF line = 0 THEN "irq0" ELSE "irq1")}
Unwound(line) ==
    /\ FramesOn(cpu, line) = {}
    /\ \A k \in DOMAIN parents : FramesOn(parents[k].cpu, line) = {}

\* A line's handler is never entered while a frame of it is still to be unwound, by this
\* process or by one that waits for it, and a line is held for exactly as long: the
\* guest's nesting, private stacks, RETF 2 and the end of a child in a handler included.
HandlerAlone ==
    cpu.state # "off" => \A i \in Lines : (\A a, b \in FramesOn(cpu, i) : a = b) /\ (i \in pic.busy) = ~Unwound(i)

\* Ticks that wait are always requested: none is forgotten while a handler runs.
TicksRaised == (0 \in pic.request) = (pic.pending > 0)

\* The guest reads the keys that were accepted in their order, each once.
KeysInOrder ==
    past.accepted = past.seen \o (IF kbd.full THEN <<kbd.port>> ELSE <<>>) \o kbd.queue
=============================================================================
