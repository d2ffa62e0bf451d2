----------------------------- MODULE MCPrograms -----------------------------
(* The TCP of programs in Go, the FAT driver of rntp, programs that draw     *)
(* into windows of the desktop, and theM, the machine that runs DOS          *)
(* programs, one part at a time: `part` names the one a behaviour is of, and *)
(* the variables of the others are 0.                                        *)
EXTENDS Integers, Sequences

CONSTANTS MaxPending, QueueCap, MaxNesting, IrqBounds,       \* TheIrq
          Start, End, Blocks, ArenaNesting, ChildMin, ChildMax, ExeFloor, ExeCeil, ComSize, EnvSize,
          Exes, Sizes,                                       \* TheArena
          Names, Handles, Objects, Nil, Cap, Block, FileNesting, MaxPos,   \* TheFiles
          Machines, Values,                                                \* TheScreen
          HostedSlots, Queue, IndexMod, MaxLaunches, HostedBounds          \* HostedWindow

Op(op) == [op |-> op]
On(op, d) == [op |-> op, d |-> d]
Two(op, d, s) == [op |-> op, d |-> d, s |-> s]
Immediate(op, d, n) == [op |-> op, d |-> d, s |-> "imm", n |-> n]
Num(op, n) == [op |-> op, n |-> n]
If(op, c) == [op |-> op, c |-> c]
AluPrograms ==
    {<<Two(op, r[1], r[2])>> : op \in {"ADD", "ADC", "SUB", "SBB", "AND", "OR", "XOR", "TEST", "MOV"},
                               r \in {<<"ax", "m">>, <<"al", "bl">>}}
    \cup {<<Two("CMP", r[1], r[2]), If(j, c)>> : r \in {<<"ax", "bx">>, <<"ah", "bl">>},
                                                j \in {"J", "JN"}, c \in {"B", "BE", "E", "L", "LE"}}
    \cup {<<Two("ADD", "al", "bl"), Op("DAA")>>, <<Two("SUB", "al", "bl"), Op("DAS")>>,
          <<Two("ADD", "al", "bl"), Op("AAA")>>, <<Two("SUB", "al", "bl"), Op("AAS")>>,
          <<On("DIV", "bl")>>, <<On("IDIV", "bl")>>, <<On("DIV", "bx")>>, <<On("IDIV", "bx")>>,
          <<Immediate("MOV", "ax", 0), On("DIV", "bx")>>, <<Immediate("MOV", "ax", 0), On("IDIV", "bx")>>,
          <<On("MUL", "bx"), On("DIV", "bx")>>, <<On("IMUL", "bx"), On("IDIV", "bx")>>,
          <<Two("RCL", "ax", "cl"), Two("RCR", "ax", "cl")>>,
          <<Two("ROL", "ah", "cl"), Two("ROR", "ah", "cl")>>,
          <<On("INC", "al"), On("DEC", "al")>>, <<On("NEG", "ax"), On("NEG", "ax")>>,
          <<Op("LAHF"), Op("SAHF")>>, <<Two("XCHG", "ax", "bx"), Two("XCHG", "ax", "bx")>>,
          <<Num("AAM", 10), Num("AAD", 10)>>, <<Op("CBW"), Op("CWD"), Op("SALC")>>,
          <<[op |-> "LEA", d |-> "bx", rm |-> 2, n |-> 255]>>, <<On("NOT", "al")>>,
          <<Op("CMC")>>, <<Op("CLC")>>, <<Op("STC")>>,
          <<Op("LOOP")>>, <<Op("LOOPZ")>>, <<Op("LOOPNZ")>>, <<Op("JCXZ")>>}
    \cup {<<Two(op, d, "cl")>> : op \in {"SHL", "SHR", "SAR"}, d \in {"ax", "ah"}}

StringCodes ==
    {p \o <<op>> : p \in {<<>>, <<"REPE">>, <<"es", "REPNE">>, <<"REPNE", "LOCK", "REPE">>},
                   op \in {"MOVSB", "MOVSW", "CMPSB", "CMPSW", "STOSB", "STOSW", "LODSB",
                           "LODSW", "SCASB", "SCASW", "INSB", "INSW", "OUTSB", "OUTSW"}}

\* Programs that do and do not fit.
DosPrograms == {[image |-> 1, min |-> 1], [image |-> 6, min |-> 0]}

\* A key and ticks that wait; and a handler that starts a program or a program that ends in one.
KeyOrProgram == {[keys |-> 1, stack |-> 2], [keys |-> 0, stack |-> 3]}

\* Windows that are closed while their programs run on; a program that ends and is started
\* again in its window; frames that are drawn and shown at the same time; keys and sizes for
\* a program that may not take them; texts for the clipboard.
Window(slots, launches, frames_, commands, copies, sizes) ==
    [slots |-> slots, launches |-> launches, frames |-> frames_, commands |-> commands, copies |-> copies,
     sizes |-> sizes]
Windows == {Window({1, 2}, 2, 0, 0, 0, {1}), Window({1}, 2, 1, 0, 0, {1}), Window({1}, 1, 3, 0, 0, {1}),
            Window({1}, 1, 0, 4, 0, {1, 2}), Window({1}, 1, 0, 0, 2, {1})}

\* A window, a framebuffer, and VGAs that grant both of their modes, one or neither; guests
\* with every kind of mode, that leave the geometry of the mode alone or set their own.
Machine(kind, grants, modes, geometries) ==
    [kind |-> kind, grants |-> grants, modes |-> modes, geometries |-> geometries]
AnyMachine ==
    {Machine("window", {}, {"03", "13"}, {"small"}), Machine("vesa", {}, {"01", "0D"}, {"tall"}),
     Machine("vga", {"12", "13"}, {"03", "12", "13"}, {}), Machine("vga", {"12", "13"}, {"01", "0D"}, {"tall"}),
     Machine("vga", {"13"}, {"03", "04", "0E"}, {}), Machine("vga", {"12"}, {"03", "0D", "12"}, {}),
     Machine("vga", {}, {"0D"}, {}), Machine("none", {}, {"0D"}, {})}

VARIABLES part,   \* the component this behaviour is of
          \* R2NetTcp
          state, err, snd, sndUna, rcv, pending, pendFlags, pendSeq, retries, rx, reorder, peerFIN,
          delivered, written, call, out, pstale, pgot, pfin,
          \* TheAlu
          aluProg, R, F, fault, jump, aluPast,
          \* TheStrings
          m, code, stringsIp, work, stringsPast,
          \* TheIrq
          cpu, pic, kbd, irqParents, irqPast,
          \* TheArena
          blocks, next, procs, refused,
          \* TheFiles
          disk, files, table, dosParents, dosOn,
          \* TheScreen
          guest, screenHost, dirty, shown, screenOn,
          \* TheVga
          planes, latch, reg, vgaProg, got, vgaPast,
          \* HostedWindow
          blk, slot, wnd, prog, count,
          \* FatDriver
          vol, tree

\* Sequence numbers of both directions wrap.
Go == INSTANCE R2NetTcp WITH Supply <- 4, Demand <- 1, RxCap <- 3, QueueLen <- 2, MaxRetries <- 1, SeqMod <- 20,
    Isn <- 18, PeerIsn <- 17
\* Short programs of the instructions that compute.
Alu == INSTANCE TheAlu WITH Programs <- AluPrograms,
    Values <- {0, 1, 5, 9, 16, 25, 127, 128, 153, 255, 256, 4660, 32767, 32768, 65535}, prog <- aluProg,
    past <- aluPast
\* Every string instruction, with prefixes in several orders.
Strings == INSTANCE TheStrings WITH Size <- 3, Slice <- 2, MaxPrefix <- 2, MaxCount <- 3, Codes <- StringCodes,
    ip <- stringsIp, past <- stringsPast
\* A timer and a keyboard.
Irq == INSTANCE TheIrq WITH Bounds <- IrqBounds, parents <- irqParents, past <- irqPast
\* Six paragraphs, a table of three blocks, and programs that do and do not fit.
Arena == INSTANCE TheArena WITH Nesting <- ArenaNesting
\* A file and two handles.
Dos == INSTANCE TheFiles WITH Nesting <- FileNesting, parents <- dosParents, on <- dosOn
\* A guest that changes its mode, palette and format at any time.
Screen == INSTANCE TheScreen WITH host <- screenHost, on <- screenOn
\* Windows whose contents another process draws.
Hosted == INSTANCE HostedWindow WITH Slots <- HostedSlots, Bounds <- HostedBounds
\* Bytes of three pixels in two planes; the first byte of a plane is one of two.
Vga == INSTANCE TheVga WITH Bits <- 3, Planes <- 2, Addresses <- {0, 1}, Targets <- {1}, Pixels <- {0, 2},
    prog <- vgaProg, past <- vgaPast
\* A volume of two clusters; the first entry of a table of twelve bits lies in two sectors.
Fat == INSTANCE FatDriver WITH Clusters <- 2, Bits <- {12, 16}, FatSector <- 4, RootEntries <- 2, PerSector <- 3,
    Bytes <- 2, Names <- {"a", "b"}, Depth <- 2, MaxLen <- 3

Init ==
    /\ part \in {"go", "alu", "strings", "irq", "arena", "dos", "screen", "vga", "hosted", "fat"}
    /\ IF part = "go" THEN Go!Init ELSE state = 0 /\ err = 0 /\ snd = 0 /\ sndUna = 0 /\ rcv = 0 /\ pending = 0
       /\ pendFlags = 0 /\ pendSeq = 0 /\ retries = 0 /\ rx = 0 /\ reorder = 0 /\ peerFIN = 0 /\ delivered = 0
       /\ written = 0 /\ call = 0 /\ out = 0 /\ pstale = 0 /\ pgot = 0 /\ pfin = 0
    /\ IF part = "alu" THEN Alu!Init ELSE aluProg = 0 /\ R = 0 /\ F = 0 /\ fault = 0 /\ jump = 0 /\ aluPast = 0
    /\ IF part = "strings" THEN Strings!Init ELSE m = 0 /\ code = 0 /\ stringsIp = 0 /\ work = 0 /\ stringsPast = 0
    /\ IF part = "irq" THEN Irq!Init ELSE cpu = 0 /\ pic = 0 /\ kbd = 0 /\ irqParents = 0 /\ irqPast = 0
    /\ IF part = "arena" THEN Arena!Init ELSE blocks = 0 /\ next = 0 /\ procs = 0 /\ refused = 0
    /\ IF part = "dos" THEN Dos!Init ELSE disk = 0 /\ files = 0 /\ table = 0 /\ dosParents = 0 /\ dosOn = 0
    /\ IF part = "screen" THEN Screen!Init ELSE guest = 0 /\ screenHost = 0 /\ dirty = 0 /\ shown = 0
       /\ screenOn = 0
    /\ IF part = "vga" THEN Vga!Init /\ \A p \in {0, 1} : planes[p][0] \in {{}, {0, 1}} ELSE planes = 0
       /\ latch = 0 /\ reg = 0 /\ vgaProg = 0 /\ got = 0 /\ vgaPast = 0
    /\ IF part = "hosted" THEN Hosted!Init ELSE blk = 0 /\ slot = 0 /\ wnd = 0 /\ prog = 0 /\ count = 0
    /\ IF part = "fat" THEN Fat!Init ELSE vol = 0 /\ tree = 0

go_vars == <<state, err, snd, sndUna, rcv, pending, pendFlags, pendSeq, retries, rx, reorder,
             peerFIN, delivered, written, call, out, pstale, pgot, pfin>>
alu_vars == <<aluProg, R, F, fault, jump, aluPast>>
strings_vars == <<m, code, stringsIp, work, stringsPast>>
irq_vars == <<cpu, pic, kbd, irqParents, irqPast>>
arena_vars == <<blocks, next, procs, refused>>
dos_vars == <<disk, files, table, dosParents, dosOn>>
screen_vars == <<guest, screenHost, dirty, shown, screenOn>>
vga_vars == <<planes, latch, reg, vgaProg, got, vgaPast>>
hosted_vars == <<blk, slot, wnd, prog, count>>
fat_vars == <<vol, tree>>

\* The other components stand still.
Rest ==
    /\ part' = part
    /\ IF part = "go" THEN TRUE ELSE UNCHANGED go_vars
    /\ IF part = "alu" THEN TRUE ELSE UNCHANGED alu_vars
    /\ IF part = "strings" THEN TRUE ELSE UNCHANGED strings_vars
    /\ IF part = "irq" THEN TRUE ELSE UNCHANGED irq_vars
    /\ IF part = "arena" THEN TRUE ELSE UNCHANGED arena_vars
    /\ IF part = "dos" THEN TRUE ELSE UNCHANGED dos_vars
    /\ IF part = "screen" THEN TRUE ELSE UNCHANGED screen_vars
    /\ IF part = "vga" THEN TRUE ELSE UNCHANGED vga_vars
    /\ IF part = "hosted" THEN TRUE ELSE UNCHANGED hosted_vars
    /\ IF part = "fat" THEN TRUE ELSE UNCHANGED fat_vars

Next ==
    \/ part = "go" /\ Go!Next /\ Rest
    \/ part = "alu" /\ Alu!Next /\ Rest
    \/ part = "strings" /\ Strings!Next /\ Rest
    \/ part = "irq" /\ Irq!Next /\ Rest
    \/ part = "arena" /\ Arena!Next /\ Rest
    \/ part = "dos" /\ Dos!Next /\ Rest
    \/ part = "screen" /\ Screen!Next /\ Rest
    \/ part = "vga" /\ Vga!Next /\ Rest
    \/ part = "hosted" /\ Hosted!Next /\ Rest
    \/ part = "fat" /\ Fat!Next /\ Rest

vars == <<part, go_vars, alu_vars, strings_vars, irq_vars,
         arena_vars, dos_vars, screen_vars, vga_vars, hosted_vars, fat_vars>>

Spec == Init /\ [][Next]_vars

\* What the Go program has received and is right does not tell states apart.
View == IF part = "go" THEN Go!View ELSE vars

-----------------------------------------------------------------------------
\* go/r2net Conn: what Read returns is the peer's stream, the window holds while a
\* segment waits behind a gap, and a Write that has returned is in the peer's hands.
GoStreamIntact ==
    part = "go" => Go!StreamIntact /\ Go!GapFits /\ Go!EndIsEnd /\ Go!WriteConfirmed

\* op_codes.c: sums, differences, shifts by any count, decimal corrections, products and
\* quotients of bytes and words are those of the numbers, a quotient that does not fit raises
\* INT 0 (80000000h by -1, which ends the emulator, is the exception), a conditional jump
\* after CMP compares the numbers, an instruction after its inverse leaves what was there,
\* and a string instruction, with any prefixes and however its repetition is cut into slices,
\* does what one that is not cut does; a comparison decided by the pass its slice ends with is
\* begun anew from there (op_codes.c:746).
\* vga.c: the usual ways to draw with the write modes change the pixels they name and no
\* others.
InstructionsRight ==
    /\ part = "alu" => /\ Alu!ArithmeticRight /\ Alu!JumpsRight /\ Alu!DecimalRight
                       /\ Alu!DivisionRight /\ Alu!InverseRight /\ Alu!ShiftRight
    /\ part = "strings" => Strings!StringsRight
    /\ part = "vga" => Vga!DrawsRight

\* io.c and op_codes.c: an interrupt handler is not entered again while it runs, however
\* the guest leaves it, ticks are neither lost nor made up, and keys come in order.
IrqRight == part = "irq" => Irq!HandlerAlone /\ Irq!TicksRaised /\ Irq!KeysInOrder

\* int21.c: two programs or blocks never share memory, a program that is refused memory is
\* told the largest hole unless a block has been shrunk to nothing, and a handle stands for
\* a file as long as it is open.
MemoryRight == /\ part = "arena" => Arena!BlocksApart /\ Arena!RefusalHonest
               /\ part = "dos" => Dos!HandlesStand

\* gfx.c: after a frame the display, a window, a framebuffer or a VGA, shows the guest's
\* picture in its colours after any changes of mode, format and palette, but for the
\* cases ScreenCurrent names.
ScreenRight == part = "screen" => Screen!ScreenCurrent

\* rntp/linux/fat.c: through any calls the volume is the files and directories the user
\* made, clusters are shared by no two of them and none is lost, and a call that fails
\* fails for a reason that holds.
VolumeTrue == part = "fat" => Fat!TreeKept /\ Fat!ChainsApart /\ Fat!CallsHonest

\* hosted_window.cpp: a window shows whole frames of its own program, which has the block to
\* itself as long as it can touch it, gets its input in order and has its texts taken.
WindowRight ==
    part = "hosted" => Hosted!BlockOwned /\ Hosted!PictureWhole /\ Hosted!InputInOrder /\ Hosted!CopiesTaken
=============================================================================
