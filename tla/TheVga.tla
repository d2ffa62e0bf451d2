------------------------------- MODULE TheVga -------------------------------
(* theM, src/c/them/vga.c: the write logic of the adapter's bit planes and   *)
(* what the CRT controller makes of them.  A game does not write pixels: it  *)
(* sets registers and writes bytes through them.  Here it is one of the      *)
(* short programs games are made of, and the picture before and after it is  *)
(* compared.                                                                 *)
EXTENDS Integers, Sequences, FiniteSets

CONSTANTS Bits,        \* pixels of a byte, 8
          Planes,      \* planes, 4
          Addresses,   \* bytes of a plane: 0 to some k
          Targets,     \* the bytes the programs draw in
          Pixels       \* and the pixels of them

VARIABLES planes,      \* by plane and address, the set of bits that are 1
          latch,       \* by plane
          reg,         \* the registers
          prog,        \* what is left to run
          got,         \* what the last read returned
          past         \* the program and the planes it began with

vars == <<planes, latch, reg, prog, got, past>>

PlaneSet == 0 .. Planes - 1
Byte == 0 .. Bits - 1           \* bit k of a byte; the pixels of a byte are counted from its highest
Colours == SUBSET PlaneSet      \* a colour is the planes its bit is set in

\* What a mode set leaves.
Reset == [map_mask |-> PlaneSet, set_reset |-> {}, enable_sr |-> {}, rotate |-> 0, func |-> "set",
          read_map |-> 0, write_mode |-> 0, compare |-> FALSE, cmp |-> {}, care |-> {}, bit_mask |-> Byte]

-----------------------------------------------------------------------------
(* The graphics controller.                                                  *)

\* rotate_right8().
RotateRight(v, n) == {b \in Byte : (b + n) % Bits \in v}

\* vga_mem_read(): the latches, and a plane or a comparison of all.
Compared(l) == {b \in Byte : \A p \in reg.care : (b \in l[p]) = (p \in reg.cmp)}
VgaMemRead(at) ==
    LET l == [p \in PlaneSet |-> planes[p][at]]
    IN  /\ latch' = l
        /\ got' = IF reg.compare THEN Compared(l) ELSE l[reg.read_map]
        /\ UNCHANGED <<planes, reg>>

\* The byte each plane is offered: by the write mode.
Source(p, value) ==
    LET full(on) == IF on THEN Byte ELSE {}
        data == RotateRight(value, reg.rotate)
    IN  CASE reg.write_mode = 0 -> IF p \in reg.enable_sr THEN full(p \in reg.set_reset) ELSE data
          [] reg.write_mode = 2 -> full(p \in value)
          [] OTHER -> full(p \in reg.set_reset)

\* Faulty variant: write mode 3 masks with the byte as it was written.
BitMaskRaw(value) == IF reg.write_mode = 3 THEN reg.bit_mask \cap value ELSE reg.bit_mask

\* Write mode 3 uses the rotated byte as a mask of its own.
BitMask(value) ==
    IF reg.write_mode = 3 THEN reg.bit_mask \cap RotateRight(value, reg.rotate) ELSE reg.bit_mask

\* The logical function with the latch; write mode 3 has none.
Combined(p, src) ==
    LET func == IF reg.write_mode = 3 THEN "set" ELSE reg.func
    IN  CASE func = "and" -> src \cap latch[p]
          [] func = "or" -> src \cup latch[p]
          [] func = "xor" -> (src \ latch[p]) \cup (latch[p] \ src)
          [] OTHER -> src

\* Faulty variant: write mode 1 goes through the bit mask.
WrittenMasked(p, value) ==
    (Combined(p, Source(p, value)) \cap BitMask(value)) \cup (latch[p] \ BitMask(value))

\* What a selected plane takes: write mode 1 copies the latch past mask and function.
Written(p, value) ==
    IF reg.write_mode = 1 THEN latch[p]
    ELSE (Combined(p, Source(p, value)) \cap BitMask(value)) \cup (latch[p] \ BitMask(value))

\* vga_mem_write().
VgaMemWrite(at, value) ==
    /\ planes' = [p \in PlaneSet |-> IF p \in reg.map_mask THEN [planes[p] EXCEPT ![at] = Written(p, value)]
                                     ELSE planes[p]]
    /\ UNCHANGED <<latch, reg, got>>

\* vga_port_write() to 3C4h and 3C5h, 3CEh and 3CFh.
VgaPortWrite(name, v) == reg' = [reg EXCEPT ![name] = v] /\ UNCHANGED <<planes, latch, got>>

-----------------------------------------------------------------------------
(* The picture.                                                              *)

\* decode_row() of the planar modes: pixel x of a byte is its bit Bits - 1 - x.
Pixel(pl, at, x) == {p \in PlaneSet : Bits - 1 - x \in pl[p][at]}
Picture(pl) == [q \in Addresses \X (0 .. Bits - 1) |-> Pixel(pl, q[1], q[2])]

Run(i) ==
    CASE i.op = "read" -> VgaMemRead(i.at)
      [] i.op = "write" -> VgaMemWrite(i.at, i.v)
      [] i.op = "out" -> VgaPortWrite(i.reg, i.v)

-----------------------------------------------------------------------------
(* What games do.  A program says what it is for, where, and in what colour. *)

Out(name, v) == [op |-> "out", reg |-> name, v |-> v]
In(at) == [op |-> "read", at |-> at]
Store(at, v) == [op |-> "write", at |-> at, v |-> v]
Bit(x) == {Bits - 1 - x}

\* A pixel in one of the write modes; the first is also INT 10h AH=0Ch.
PlotSetReset(at, x, c) ==
    [what |-> "plot", at |-> at, x |-> x, c |-> c,
     ops |-> <<Out("bit_mask", Bit(x)), Out("set_reset", c), Out("enable_sr", PlaneSet), In(at), Store(at, Byte),
               Out("enable_sr", {}), Out("bit_mask", Byte)>>]
PlotMode2(at, x, c) ==
    [what |-> "plot", at |-> at, x |-> x, c |-> c,
     ops |-> <<Out("write_mode", 2), Out("bit_mask", Bit(x)), In(at), Store(at, c)>>]
PlotMode3(at, x, c) ==
    [what |-> "plot", at |-> at, x |-> x, c |-> c,
     ops |-> <<Out("write_mode", 3), Out("set_reset", c), Out("rotate", x), In(at), Store(at, {Bits - 1})>>]
PlotPlanes(at, x, c) ==
    [what |-> "plot", at |-> at, x |-> x, c |-> c,
     ops |-> <<Out("bit_mask", Bit(x)), In(at), Out("map_mask", c), Store(at, Byte),
               Out("map_mask", PlaneSet \ c), Store(at, {})>>]

\* A byte copied through the latches, whatever the mask and the function are.
CopyLatch(from, to) ==
    [what |-> "copy", at |-> to, from |-> from,
     ops |-> <<Out("bit_mask", {}), Out("func", "xor"), Out("write_mode", 1), In(from), Store(to, {})>>]

\* A sprite drawn with XOR and drawn again.
XorTwice(at, v) ==
    [what |-> "nothing",
     ops |-> <<Out("func", "xor"), In(at), Store(at, v), In(at), Store(at, v)>>]

\* The pixels of a colour, as read mode 1 finds them.
Search(at, c, care) ==
    [what |-> "search", at |-> at, c |-> c, care |-> care,
     ops |-> <<Out("compare", TRUE), Out("cmp", c), Out("care", care), In(at)>>]

Programs ==
    UNION {{PlotSetReset(at, x, c), PlotMode2(at, x, c), PlotMode3(at, x, c), PlotPlanes(at, x, c)} :
              at \in Targets, x \in Pixels, c \in Colours}
    \cup {CopyLatch(from, to) : from \in Addresses, to \in Targets}
    \cup {XorTwice(at, v) : at \in Targets, v \in {{0}, Byte \ {0}}}
    \cup {Search(at, c, care) : at \in Targets, c, care \in Colours}

Init ==
    /\ planes \in [PlaneSet -> [Addresses -> SUBSET Byte]]
    /\ latch = [p \in PlaneSet |-> {}]
    /\ reg = Reset
    /\ got = {}
    /\ prog \in Programs
    /\ past = [prog |-> prog, planes |-> planes]

Next ==
    /\ prog.ops # <<>>
    /\ Run(Head(prog.ops))
    /\ prog' = [prog EXCEPT !.ops = Tail(@)]
    /\ UNCHANGED past

-----------------------------------------------------------------------------
\* The programs change the pixels they are for and no other, and a search finds the pixels
\* of its colour.
DrawsRight ==
    prog.ops = <<>> =>
        LET before == Picture(past.planes)
            after == Picture(planes)
            w == past.prog
        IN  CASE w.what = "plot" -> after = [before EXCEPT ![<<w.at, w.x>>] = w.c]
              [] w.what = "copy" ->
                    after = [q \in DOMAIN before |-> IF q[1] = w.at THEN before[<<w.from, q[2]>>] ELSE before[q]]
              [] w.what = "nothing" -> after = before
              [] w.what = "search" ->
                    after = before /\ got = {b \in Byte : before[<<w.at, Bits - 1 - b>>] \cap w.care = w.c \cap w.care}
=============================================================================
