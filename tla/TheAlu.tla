------------------------------- MODULE TheAlu -------------------------------
(* theM, src/c/them/op_codes.c and cpu.c: what the instructions of the      *)
(* emulated 8086 compute from the registers, a word of memory and the       *)
(* flags.  A machine here runs a short program; where it is and what        *)
(* interrupts it is TheIrq's matter.                                        *)
EXTENDS Integers, Sequences

CONSTANTS Programs,   \* sequences of instructions
          Values      \* what their two operands, ax and bx, begin with

VARIABLES prog,       \* what is left to run
          R,          \* the registers, and "m", a word of memory
          F,          \* the flags that are set
          fault,      \* "INT0" when a division raised it, "host" when it ends the emulator
          jump,       \* the last conditional jump was taken
          past        \* the program and what it began with

vars == <<prog, R, F, fault, jump, past>>

Size(w) == 2 ^ w
Bit(v, k) == (v \div Size(k)) % 2 = 1
Signed(w, v) == IF Bit(v, w - 1) THEN v - Size(w) ELSE v
Put(f, name, on) == IF on THEN f \cup {name} ELSE f \ {name}
Low(v) == v % 256
High(v) == v \div 256

-----------------------------------------------------------------------------
(* Registers by name: "al" and "ah" are the halves of "ax" and so on.        *)

Halves == [al |-> "ax", cl |-> "cx", dl |-> "dx", bl |-> "bx", ml |-> "m",
           ah |-> "ax", ch |-> "cx", dh |-> "dx", bh |-> "bx"]
IsByte(r) == r \in DOMAIN Halves
IsHigh(r) == r \in {"ah", "ch", "dh", "bh"}
Width(r) == IF IsByte(r) THEN 8 ELSE 16

\* get_reg8() and get_reg16(); rm_get8() and rm_get16() of a memory operand.
Get(regs, r) ==
    IF ~IsByte(r) THEN regs[r] ELSE IF IsHigh(r) THEN High(regs[Halves[r]]) ELSE Low(regs[Halves[r]])

\* set_reg8() and set_reg16(); rm_set8() and rm_set16().
Set(regs, r, v) ==
    IF ~IsByte(r) THEN [regs EXCEPT ![r] = v]
    ELSE [regs EXCEPT ![Halves[r]] = IF IsHigh(r) THEN Low(@) + 256 * v ELSE 256 * High(@) + v]

\* fetch_rm(): the offset a ModR/M byte names, and the segment it is in unless a prefix
\* says otherwise.
Address(regs, mod, rm, disp) ==
    LET base == CASE rm = 0 -> regs.bx + regs.si
                  [] rm = 1 -> regs.bx + regs.di
                  [] rm = 2 -> regs.bp + regs.si
                  [] rm = 3 -> regs.bp + regs.di
                  [] rm = 4 -> regs.si
                  [] rm = 5 -> regs.di
                  [] rm = 6 -> IF mod = 0 THEN disp ELSE regs.bp
                  [] OTHER -> regs.bx
        more == CASE mod = 1 -> Signed(8, disp) [] mod = 2 -> Signed(16, disp) [] OTHER -> 0
    IN  [off |-> (base + more + Size(16)) % Size(16),
         seg |-> IF rm \in {2, 3} \/ (rm = 6 /\ mod # 0) THEN "ss" ELSE "ds"]

-----------------------------------------------------------------------------
(* Sums and bits.                                                            *)

\* The bits of a word that are set, and the word with these bits: what &, | and ^ are about.
Ones(v) == {k \in 0 .. 15 : Bit(v, k)}
Word(S) == LET n[k \in 0 .. 16] == IF k = 0 THEN 0 ELSE n[k - 1] + IF k - 1 \in S THEN Size(k - 1) ELSE 0
           IN  n[16]

Even(v) == LET ones[k \in 0 .. 8] == IF k = 0 THEN 0 ELSE ones[k - 1] + ((v \div Size(k - 1)) % 2)
           IN  ones[8] % 2 = 0

\* set_szp8() and set_szp16(): the parity is the low byte's.
SetSzp(f, w, r) == Put(Put(Put(f, "ZF", r = 0), "SF", Bit(r, w - 1)), "PF", Even(Low(r)))

\* add8() and add16(): the carry is the bit above, the overflow a sign that the signs of
\* the operands do not allow.
Sum(f, w, a, b, c) ==
    LET full == a + b + c
        r == full % Size(w)
    IN  [r |-> r,
         f |-> Put(Put(Put(SetSzp(f, w, r), "CF", full >= Size(w)), "AF", (Bit(a, 4) # Bit(b, 4)) # Bit(r, 4)),
                   "OF", Bit(a, w - 1) = Bit(b, w - 1) /\ Bit(a, w - 1) # Bit(r, w - 1))]

\* Faulty variant: the borrow that comes in does not count for the one that goes out.
DifferenceNoBorrow(f, w, a, b, c) ==
    LET r == (a - b - c + 2 * Size(w)) % Size(w)
    IN  [r |-> r, f |-> Put(SetSzp(f, w, r), "CF", a < b)]

\* sub8() and sub16().
Difference(f, w, a, b, c) ==
    LET r == (a - b - c + 2 * Size(w)) % Size(w)
    IN  [r |-> r,
         f |-> Put(Put(Put(SetSzp(f, w, r), "CF", a - b - c < 0), "AF", (Bit(a, 4) # Bit(b, 4)) # Bit(r, 4)),
                   "OF", Bit(a, w - 1) # Bit(b, w - 1) /\ Bit(a, w - 1) # Bit(r, w - 1))]

\* logic8() and logic16().
Logic(f, w, r) == [r |-> r, f |-> SetSzp(f \ {"CF", "OF", "AF"}, w, r)]

Carry(f) == IF "CF" \in f THEN 1 ELSE 0

\* alu8() and alu16(): CMP leaves its operand alone.
Alu(f, op, w, a, b) ==
    CASE op = "ADD" -> Sum(f, w, a, b, 0)
      [] op = "OR" -> Logic(f, w, Word(Ones(a) \cup Ones(b)))
      [] op = "ADC" -> Sum(f, w, a, b, Carry(f))
      [] op = "SBB" -> Difference(f, w, a, b, Carry(f))
      [] op = "AND" -> Logic(f, w, Word(Ones(a) \cap Ones(b)))
      [] op = "SUB" -> Difference(f, w, a, b, 0)
      [] op = "XOR" -> Logic(f, w, Word((Ones(a) \cup Ones(b)) \ (Ones(a) \cap Ones(b))))
      [] OTHER -> [r |-> a, f |-> Difference(f, w, a, b, 0).f]

\* INC and DEC leave the carry alone; NEG sets it unless there was nothing to negate.
Unary(f, op, w, v) ==
    CASE op = "INC" -> [Sum(f, w, v, 1, 0) EXCEPT !.f = Put(@, "CF", "CF" \in f)]
      [] op = "DEC" -> [Difference(f, w, v, 1, 0) EXCEPT !.f = Put(@, "CF", "CF" \in f)]
      [] op = "NOT" -> [r |-> Size(w) - 1 - v, f |-> f]
      [] op = "NEG" -> [Difference(f, w, 0, v, 0) EXCEPT !.f = Put(@, "CF", v # 0)]

\* shift8() and shift16(): the rotations go bit by bit, RCL and RCR through the carry.
Rotated(op, w, v, c, n) ==
    LET one(x) == CASE op = "ROL" -> [v |-> 2 * (x.v % Size(w - 1)) + x.v \div Size(w - 1), c |-> x.c]
                    [] op = "ROR" -> [v |-> x.v \div 2 + (x.v % 2) * Size(w - 1), c |-> x.c]
                    [] op = "RCL" -> [v |-> 2 * (x.v % Size(w - 1)) + x.c, c |-> x.v \div Size(w - 1)]
                    [] op = "RCR" -> [v |-> x.v \div 2 + x.c * Size(w - 1), c |-> x.v % 2]
                    [] op = "SAR" -> [v |-> x.v \div 2 + (IF Bit(x.v, w - 1) THEN Size(w - 1) ELSE 0), c |-> x.v % 2]
        times[k \in 0 .. n] == IF k = 0 THEN [v |-> v, c |-> c] ELSE one(times[k - 1])
    IN  times[n]

\* Faulty variant: RCL turns the bits of the operand without the carry.
ShiftRclShort(f, op, w, v, count) == LET x == Rotated("ROL", w, v, 0, count) IN [r |-> x.v, f |-> f]

Shift(f, op, w, v, count) ==
    LET n == count % 32
        x == Rotated(op, w, v, Carry(f), n)
        top == Bit(x.v, w - 1)
        left == IF n >= w THEN 0 ELSE (v * Size(n)) % Size(w)
        right == IF n >= w THEN 0 ELSE v \div Size(n)
        outLeft == n <= w /\ Bit(v, w - n)
        outRight == n <= w /\ Bit(v, n - 1)
        shifted(r, cf, of) == [r |-> r, f |-> Put(Put(SetSzp(f \ {"AF"}, w, r), "CF", cf), "OF", of)]
        turned(cf, of) == [r |-> x.v, f |-> Put(Put(f, "CF", cf), "OF", of)]
    IN  CASE n = 0 -> [r |-> v, f |-> f]
          [] op = "ROL" -> turned(x.v % 2 = 1, top # (x.v % 2 = 1))
          [] op = "ROR" -> turned(top, top # Bit(x.v, w - 2))
          [] op = "RCL" -> turned(x.c = 1, top # (x.c = 1))
          [] op = "RCR" -> turned(x.c = 1, top # Bit(x.v, w - 2))
          [] op = "SHL" -> shifted(left, outLeft, Bit(left, w - 1) # outLeft)
          [] op = "SHR" -> shifted(right, outRight, Bit(v, w - 1))
          [] OTHER -> shifted(x.v, x.c = 1, FALSE)

-----------------------------------------------------------------------------
(* Decimal adjustments, products and quotients: they work on ax and dx.      *)

\* DAA and DAS.
Daa(s, sub) ==
    LET al == Low(s.R.ax)
        low == al % 16 > 9 \/ "AF" \in s.F
        high == al > 153 \/ "CF" \in s.F
        step1 == IF low THEN (al + (IF sub THEN 250 ELSE 6)) % 256 ELSE al
        carry1 == low /\ ("CF" \in s.F \/ IF sub THEN al < 6 ELSE step1 < 6)
        r == IF high THEN (step1 + (IF sub THEN 160 ELSE 96)) % 256 ELSE step1
    IN  [s EXCEPT !.R.ax = 256 * High(@) + r,
                  !.F = SetSzp(Put(Put(@, "AF", low), "CF", carry1 \/ high), 8, r)]

\* AAA and AAS.
Aaa(s, sub) ==
    LET adjust == s.R.ax % 16 > 9 \/ "AF" \in s.F
        minus6 == (s.R.ax + Size(16) - 6) % Size(16)
        ax == IF ~adjust THEN s.R.ax
              ELSE IF sub THEN Low(minus6) + 256 * ((High(minus6) + 255) % 256)
              ELSE (s.R.ax + 262) % Size(16)
    IN  [s EXCEPT !.R.ax = 256 * High(ax) + (ax % 16), !.F = Put(Put(@, "AF", adjust), "CF", adjust)]

Fault(s) == [s EXCEPT !.fault = "INT0"]

\* AAM and AAD.
Aam(s, base) ==
    IF base = 0 THEN Fault(s)
    ELSE LET al == Low(s.R.ax)
         IN  [s EXCEPT !.R.ax = 256 * (al \div base) + (al % base), !.F = SetSzp(@, 8, al % base)]

Aad(s, base) ==
    LET al == Low(Low(s.R.ax) + High(s.R.ax) * base)
    IN  [s EXCEPT !.R.ax = al, !.F = SetSzp(@, 8, al)]

\* The two words of a product, and of a signed number.
Product(a, b) ==
    LET low == a * Low(b)
        high == a * High(b) + low \div 256
    IN  [hi |-> high \div 256, lo |-> 256 * (high % 256) + (low % 256)]

Words(n) == [hi |-> (n \div Size(16)) % Size(16), lo |-> n % Size(16)]

\* MUL and IMUL of al by a byte and of ax by a word.
Mul(s, w, v) ==
    LET p == IF w = 8 THEN [hi |-> High(Low(s.R.ax) * v), lo |-> Low(Low(s.R.ax) * v)] ELSE Product(s.R.ax, v)
        f == Put(Put(Put(SetSzp(s.F, w, p.lo), "CF", p.hi # 0), "OF", p.hi # 0), "ZF", p.hi = 0 /\ p.lo = 0)
    IN  IF w = 8 THEN [s EXCEPT !.R.ax = 256 * p.hi + p.lo, !.F = f]
        ELSE [s EXCEPT !.R.ax = p.lo, !.R.dx = p.hi, !.F = f]

Imul(s, w, v) ==
    LET n == (IF w = 8 THEN Signed(8, Low(s.R.ax)) ELSE Signed(16, s.R.ax)) * Signed(w, v)
        long == Signed(w, n % Size(w)) # n
        f == Put(Put(s.F, "CF", long), "OF", long)
    IN  IF w = 8 THEN [s EXCEPT !.R.ax = Words(n).lo, !.F = f]
        ELSE [s EXCEPT !.R.ax = Words(n).lo, !.R.dx = Words(n).hi, !.F = f]

\* C divides towards zero; below zero so that the smallest number has a quotient by 1.
Quotient(n, d) ==
    LET size == IF d < 0 THEN -d ELSE d
        above == n \div size
        below == -((-(n + 1)) \div size) - (IF (-(n + 1)) % size = size - 1 THEN 1 ELSE 0)
    IN  IF n < 0 THEN (IF d < 0 THEN -below ELSE below) ELSE IF d < 0 THEN -above ELSE above

\* DIV: a quotient that does not fit, or a divisor of 0, raises INT 0 and changes nothing.
Div(s, w, v) ==
    IF w = 8
    THEN IF v = 0 \/ High(s.R.ax) >= v THEN Fault(s)
         ELSE [s EXCEPT !.R.ax = 256 * (@ % v) + (@ \div v)]
    ELSE IF v = 0 \/ s.R.dx >= v THEN Fault(s)
         ELSE LET first == 256 * s.R.dx + High(s.R.ax)
                  second == 256 * (first % v) + Low(s.R.ax)
              IN  [s EXCEPT !.R.ax = 256 * (first \div v) + second \div v, !.R.dx = second % v]

\* Faulty variant: the quotient is not looked at.
IdivUnchecked(s, w, v) ==
    IF v = 0 THEN Fault(s)
    ELSE LET q == Quotient(Signed(16, s.R.ax), Signed(w, v))
         IN  [s EXCEPT !.R.ax = 256 * ((Signed(16, s.R.ax) - q * Signed(w, v)) % 256) + (q % 256)]

\* IDIV.  The smallest number by -1 has no quotient in C either: the host's processor raises
\* the exception of a division, and the emulator ends.
Idiv(s, w, v) ==
    LET n == IF w = 8 THEN Signed(16, s.R.ax) ELSE Signed(16, s.R.dx) * Size(16) + s.R.ax
        d == Signed(w, v)
        q == Quotient(n, d)
        r == n - q * d
    IN  IF v = 0 THEN Fault(s)
        ELSE IF w = 16 /\ s.R.dx = Size(15) /\ s.R.ax = 0 /\ d = -1 THEN [s EXCEPT !.fault = "host"]
        ELSE IF q >= Size(w - 1) \/ q < -Size(w - 1) THEN Fault(s)
        ELSE IF w = 8 THEN [s EXCEPT !.R.ax = 256 * (r % 256) + (q % 256)]
        ELSE [s EXCEPT !.R.ax = q % Size(16), !.R.dx = r % Size(16)]
-----------------------------------------------------------------------------
(* step(): the instructions, prefixes and encodings aside.  An instruction   *)
(* has an operand d and a second one, s, a register or the immediate n.      *)

AluOps == {"ADD", "OR", "ADC", "SBB", "AND", "SUB", "XOR", "CMP"}
Second(s, i) == IF i.s = "imm" THEN i.n ELSE Get(s.R, i.s)
Stored(s, d, x) == [s EXCEPT !.R = Set(@, d, x.r), !.F = x.f]

\* The six encodings of the ALU group, the immediate group and TEST.
AluGroup(s, i) ==
    IF i.op = "TEST" THEN [s EXCEPT !.F = Logic(@, Width(i.d), Word(Ones(Get(s.R, i.d)) \cap Ones(Second(s, i)))).f]
    ELSE Stored(s, i.d, Alu(s.F, i.op, Width(i.d), Get(s.R, i.d), Second(s, i)))

\* C0, C1 and D0 to D3, and the one-operand instructions of 40 to 4F, F6, F7, FE and FF.
ShiftGroup(s, i) == Stored(s, i.d, Shift(s.F, i.op, Width(i.d), Get(s.R, i.d), Second(s, i)))
UnaryGroup(s, i) ==
    CASE i.op = "MUL" -> Mul(s, Width(i.d), Get(s.R, i.d))
      [] i.op = "IMUL" -> Imul(s, Width(i.d), Get(s.R, i.d))
      [] i.op = "DIV" -> Div(s, Width(i.d), Get(s.R, i.d))
      [] i.op = "IDIV" -> Idiv(s, Width(i.d), Get(s.R, i.d))
      [] OTHER -> Stored(s, i.d, Unary(s.F, i.op, Width(i.d), Get(s.R, i.d)))

\* 27, 2F, 37, 3F, D4 and D5.
DecimalGroup(s, i) ==
    CASE i.op = "DAA" -> Daa(s, FALSE) [] i.op = "DAS" -> Daa(s, TRUE)
      [] i.op = "AAA" -> Aaa(s, FALSE) [] i.op = "AAS" -> Aaa(s, TRUE)
      [] i.op = "AAM" -> Aam(s, i.n) [] i.op = "AAD" -> Aad(s, i.n)

\* 86 to 8B, 8D, 91 to 99, B0 to BF, C6, C7.
MoveGroup(s, i) ==
    CASE i.op = "MOV" -> [s EXCEPT !.R = Set(@, i.d, Second(s, i))]
      [] i.op = "XCHG" -> [s EXCEPT !.R = Set(Set(@, i.d, Get(s.R, i.s)), i.s, Get(s.R, i.d))]
      [] i.op = "LEA" -> [s EXCEPT !.R = Set(@, i.d, Address(s.R, 1, i.rm, i.n).off)]
      [] i.op = "CBW" -> [s EXCEPT !.R.ax = Signed(8, Low(@)) % Size(16)]
      [] i.op = "CWD" -> [s EXCEPT !.R.dx = IF Bit(s.R.ax, 15) THEN Size(16) - 1 ELSE 0]
      [] i.op = "SALC" -> [s EXCEPT !.R = Set(@, "al", IF "CF" \in s.F THEN 255 ELSE 0)]

\* SAHF and LAHF: SF, ZF, AF, PF and CF, and the bit that reads as one.
FlagBits == [SF |-> 128, ZF |-> 64, AF |-> 16, PF |-> 4, CF |-> 1]
FlagByte(f) ==
    LET bit(x) == IF x \in f THEN FlagBits[x] ELSE 0
    IN  bit("SF") + bit("ZF") + bit("AF") + bit("PF") + bit("CF") + 2

FlagGroup(s, i) ==
    CASE i.op = "LAHF" -> [s EXCEPT !.R = Set(@, "ah", FlagByte(s.F))]
      [] i.op = "SAHF" -> [s EXCEPT !.F = (@ \ DOMAIN FlagBits) \cup
                              {x \in DOMAIN FlagBits : (High(s.R.ax) \div FlagBits[x]) % 2 = 1}]
      [] i.op = "CMC" -> [s EXCEPT !.F = Put(@, "CF", "CF" \notin @)]
      [] i.op = "CLC" -> [s EXCEPT !.F = @ \ {"CF"}]
      [] i.op = "STC" -> [s EXCEPT !.F = @ \cup {"CF"}]

\* Faulty variant: less means that the difference is negative.
ConditionBySign(f, c) ==
    CASE c = "B" -> "CF" \in f [] c = "E" -> "ZF" \in f [] c = "BE" -> {"CF", "ZF"} \cap f # {}
      [] c = "L" -> "SF" \in f [] c = "LE" -> {"SF", "ZF"} \cap f # {} [] OTHER -> c \in f

\* 70 to 7F: the even ones; the odd ones are their negations.
Condition(f, c) ==
    CASE c = "B" -> "CF" \in f
      [] c = "E" -> "ZF" \in f
      [] c = "BE" -> {"CF", "ZF"} \cap f # {}
      [] c = "L" -> ("SF" \in f) # ("OF" \in f)
      [] c = "LE" -> "ZF" \in f \/ ("SF" \in f) # ("OF" \in f)
      [] OTHER -> c \in f

\* E0 to E3 count before they look; JCXZ only looks.
JumpGroup(s, i) ==
    LET cx == IF i.op \in {"LOOP", "LOOPZ", "LOOPNZ"} THEN (s.R.cx + Size(16) - 1) % Size(16) ELSE s.R.cx
    IN  [s EXCEPT !.R.cx = cx,
                  !.jump = CASE i.op = "J" -> Condition(s.F, i.c)
                             [] i.op = "JN" -> ~Condition(s.F, i.c)
                             [] i.op = "LOOP" -> cx # 0
                             [] i.op = "LOOPZ" -> cx # 0 /\ "ZF" \in s.F
                             [] i.op = "LOOPNZ" -> cx # 0 /\ "ZF" \notin s.F
                             [] i.op = "JCXZ" -> cx = 0]

Execute(s, i) ==
    CASE i.op \in AluOps \cup {"TEST"} -> AluGroup(s, i)
      [] i.op \in {"ROL", "ROR", "RCL", "RCR", "SHL", "SHR", "SAR"} -> ShiftGroup(s, i)
      [] i.op \in {"INC", "DEC", "NOT", "NEG", "MUL", "IMUL", "DIV", "IDIV"} -> UnaryGroup(s, i)
      [] i.op \in {"DAA", "DAS", "AAA", "AAS", "AAM", "AAD"} -> DecimalGroup(s, i)
      [] i.op \in {"MOV", "XCHG", "LEA", "CBW", "CWD", "SALC"} -> MoveGroup(s, i)
      [] i.op \in {"LAHF", "SAHF", "CMC", "CLC", "STC"} -> FlagGroup(s, i)
      [] OTHER -> JumpGroup(s, i)

State == [R |-> R, F |-> F, fault |-> fault, jump |-> jump]

Init ==
    /\ prog \in Programs
    /\ \E a, b \in Values, f \in {{}, {"CF"}} :
          /\ R = [ax |-> a, bx |-> b, cx |-> b, dx |-> a, bp |-> b, si |-> a, di |-> b, m |-> b]
          /\ F = f
    /\ fault = "none" /\ jump = FALSE
    /\ past = [prog |-> prog, R |-> R, F |-> F]

Next ==
    /\ prog # <<>> /\ fault = "none"
    /\ LET s == Execute(State, Head(prog))
       IN  R' = s.R /\ F' = s.F /\ fault' = s.fault /\ jump' = s.jump
    /\ prog' = Tail(prog)
    /\ UNCHANGED past

-----------------------------------------------------------------------------
Ran(ops) == prog = <<>> /\ [k \in DOMAIN past.prog |-> past.prog[k].op] = ops
First == past.prog[1]
Was(r) == Get(past.R, r)
CarryIn == IF First.op \in {"ADC", "SBB"} THEN Carry(past.F) ELSE 0
InRange(w, n) == -Size(w - 1) <= n /\ n < Size(w - 1)

\* Sums and differences with their carry are those of the numbers, signed and unsigned,
\* and a jump after CMP is taken as the comparison of the numbers has it.
ArithmeticRight ==
    \A op \in {"ADD", "ADC", "SUB", "SBB"} : Ran(<<op>>) =>
        LET w == Width(First.d)
            a == Was(First.d)
            b == Was(First.s)
            sign == IF op \in {"ADD", "ADC"} THEN 1 ELSE -1
            n == a + sign * (b + CarryIn)
        IN  /\ Get(R, First.d) = n % Size(w)
            /\ ("CF" \in F) = (n < 0 \/ n >= Size(w))
            /\ ("OF" \in F) = ~InRange(w, Signed(w, a) + sign * (Signed(w, b) + CarryIn))
            /\ ("ZF" \in F) = (n % Size(w) = 0)

JumpsRight ==
    \A op \in {"J", "JN"} : Ran(<<"CMP", op>>) =>
        LET w == Width(First.d)
            a == Was(First.d)
            b == Was(First.s)
            holds == CASE past.prog[2].c = "B" -> a < b
                       [] past.prog[2].c = "BE" -> a <= b
                       [] past.prog[2].c = "E" -> a = b
                       [] past.prog[2].c = "L" -> Signed(w, a) < Signed(w, b)
                       [] past.prog[2].c = "LE" -> Signed(w, a) <= Signed(w, b)
        IN  jump = (holds = (op = "J"))

\* Two decimal digits in a byte: the adjustment after ADD or SUB gives the digits of the
\* sum or difference, and a carry beyond them; likewise a digit in al with AAA and AAS.
Digits(v) == IF Low(v) % 16 < 10 /\ Low(v) \div 16 < 10 THEN {10 * (Low(v) \div 16) + (Low(v) % 16)} ELSE {}
DecimalRight ==
    \A x \in Digits(past.R.ax), y \in Digits(past.R.bx) :
        /\ Ran(<<"ADD", "DAA">>) => Digits(R.ax) = {(x + y) % 100} /\ ("CF" \in F) = (x + y > 99)
        /\ Ran(<<"SUB", "DAS">>) => Digits(R.ax) = {(x - y) % 100} /\ ("CF" \in F) = (x < y)
        /\ x < 10 /\ y < 10 =>
              /\ Ran(<<"ADD", "AAA">>) => Low(R.ax) = (x + y) % 10 /\ ("CF" \in F) = (x + y > 9)
              /\ Ran(<<"SUB", "AAS">>) => Low(R.ax) = (x - y) % 10 /\ ("CF" \in F) = (x < y)

\* What a division began with: the first registers, or these with a number in ax.
Divided == IF First.op = "MOV" THEN [past.R EXCEPT !.ax = First.n] ELSE past.R

\* The quotient of n by d, towards zero, is a signed number of w bits.
Fits(w, n, d) ==
    (IF n < 0 THEN n ELSE -n) >
        -(IF d < 0 THEN -d ELSE d) * (IF (n < 0) = (d < 0) THEN Size(w - 1) ELSE Size(w - 1) + 1)

\* op_codes.c, F6 and F7: a quotient and a remainder, of bytes and of words, are those of the
\* division, the remainder with the sign of what was divided; a division that has none, or whose
\* quotient does not fit, raises INT 0 and changes nothing.  But 80000000h by -1 raises nothing
\* in the guest: it ends the emulator.
DivisionRight ==
    LET i == past.prog[Len(past.prog)]
        w == Width(i.d)
        v == Get(Divided, i.d)
        q == IF w = 8 THEN Low(R.ax) ELSE R.ax
        r == IF w = 8 THEN High(R.ax) ELSE R.dx
    IN  prog = <<>> /\ First.op \in {"DIV", "IDIV", "MOV"} =>
        /\ i.op = "DIV" =>
              LET p == Product(q, v)
                  hi == IF w = 8 THEN 0 ELSE Divided.dx
              IN  IF fault = "INT0"
                  THEN R = Divided /\ (v = 0 \/ v <= IF w = 8 THEN High(Divided.ax) ELSE Divided.dx)
                  ELSE /\ r < v
                       /\ (p.lo + r) % Size(16) = Divided.ax /\ p.hi + (p.lo + r) \div Size(16) = hi
        /\ i.op = "IDIV" =>
              LET n == IF w = 8 THEN Signed(16, Divided.ax) ELSE Signed(16, Divided.dx) * Size(16) + Divided.ax
                  d == Signed(w, v)
                  rest == Signed(w, r)
              IN  CASE fault = "INT0" -> R = Divided /\ (d = 0 \/ ~Fits(w, n, d))
                    [] fault = "host" -> w = 16 /\ n = (-Size(15)) * Size(16) /\ d = -1
                    [] OTHER -> /\ n = Signed(w, q) * d + rest
                                /\ rest # 0 => (rest < 0) = (n < 0)
                                /\ rest * rest < d * d

\* A product divided by its factor, a rotation turned back, digits joined again, flags
\* stored and loaded, an INC undone: what was there is there again.
InverseRight ==
    /\ \A op \in {<<"MUL", "DIV">>, <<"IMUL", "IDIV">>} :
          Ran(op) /\ Was("bx") # 0 => fault = "none" /\ R = [past.R EXCEPT !.dx = 0]
    /\ \A op \in {<<"RCL", "RCR">>, <<"INC", "DEC">>, <<"LAHF", "SAHF">>} :
          Ran(op) => ("CF" \in F) = ("CF" \in past.F) /\ Low(R.ax) = Low(past.R.ax)
    /\ \A op \in {<<"ROL", "ROR">>, <<"XCHG", "XCHG">>} : Ran(op) => R = past.R
    /\ Ran(<<"AAM", "AAD">>) => R.ax = Low(past.R.ax)
    /\ Ran(<<"NEG", "NEG">>) => R = past.R /\ ("CF" \in F) = (R.ax # 0)

\* op_codes.c, shift8() and shift16(): a shift by cl is as many shifts by one bit as the low
\* five bits of cl say, and the carry is the bit that went out last; by none of them nothing
\* changes.
ShiftRight ==
    \A op \in {"SHL", "SHR", "SAR"} : Ran(<<op>>) =>
        LET w == Width(First.d)
            n == Low(past.R.cx) % 32
            one(x) == CASE op = "SHL" -> [v |-> (2 * x.v) % Size(w), c |-> Bit(x.v, w - 1)]
                        [] op = "SHR" -> [v |-> x.v \div 2, c |-> Bit(x.v, 0)]
                        [] op = "SAR" -> [v |-> (Signed(w, x.v) \div 2) % Size(w), c |-> Bit(x.v, 0)]
            times[k \in 0 .. n] == IF k = 0 THEN [v |-> Was(First.d), c |-> "CF" \in past.F] ELSE one(times[k - 1])
        IN  Get(R, First.d) = times[n].v /\ ("CF" \in F) = times[n].c
=============================================================================
