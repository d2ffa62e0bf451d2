----------------------------- MODULE TheStrings -----------------------------
(* theM, src/c/them/op_codes.c: string instructions with their prefixes.  A  *)
(* repeat is run a slice at a time, so that the machine can poll its         *)
(* hardware in between, and is decoded anew for the next slice.              *)
EXTENDS Integers, Sequences

CONSTANTS Size,         \* of a segment; offsets wrap in it
          Slice,        \* STRING_SLICE, and the work between two polls
          MaxPrefix,    \* the prefixes of an instruction at most, 15
          Codes,        \* the instructions: prefixes and an operation
          MaxCount      \* the largest CX: a bound

VARIABLES m,            \* registers, ZF, memory by segment, and what the ports did
          code, ip,     \* the instruction, and which byte of it is next
          work,         \* since hw_poll()
          past          \* history: what m was when the repeat began, or began anew

vars == <<m, code, ip, work, past>>

Offsets == 0 .. Size - 1
At(o, n) == (o + n) % Size
Segments == {"ds", "es"}
Repeats == {"REPE", "REPNE"}
Compares == {"CMPSB", "CMPSW", "SCASB", "SCASW"}
IsWord(op) == op \in {"MOVSW", "CMPSW", "STOSW", "LODSW", "SCASW", "INSW", "OUTSW"}

-----------------------------------------------------------------------------
(* One pass.                                                                 *)

\* mem_r8() and mem_r16(), mem_w8() and mem_w16(): a word wraps in its segment.
Load(s, seg, o, w) == IF w THEN <<s.mem[seg][o], s.mem[seg][At(o, 1)]>> ELSE <<s.mem[seg][o]>>
Store(s, seg, o, v) ==
    [s EXCEPT !.mem[seg] = [p \in Offsets |-> IF p = o THEN v[1]
                                              ELSE IF Len(v) = 2 /\ p = At(o, 1) THEN v[2] ELSE @[p]]]

\* string_step(): the source is DS unless a prefix names another segment, the destination
\* is always ES.
StringStep(s, op, src) ==
    LET w == IsWord(op)
        delta == (IF w THEN 2 ELSE 1) * (IF s.df THEN -1 ELSE 1)
        from == Load(s, src, s.si, w)
        to == Load(s, "es", s.di, w)
        acc == IF w THEN s.ax ELSE <<s.ax[1]>>
        si(t) == [t EXCEPT !.si = At(@, delta + Size)]
        di(t) == [t EXCEPT !.di = At(@, delta + Size)]
    IN  CASE op \in {"MOVSB", "MOVSW"} -> si(di(Store(s, "es", s.di, from)))
          [] op \in {"CMPSB", "CMPSW"} -> si(di([s EXCEPT !.zf = (from = to)]))
          [] op \in {"STOSB", "STOSW"} -> di(Store(s, "es", s.di, acc))
          [] op \in {"LODSB", "LODSW"} -> si([s EXCEPT !.ax = IF w THEN from ELSE <<from[1], @[2]>>])
          [] op \in {"SCASB", "SCASW"} -> di([s EXCEPT !.zf = (acc = to)])
          [] op \in {"INSB", "INSW"} ->
                di(Store([s EXCEPT !.read = @ + Len(acc)], "es", s.di, [k \in DOMAIN acc |-> (s.read + k) % 2]))
          [] OTHER -> si([s EXCEPT !.written = Append(@, from)])

-----------------------------------------------------------------------------
(* string_run().                                                             *)

\* What ends a repeat of a comparison.
Decided(s, op, rep) == op \in Compares /\ s.zf = (rep = "REPNE")

Pass(s, op, src) == [StringStep(s, op, src) EXCEPT !.cx = @ - 1]

\* Faulty variant: a repeat runs to its end.
OutOfSliceNever(n, s) == FALSE

\* The slice is over and there is work left: looked at before the comparison's outcome.
OutOfSlice(n, s) == n >= Slice /\ s.cx > 0

\* Where the repeat stands after its n-th pass, and whether it goes on.
StringRun(s, op, src, rep) ==
    LET run[n \in 0 .. MaxCount] ==
            IF n = 0 THEN [s |-> s, n |-> 0, goes |-> s.cx > 0, more |-> FALSE]
            ELSE IF ~run[n - 1].goes THEN run[n - 1]
            ELSE LET t == Pass(run[n - 1].s, op, src)
                     cut == OutOfSlice(n, t)
                 IN  [s |-> t, n |-> n, more |-> cut, goes |-> ~cut /\ ~Decided(t, op, rep) /\ t.cx > 0]
    IN  IF rep = "none" THEN [s |-> StringStep(s, op, src), n |-> 0, more |-> FALSE] ELSE run[MaxCount]

-----------------------------------------------------------------------------
(* step().                                                                   *)

\* The prefixes from byte i on, cut after MaxPrefix, and where the operation is.
OpAt(i) == CHOOSE k \in i .. Len(code) :
    /\ k - i = MaxPrefix \/ k = Len(code)
    /\ k - i <= MaxPrefix
Last(i, k, set, none) ==
    IF \E j \in i .. k - 1 : code[j] \in set
    THEN code[CHOOSE j \in i .. k - 1 : code[j] \in set /\ \A l \in j + 1 .. k - 1 : code[l] \notin set]
    ELSE none

\* Faulty variant: a repeat is entered again behind its prefixes.
ResumeAtAfter(entry, at) == at

\* An unfinished repeat is entered again as it was first decoded.
ResumeAt(entry, at) == entry

Step ==
    /\ ip <= Len(code) /\ work < Slice
    /\ LET k == OpAt(ip)
           src == Last(ip, k, Segments, "ds")
           rep == Last(ip, k, Repeats, "none")
           x == StringRun(m, code[k], src, rep)
       IN  IF code[k] \in Segments \cup Repeats \cup {"LOCK"}
           THEN ip' = k + 1 /\ work' = work + 1 /\ UNCHANGED <<m, past>>
           ELSE /\ m' = x.s
                /\ ip' = IF x.more THEN ResumeAt(ip, k) ELSE k + 1
                /\ work' = work + 1 + x.n
                /\ past' = IF x.more /\ Decided(x.s, code[k], rep) THEN x.s ELSE past
    /\ UNCHANGED code

\* The top of switch_opcode(): hardware, the screen, F12.  A handler that runs here
\* preserves the registers and the flags.
Poll == work >= Slice /\ work' = 0 /\ UNCHANGED <<m, code, ip, past>>

Init ==
    /\ code \in Codes
    /\ ip = 1 /\ work = Slice
    /\ \E cx \in 0 .. MaxCount, df \in BOOLEAN, mem \in [Segments -> [Offsets -> {0, 1}]] :
          m = [cx |-> cx, si |-> 0, di |-> 1, ax |-> <<1, 0>>, zf |-> FALSE, df |-> df, mem |-> mem,
               read |-> 0, written |-> <<>>]
    /\ past = m

Next == Step \/ Poll
Spec == Init /\ [][Next]_vars

-----------------------------------------------------------------------------
\* What the instruction does, from where it began, on a machine nothing interrupts.  It has
\* MaxPrefix prefixes at most in what follows.
Meant ==
    LET op == code[Len(code)]
        src == Last(1, Len(code), Segments, "ds")
        rep == Last(1, Len(code), Repeats, "none")
        run[n \in 0 .. MaxCount] ==
            IF n = 0 THEN past
            ELSE LET t == run[n - 1]
                 IN  IF t.cx = 0 \/ (n > 1 /\ Decided(t, op, rep)) THEN t ELSE Pass(t, op, src)
    IN  IF rep = "none" THEN StringStep(past, op, src) ELSE run[MaxCount]

\* A repeat that stops partway carries on with CX, SI and DI where it left them and ends as
\* if it had not stopped, comparisons included; and the machine looks at its hardware, and at
\* F12, after two slices of work at most.  The one exception is a comparison decided by the
\* very pass a slice ends with: string_run() looks at the slice first (op_codes.c:746), and the
\* repeat begins anew from there, with an element more, although 691-693 say that stopping
\* partway "is what the instruction is supposed to do".
StringsRight ==
    /\ ip > Len(code) /\ Len(code) <= MaxPrefix + 1 => m = Meant
    /\ work <= 2 * Slice
=============================================================================
