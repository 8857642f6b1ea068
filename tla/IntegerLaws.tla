---------------------------- MODULE IntegerLaws ----------------------------
(***************************************************************************)
(* Programs of integer instructions and what they must compute.            *)
(***************************************************************************)
EXTENDS GuestCode

Alu(idx, w, dst, src) == I("AluRm", [idx |-> idx] @@ Sized(w) @@ RegReg(dst, src))
MovReg(w, dst, src) == I("Mov", Sized(w) @@ RegReg(dst, src))
MovImm(w, dst, v) == I("Mov", [form |-> "short", reg |-> dst, imm |-> v] @@ Sized(w))
Pairs(w) == Edges(w) \X Edges(w)
AB(w, a, b) == Put(Put(Fresh, RAX, w, a), RCX, w, b)

-----------------------------------------------------------------------------
(* CMP, then SETcc, CMOVcc and Jcc on its flags.                           *)
OrderRuns ==
    UNION {{Program("order",
                <<Alu(7, w, RAX, RCX), I("Setcc", [cc |-> cc] @@ Pfx({"rex"}) @@ RegReg(0, RDX)),
                  I("Cmov", [cc |-> cc] @@ Sized(8) @@ RegReg(RSI, RDI)),
                  I("Jcc", [cc |-> cc, imm |-> 1]), MovImm(8, RBX, 1)>>,
                Set(Set(AB(w, ab[1], ab[2]), RBX, 0), RSI, 0), P(w, ab[1], ab[2], cc)) :
                ab \in Pairs(w), cc \in 0..15} : w \in {1, 2, 4, 8}}
(* After CMP every condition code says what its name says of the two       *)
(* operands, read as unsigned and as signed numbers of their width, and    *)
(* SETcc, CMOVcc and Jcc act on it alike.                                  *)
ConditionsOrder ==
    Done("order") =>
        LET p == run.p  c == Ordered(p.c, p.a, p.b, p.w)
        IN /\ R(RDX, 1) = (IF c THEN 1 ELSE 0)
           /\ m.gpr[RSI] = (IF c THEN m.gpr[RDI] ELSE 0)
           /\ m.gpr[RBX] = (IF c THEN 0 ELSE 1)
           /\ m.gpr[RAX] = run.m.gpr[RAX]

-----------------------------------------------------------------------------
(* A sum, and a difference, of numbers of two words: ADD, ADC and SUB, SBB.*)
(* c is 0 for the sum; its low word is added as an immediate on the        *)
(* accumulator or on r/m.                                                  *)
LowHalf(w, c, form, v) ==
    CASE form = 0 -> Alu(IF c = 0 THEN 0 ELSE 5, w, RAX, RCX)
      [] form = 1 -> I("AluAcc", [idx |-> IF c = 0 THEN 0 ELSE 5, imm |-> v] @@ Sized(w))
      [] form = 2 -> I("Group1", [idx |-> IF c = 0 THEN 0 ELSE 5, imm |-> v] @@ Sized(w) @@ RegReg(0, RAX))
WideRuns ==
    UNION {{Program("wide",
                <<LowHalf(w, c, form, v[2]), Alu(IF c = 0 THEN 2 ELSE 3, w, RDX, RBX)>>,
                Put(Put(AB(w, v[1], v[2]), RDX, w, v[3]), RBX, w, v[4]),
                P(w, v[1] + v[3] * Modulus(w), v[2] + v[4] * Modulus(w), c)) :
                v \in Low4(w) \X Low4(w) \X {0, Modulus(w) - 1} \X {0, Modulus(w) - 1}, c \in {0, 1},
                form \in 0..2} : w \in {2, 4}}
(* ADD then ADC computes the sum of two-word numbers and leaves its carry, *)
(* SUB then SBB the difference and its borrow, whichever path the low word *)
(* took (the 32-bit fast path of ADD included).                            *)
CarryChains ==
    Done("wide") =>
        LET p == run.p  n == Modulus(p.w)
            sum == IF p.c = 0 THEN p.a + p.b ELSE p.a - p.b
        IN /\ R(RAX, p.w) + R(RDX, p.w) * n = sum % (n * n)
           /\ ("CF" \in m.flags) = (sum \notin 0..(n * n - 1))
           /\ ("SF" \in m.flags) = Negative(m.gpr[RDX], p.w)

(* INC and DEC between two carries, on a register and in memory.           *)
StepOne(w, c, mem) ==
    I("IncDec", [idx |-> c] @@ Sized(w) @@ (IF mem THEN RegMem(0, RDI, 0) ELSE RegReg(0, RAX)))
CounterRuns ==
    UNION {{Program("counter", <<StepOne(w, c, mem), Alu(2, 8, RBX, RBX)>>,
                [Set(Set(Put(Fresh, RAX, w, v), RDI, PageBytes), RBX, 0) EXCEPT
                    !.flags = f, !.mem = [a \in DOMAIN @ |-> IF a \in PageBytes..(PageBytes + w - 1)
                                                             THEN u64ToLE(v, w)[a - PageBytes + 1] ELSE @[a]]],
                P(w, v, IF mem THEN 1 ELSE 0, c)) :
                v \in Edges(w), c \in {0, 1}, mem \in BOOLEAN, f \in {{}, {"CF"}}} : w \in {1, 2, 4, 8}}
(* A loop that counts with INC or DEC keeps the carry of its chain: the    *)
(* ADC after it adds the carry that was there before; the counter wraps    *)
(* at its width and leaves the rest of its register alone, but for the     *)
(* upper half that a 32-bit write clears.                                  *)
CountersKeepCarry ==
    Done("counter") =>
        LET p == run.p  v == Trunc(IF p.c = 0 THEN p.a + 1 ELSE p.a - 1, p.w)
        IN /\ m.gpr[RBX] = (IF "CF" \in run.m.flags THEN 1 ELSE 0)
           /\ IF p.b = 1 THEN leToU64(readChecked(m, PageBytes, p.w)) = v
              ELSE m.gpr[RAX] = (IF p.w = 4 THEN v ELSE Insert(run.m.gpr[RAX], 0, p.w, v))

-----------------------------------------------------------------------------
(* A product and the division that undoes it, unsigned (c = 0) and signed. *)
Grp3(idx, w, r) == I("Group3", [idx |-> idx] @@ Sized(w) @@ RegReg(0, r))
ProductRuns ==
    UNION {{Program("product",
                <<I("Imul", [form |-> "two"] @@ Sized(IF w = 1 THEN 2 ELSE w) @@ RegReg(RSI, RCX)),
                  Grp3(IF c = 0 THEN 4 ELSE 5, w, RCX),
                  I("Setcc", [cc |-> 2] @@ RegReg(0, RBX)),
                  Grp3(IF c = 0 THEN 6 ELSE 7, w, RCX)>>,
                Put(AB(w, ab[1], ab[2]), RSI, w, ab[1]), P(w, ab[1], ab[2], c)) :
                ab \in {x \in Pairs(w) : x[2] # 0}, c \in {0, 1}} : w \in {1, 2, 4, 8}}
Fits(p) == IF p.c = 0 THEN p.a <= (Modulus(p.w) - 1) \div p.b
           ELSE Signed(p.a, p.w) * Signed(p.b, p.w) \in -signBit(p.w)..(signBit(p.w) - 1)
(* The 64-bit IDIV takes only dividends of one word.                       *)
Divides(p) == p.w = 8 /\ p.c = 1 => Fits(p)
(* DIV by the multiplier gives back what MUL multiplied, with remainder 0, *)
(* and so does IDIV after IMUL (at 64 bits, when the product fits in one   *)
(* word); CF tells whether the product fits; the two-operand IMUL gives    *)
(* the low word of the same product.                                       *)
DivisionUndoesProduct ==
    /\ Done("product") =>
        LET p == run.p
        IN /\ Divides(p) => R(RAX, p.w) = p.a /\ R(RDX, p.w) = 0
           /\ (R(RBX, 1) = 1) = ~Fits(p)
           /\ p.w # 1 => R(RSI, p.w) = Trunc(Signed(p.a, p.w) * Signed(p.b, p.w), p.w)
    /\ run.law = "product" /\ Divides(run.p) => m.err = "ok"

(* NEG and NOT, and sign extension done three ways.                        *)
NegateRuns ==
    UNION {{Program("negate",
                <<MovReg(w, RBX, RAX), Grp3(3, w, RBX), MovReg(w, RSI, RAX), Grp3(2, w, RSI),
                  Alu(0, w, RBX, RAX), Alu(0, w, RSI, RAX)>>, AB(w, a, 0), P(w, a, 0, 0)) :
                a \in Edges(w)} : w \in {1, 2, 4, 8}}
ExtendRuns ==
    UNION {{Program("extend",
                <<I("MovExtend", [srcW |-> w \div 2, signed |-> TRUE] @@ Sized(w) @@ RegReg(RBX, RAX)),
                  I("ConvertAcc", Sized(w)), I("ConvertDx", Sized(w)),
                  I("Movsxd", Sized(8) @@ RegReg(RSI, RAX))>>,
                AB(w \div 2, a, 0), P(w, a, 0, 0)) : a \in Edges(w \div 2)} : w \in {2, 4, 8}}
(* x + NEG x is 0 and x + NOT x is -1 at every width; CBW, CWDE and CDQE   *)
(* extend the accumulator as MOVSX does, CWD, CDQ and CQO fill DX with its *)
(* sign, and MOVSXD extends once more what a 32-bit result left.           *)
SignsAgree ==
    /\ Done("negate") => R(RBX, run.p.w) = 0 /\ R(RSI, run.p.w) = Modulus(run.p.w) - 1
    /\ Done("extend") =>
        LET w == run.p.w
        IN /\ R(RAX, w) = R(RBX, w)
           /\ Signed(m.gpr[RAX], w) = Signed(run.p.a, w \div 2)
           /\ R(RDX, w) = (IF Negative(run.p.a, w \div 2) THEN Modulus(w) - 1 ELSE 0)
           /\ m.gpr[RSI] = signExtend(m.gpr[RAX], 4)

-----------------------------------------------------------------------------
(* Shifts and rotations, by an immediate and by CL.                        *)
Sh(idx, w, r, n, cl) ==
    I("Shift", [idx |-> idx, imm |-> n, form |-> IF cl THEN "cl" ELSE "imm"] @@ Sized(w) @@ RegReg(0, r))
RotateRuns ==
    UNION {{Program("rotate",
                <<Sh(0, w, RAX, n, cl), Sh(1, w, RAX, n, cl), Sh(4, w, RDX, n, cl), Sh(5, w, RDX, n, cl),
                  Sh(7, w, RBX, n, cl)>>,
                [Put(Put(Put(Put(Fresh, RAX, w, a), RDX, w, a), RBX, w, a), RCX, 1, n) EXCEPT !.flags = f],
                P(w, a, n, 0)) :
                a \in Edges(w), n \in {k \in 0..(Bits(w) + 1) : cl => k < Modulus(1)}, f \in {{}, {"CF"}}} :
                w \in {1, 2, 4, 8}, cl \in BOOLEAN}
(* ROR undoes ROL by the same count; SHL and then SHR leaves the bits that *)
(* were not shifted out; SAR divides by a power of two, rounding down, and *)
(* CF is the last bit out; a count that is 0 once it is masked leaves the  *)
(* flags as they were.                                                     *)
ShiftsCompose ==
    Done("rotate") =>
        LET p == run.p  n == p.b % (IF p.w = 8 THEN Bits(8) ELSE Bits(4))
            k == IF n > Bits(p.w) THEN Bits(p.w) ELSE n
        IN /\ R(RAX, p.w) = p.a
           /\ R(RDX, p.w) = p.a % 2^(Bits(p.w) - k)
           /\ Signed(m.gpr[RBX], p.w) = Signed(p.a, p.w) \div 2^k
           /\ ("CF" \in m.flags) = IF n = 0 THEN "CF" \in run.m.flags ELSE Bit(p.a, n - 1) = 1
           /\ n = 0 => m.flags = run.m.flags

(* SHLD and SHRD, by an immediate and by CL.                               *)
Dsh(left, w, dst, src, n, cl) ==
    I("DoubleShift", [left |-> left, imm |-> n, form |-> IF cl THEN "cl" ELSE "imm"] @@ Sized(w) @@ RegReg(src, dst))
FunnelRuns ==
    UNION {{Program("funnel", <<Dsh(TRUE, w, RAX, RBX, n, cl), Dsh(FALSE, w, RDX, RBX, n, cl)>>,
                Put(Put(Put(Put(Fresh, RAX, w, ab[1]), RDX, w, ab[1]), RBX, w, ab[2]), RCX, 1, n),
                P(w, ab[1], ab[2], n)) :
                ab \in Pairs(w), n \in {k \in 0..(Bits(w) - 1) : cl => k < Modulus(1)}} :
                w \in {2, 4}, cl \in BOOLEAN}
(* SHLD and SHRD give the upper and the lower word of the pair of their    *)
(* operands, shifted as one number.                                        *)
FunnelsShift ==
    Done("funnel") =>
        LET p == run.p  n == Modulus(p.w)
        IN /\ R(RAX, p.w) = (((p.a * n + p.b) * 2^p.c) \div n) % n
           /\ R(RDX, p.w) = ((p.b * n + p.a) \div 2^p.c) % n

-----------------------------------------------------------------------------
(* Bit counts and scans, byte swaps, and the bit instructions on registers.*)
Scan(op, w, dst) == I("BitScan", [op |-> op] @@ Sized(w) @@ RegReg(dst, RAX))
ScanRuns ==
    UNION {{Program("scan", <<Scan("tzcnt", w, RBX), Scan("bsf", w, RSI), Scan("lzcnt", w, RDX),
                              Scan("bsr", w, RDI), Scan("popcnt", w, RCX)>>,
                Put(Fresh, RAX, w, a), P(w, a, 0, 0)) :
                a \in Edges(w) \cup {signBit(w) + 6, Modulus(w) - 4}} : w \in {2, 4, 8}}
Bits1(op, n, w) == I("BtImm", [op |-> op, imm |-> n] @@ Sized(w) @@ RegReg(0, RAX))
BitsR(op, w) == I("Bt", [op |-> op] @@ Sized(w) @@ RegReg(RCX, RAX))
FlipRuns ==
    UNION {{Program("flip",
                <<BitsR("bts", w), Bits1("bt", n, w), I("Setcc", [cc |-> 2] @@ RegReg(0, RBX)),
                  Bits1("btr", n, w), BitsR("bt", w), I("Setcc", [cc |-> 2] @@ RegReg(0, RDX)),
                  BitsR("btc", w), Bits1("btc", n, w), Bits1("bts", n, w), BitsR("btr", w),
                  I("Bswap", [reg |-> RSI] @@ Sized(8)), I("Bswap", [reg |-> RSI] @@ Sized(8))>>,
                AB(w, a, n), P(w, a, n, 0)) : a \in Edges(w), n \in 0..(Bits(w) + 1)} : w \in {2, 4}}
(* TZCNT and BSF find the same bit, LZCNT and BSR the same one from the    *)
(* other end, no bit below or above it is set, and POPCNT counts what lies *)
(* between; of 0 the counts are the width and the scans write nothing.     *)
(* BTS, BTR and BTC, with a register or an immediate, work on the same     *)
(* bit, modulo the width; BSWAP twice changes nothing.                     *)
ScansAgree ==
    /\ Done("scan") =>
        LET p == run.p  n == Bits(p.w)  low == R(RBX, p.w)  high == n - 1 - R(RDX, p.w)
        IN IF p.a = 0
           THEN /\ low = n /\ R(RDX, p.w) = n /\ R(RCX, p.w) = 0
                /\ m.gpr[RSI] = run.m.gpr[RSI] /\ m.gpr[RDI] = run.m.gpr[RDI]
           ELSE /\ low = R(RSI, p.w) /\ high = R(RDI, p.w)
                /\ p.a \in 2^high..(2^(high + 1) - 1) /\ p.a % 2^low = 0 /\ Bit(p.a, low) = 1
                /\ R(RCX, p.w) = Cardinality({k \in low..high : Bit(p.a, k) = 1})
    /\ Done("flip") =>
        LET p == run.p  k == p.b % Bits(p.w)
        IN /\ R(RAX, p.w) = p.a - Bit(p.a, k) * 2^k
           /\ R(RBX, 1) = 1 /\ R(RDX, 1) = 0
           /\ m.gpr[RSI] = run.m.gpr[RSI]

-----------------------------------------------------------------------------
(* The lock-free loop: CMPXCHG until it succeeds, then XADD.               *)
Word == PageBytes + 3
LockRuns ==
    UNION {{Program("lock",
                <<I("Cmpxchg", Sized(w) @@ RegMem(RCX, RDI, 0)), I("Jcc", [cc |-> 5, imm |-> -2]),
                  I("Xadd", Sized(w) @@ RegMem(RBX, RDI, 0)), I("Xchg", Sized(w) @@ RegMem(RDX, RDI, 0)),
                  I("Test", Sized(w) @@ RegReg(RDX, RDX)), I("Jcc", [cc |-> 4, imm |-> 1]),
                  I("Xchg", [form |-> "acc", reg |-> RDX] @@ Sized(w))>>,
                Put(Put(Set(AB(w, a, b), RDI, Word), RBX, w, c), RDX, w, 0), P(w, a, b, c)) :
                a \in Edges(w), b \in Edges(w), c \in {1, Modulus(w) - 1}} : w \in {2, 4, 8}}
(* The retry loop around CMPXCHG ends with the new value in memory and the *)
(* one that it replaced in the accumulator; XADD then returns that value   *)
(* and adds to it, and XCHG takes the sum out.                             *)
LockedUpdates ==
    Done("lock") =>
        LET p == run.p  old == leToU64(readChecked(run.m, Word, p.w))  sum == Trunc(p.b + p.c, p.w)
        IN /\ R(RBX, p.w) = p.b
           /\ leToU64(readChecked(m, Word, p.w)) = 0
           /\ IF sum = 0 THEN R(RAX, p.w) = old ELSE R(RAX, p.w) = sum /\ R(RDX, p.w) = old

(* A call with a frame, a push of each kind, and the return.               *)
StackCode ==
    <<I("Call", [form |-> "rel", imm |-> 1]), I("Jmp", [form |-> "rel", imm |-> 11]),
      I("Push", [form |-> "imm", imm |-> -1]), I("Pop", [reg |-> RDI]),
      I("Push", [form |-> "reg", reg |-> RBP]), MovReg(8, RBP, RSP),
      I("Push", [form |-> "reg", reg |-> RAX]), I("Push", RegReg(0, RCX)),
      I("Pop", [reg |-> RBX]), I("Pop", [reg |-> RSI]), I("Push", [form |-> "imm", imm |-> -2]),
      I("Leave", Sized(8)), I("Ret", [imm |-> 0])>>
CallTable == <<I("Call", RegReg(0, RAX)), I("Jmp", RegReg(0, RCX)), I("Ret", [imm |-> 0])>>
StackRuns ==
    {Program("stack", StackCode, Set(Fresh, RSP, sp), P(8, sp, 0, 0)) :
        sp \in {2 * PageBytes, PageBytes + 30, PageBytes + 8, PageBytes + 20, 3 * PageBytes, 4 * PageBytes}}
    \cup {Program("stack", CallTable, Set(Set(Set(Fresh, RSP, sp), RAX, 3), RCX, 40), P(8, sp, 1, 0)) :
            sp \in {3 * PageBytes, PageBytes + 2}}
(* Calls return to the instruction after them with the stack pointer and   *)
(* the frame pointer they had; pops give back what was pushed, in reverse; *)
(* a push that faults moves nothing.                                       *)
StackBalanced ==
    /\ Done("stack") => /\ m.gpr[RSP] = run.p.a /\ m.gpr[RBP] = run.m.gpr[RBP]
                        /\ run.p.b = 0 => /\ m.gpr[RBX] = m.gpr[RCX] /\ m.gpr[RSI] = m.gpr[RAX]
                                          /\ m.rip = 14
                        /\ run.p.b = 1 => m.rip = 40
    /\ run.law = "stack" /\ m.err # "ok" =>
            /\ (run.p.a - m.gpr[RSP]) % 8 = 0
            /\ ~CanAccess(m, At(m.gpr[RSP], -8), 8, "w")

-----------------------------------------------------------------------------
(* String instructions.  d is the direction, n the count in RCX.           *)
Str(op, w, pfx) == I("String", [op |-> op, byte |-> w = 1, pfx |-> WidthPfx(w) \cup pfx])
Dir(d) == Str(IF d > 0 THEN "cld" ELSE "std", 4, {})
Strings(s, d, w, n) == Set(Set(Set(Fresh, RSI, s), RDI, d), RCX, n)
(* Copies: within the data pages, into the read-only page, out of the page *)
(* that is not mapped, and between ranges that overlap on the safe side.   *)
CopyRuns ==
    UNION {{Program("copy", <<Dir(d), Str("movs", w, {"f3"})>>, Strings(x[1], x[2], w, n),
                P(w, n, d, 0)) :
                x \in {<<PageBytes, 2 * PageBytes>>, <<PageBytes + 3, 3 * PageBytes - 8>>,
                       <<3 * PageBytes + 4, PageBytes + 6>>, <<PageBytes + 2, 2 * PageBytes + 1>>}
                      \cup (IF d > 0 THEN {<<PageBytes + 8, PageBytes + 6>>}
                                     ELSE {<<2 * PageBytes + 2, 2 * PageBytes + 5>>}),
                n \in {0, 1, 3, 7}} : w \in {1, 2, 4, 8}, d \in {1, -1}}
Elem(s, r, k, w, d) == At(s.gpr[r], k * w * d)
Cell(s, a, w) == leToU64(readChecked(s, a, w))
(* REP MOVS moves its count down and its pointers on together, and what it *)
(* passed over is a copy of what was there before; when it runs into a     *)
(* page it may not read or write it stops at that element, with the count  *)
(* and the pointers of a copy that can be taken up again from there.       *)
CopiesCount ==
    run.law = "copy" /\ m.rip # 1 /\ (m.err # "ok" \/ m.rip = 3) =>
        LET p == run.p  k == p.a - m.gpr[RCX]  d == p.b
            src == m.gpr[RSI]  dst == m.gpr[RDI]
        IN /\ src = Elem(run.m, RSI, k, p.w, d) /\ dst = Elem(run.m, RDI, k, p.w, d)
           /\ \A j \in 0..(k - 1) : Cell(m, Elem(run.m, RDI, j, p.w, d), p.w)
                                        = Cell(run.m, Elem(run.m, RSI, j, p.w, d), p.w)
           /\ IF m.err = "ok" THEN k = p.a
              ELSE k < p.a /\ ~(CanAccess(m, src, p.w, "r") /\ CanAccess(m, dst, p.w, "w"))

(* STOS, then SCAS over one element more; CMPS and LODS.                   *)
FillRuns ==
    UNION {{Program("fill", <<Dir(d), Str("stos", w, {"f3"}), MovReg(8, RDI, RSI), MovReg(8, RCX, RBX),
                              Str("scas", w, {IF eq THEN "f3" ELSE "f2"}), Str("lods", w, {})>>,
                Set(Strings(2 * PageBytes, 2 * PageBytes, w, n), RBX, n + 2), P(w, n, d, IF eq THEN 1 ELSE 0)) :
                n \in {0, 1, 2}, eq \in BOOLEAN} : w \in {1, 2, 4}, d \in {1, -1}}
CompareRuns ==
    UNION {{Program("compare", <<Dir(d), Str("cmps", w, {IF eq THEN "f3" ELSE "f2"})>>,
                Strings(x[1], x[2], w, n), P(w, n, d, IF eq THEN 1 ELSE 0)) :
                x \in {<<PageBytes + 8, 2 * PageBytes + 8>>, <<PageBytes + 9, 2 * PageBytes + 4>>,
                       <<PageBytes + 10, PageBytes + 10>>},
                n \in {0, 1, 3}, eq \in BOOLEAN} : w \in {1, 2}, d \in {1, -1}}
(* How far a comparison goes: to the first element for which Hit, or to n. *)
StopsAt(n, Hit(_)) == IF \E k \in 0..(n - 1) : Hit(k)
                      THEN 1 + (CHOOSE k \in 0..(n - 1) : Hit(k) /\ \A j \in 0..(k - 1) : ~Hit(j)) ELSE n
(* REPE stops behind the first element that differs and REPNE behind the   *)
(* first that is equal, or when the count is used up; the flags are those  *)
(* of the last comparison, and none is touched when there was none.        *)
ScansStop ==
    /\ Done("compare") =>
        LET p == run.p  d == p.b
            A(k) == Cell(run.m, Elem(run.m, RSI, k, p.w, d), p.w)
            B(k) == Cell(run.m, Elem(run.m, RDI, k, p.w, d), p.w)
            n == StopsAt(p.a, LAMBDA k : (A(k) = B(k)) = (p.c = 0))
        IN /\ m.gpr[RCX] = p.a - n
           /\ m.gpr[RSI] = Elem(run.m, RSI, n, p.w, d) /\ m.gpr[RDI] = Elem(run.m, RDI, n, p.w, d)
           /\ n = 0 => m.flags \ {"DF"} = run.m.flags
           /\ n > 0 => /\ ("CF" \in m.flags) = (A(n - 1) < B(n - 1))
                       /\ ("ZF" \in m.flags) = (A(n - 1) = B(n - 1))
    /\ Done("fill") =>
        LET p == run.p  d == p.b  v == R(RAX, p.w)
            B(k) == Cell(m, Elem(run.m, RDI, k, p.w, d), p.w)
            n == StopsAt(p.a + 2, LAMBDA k : (B(k) = Trunc(run.m.gpr[RAX], p.w)) = (p.c = 0))
        IN /\ \A k \in 0..(p.a - 1) : B(k) = Trunc(run.m.gpr[RAX], p.w)
           /\ m.gpr[RCX] = p.a + 2 - n /\ m.gpr[RDI] = Elem(run.m, RDI, n, p.w, d)
           /\ v = B(0) /\ m.gpr[RSI] = Elem(run.m, RSI, 1, p.w, d)

-----------------------------------------------------------------------------
(* Addressing: LEA, a load through the address it computed, and a load     *)
(* with the same operand.                                                  *)
Addressed(group, mr, pfx, disp) == I(group, [mr |-> [mr EXCEPT !.disp = disp]] @@ Pfx({"rexW"} \cup pfx))
LeaCode(mr, pfx, disp, rel) ==
    <<Addressed("Lea", [mr EXCEPT !.reg = RAX], pfx, disp),
      I("Mov", Sized(8) @@ [mr |-> [NoModRM EXCEPT !.mod = 0, !.reg = RDX, !.rm = RAX]]),
      Addressed("Mov", [mr EXCEPT !.reg = RBX], pfx, IF rel THEN disp - 2 ELSE disp)>>
Bases == Set(Set(Set(Set(Fresh, RSI, PageBytes + 4), RBP, 2 * PageBytes - 3), 12, Modulus(8) - 9), 13, 7)
BaseForm(mod, rm) == [NoModRM EXCEPT !.mod = mod, !.rm = rm]
SibForm(mod, base, index, scale) ==
    [NoModRM EXCEPT !.mod = mod, !.rm = 4, !.base = base, !.index = index, !.scale = scale]
RexB(r) == IF r > 7 THEN {"rexB"} ELSE {}
RexX(r) == IF r > 7 THEN {"rexX"} ELSE {}
Disp(mod, disp) == IF mod = 0 THEN 0 ELSE disp
Content(r) == Bases.gpr[r]
LeaRuns ==
    LET Lea1(mr, pfx, disp, a) ==
            Program("address", LeaCode(mr, pfx, disp, FALSE), Bases, P(8, a % Modulus(8), 0, 0))
        disps == {-5, 30}
    IN {Lea1(BaseForm(mod, r % 8), RexB(r), d, Content(r) + Disp(mod, d)) :
            r \in {RSI, 13}, mod \in {1, 2}, d \in disps}
       \cup {Lea1(BaseForm(0, r), {}, d, Content(r)) : r \in {RSI, RDI}, d \in disps}
       \cup {Lea1(SibForm(mod, b % 8, x % 8, s), RexB(b) \cup RexX(x), d,
                  Content(b) + Content(x) * s + Disp(mod, d)) :
            b \in {RSI, 12}, x \in {RBP, 12, 13}, s \in {1, 2, 8}, mod \in {0, 1}, d \in disps}
       \cup {Lea1(SibForm(1, b % 8, x % 8, s), RexB(b) \cup RexX(x), d, Content(b) + Content(x) * s + d) :
            b \in {RBP, 13}, x \in {RSI, 12}, s \in {1, 4}, d \in disps}
       \cup {Lea1(SibForm(mod, b, RSP, 1), {}, d, Content(b) + Disp(mod, d)) :
            b \in {RSI, RSP}, mod \in {0, 2}, d \in disps}
       \cup {Lea1(SibForm(0, b % 8, x % 8, s), RexB(b) \cup RexX(x), d, Content(x) * s + d) :
            b \in {RBP, 13}, x \in {RSI, 12, 13}, s \in {1, 4}, d \in disps}
       \cup {Program("address", LeaCode(BaseForm(0, 5), {}, d, TRUE), Bases,
                     P(8, (2 + d) % Modulus(8), 0, 0)) : d \in {-5, 20, 30}}
(* Every form of a memory operand (base, index and scale, displacement     *)
(* alone, RIP-relative, each with the REX extensions) means the same       *)
(* address to LEA and to a load: R12 may be an index although RSP may not, *)
(* RBP and R13 as base need a displacement, and addresses wrap.            *)
AddressesAgree ==
    run.law = "address" =>
        /\ m.rip > 1 => m.gpr[RAX] = run.p.a
        /\ Halted => m.gpr[RBX] = m.gpr[RDX] /\ CanAccess(m, run.p.a, 8, "r")
        /\ m.err # "ok" => m.rip = 2 /\ ~CanAccess(m, run.p.a, 8, "r")

-----------------------------------------------------------------------------
(* Partial registers: an immediate written to a register of width w, read  *)
(* back through memory, and tested.                                        *)
NamedReg(w, r, rex) == I("Mov", [form |-> "short", reg |-> r, byte |-> w = 1,
                                 pfx |-> WidthPfx(IF w = 1 THEN 4 ELSE w) \cup rex])
ViewRuns ==
    UNION {{Program("view",
                <<[NamedReg(w, r, rex) EXCEPT !.imm = v],
                  I("Mov", [toReg |-> FALSE, byte |-> w = 1, pfx |-> WidthPfx(IF w = 1 THEN 4 ELSE w) \cup rex]
                           @@ RegMem(r, RDI, 0)),
                  I("Test", [form |-> "imm", imm |-> v, byte |-> w = 1,
                             pfx |-> WidthPfx(IF w = 1 THEN 4 ELSE w) \cup rex] @@ RegReg(0, r)),
                  I("Setcc", [cc |-> 4, pfx |-> {"rex", "rexB"}] @@ RegReg(0, 0)),
                  I("Mov", [form |-> "imm", imm |-> 1] @@ Sized(2) @@ RegMem(0, RDI, 8)),
                  I("Mov", Sized(8) @@ RegMem(RSI, RDI, 0)), MovReg(8, RAX, RSI),
                  I("Test", [form |-> "acc", imm |-> v] @@ Sized(w))>>,
                Set(Fresh, RDI, PageBytes), P(w, v, r, IF rex = {} THEN 0 ELSE 1)) :
                v \in {0, 1, signBit(w), Modulus(w) - 1},
                r \in IF w = 1 THEN 1..6 ELSE {RCX, RDX, RBX},
                rex \in IF w = 1 THEN {{}, {"rex"}} ELSE {{}}} : w \in {1, 2, 4, 8}}
(* The bytes of the general registers that register r of width w names.    *)
Home(p) == IF p.w = 1 /\ p.c = 0 /\ p.b \in 4..7 THEN [reg |-> p.b - 4, from |-> 1]
                                                 ELSE [reg |-> p.b, from |-> 0]
(* What is written to a register of any width is read back from it; the    *)
(* bytes beside it stay, but for a 32-bit write, which clears the upper    *)
(* half; AH to BH are named by 4 to 7 only without a REX prefix, which     *)
(* makes them SPL to DIL; TEST looks at the width's bits only.             *)
RegisterViews ==
    /\ run.law = "view" /\ m.rip = 2 =>
        LET p == run.p  h == Home(p)
        IN m.gpr = [run.m.gpr EXCEPT ![h.reg] = IF p.w = 4 THEN p.a ELSE Insert(@, h.from, p.w, p.a)]
    /\ Done("view") =>
        LET p == run.p
        IN /\ R(RSI, p.w) = p.a
           /\ R(8, 1) = (IF p.a = 0 THEN 1 ELSE 0)
           /\ ("ZF" \in m.flags) = (p.a = 0)
           /\ Cell(m, PageBytes + 8, 2) = 1

(* AND, OR and XOR.                                                        *)
LogicRuns ==
    UNION {{Program("logic",
                <<MovReg(w, RBX, RAX), Alu(6, w, RBX, RCX), MovReg(w, RDX, RAX), Alu(4, w, RDX, RCX),
                  I("AluRm", [idx |-> 1, toReg |-> FALSE] @@ Sized(w) @@ RegReg(RAX, RCX)),
                  MovReg(w, RSI, RBX), Alu(0, w, RSI, RDX), Alu(6, w, RBX, RDX), Alu(7, w, RBX, RCX)>>,
                AB(w, ab[1], ab[2]), P(w, ab[1], ab[2], 0)) : ab \in Pairs(w)} : w \in {1, 2, 4, 8}}
(* a OR b is the sum, and the exclusive or, of a XOR b and a AND b, and    *)
(* the sum of the OR and the AND is the sum of the operands.               *)
LogicAddsUp ==
    Done("logic") =>
        LET w == run.p.w
        IN /\ R(RSI, w) = R(RCX, w) /\ "ZF" \in m.flags
           /\ R(RCX, w) + R(RDX, w) = run.p.a + run.p.b

(* Instructions executed by a hook, between two of the bit string ones     *)
(* whose closures are cached, and the same where no hook is installed.     *)
CallRuns ==
    LET code == <<BitsR("bts", 8), SYSCALL, BitsR("bt", 8), CPUID>>
        r == Program("call", code, Set(Fresh, RCX, 2), P(8, 2, 0, 0))
    IN {r, Unhooked(r)}

-----------------------------------------------------------------------------
(* A loop that sets the bits RDX..1 of a bit string in memory, at the next *)
(* instruction's address plus a displacement: the code that walks a bitmap.*)
BitmapRuns ==
    {Program("bitmap",
         <<I("Bt", [op |-> "bts"] @@ Sized(8) @@
                   [mr |-> [NoModRM EXCEPT !.mod = 0, !.reg = RDX, !.rm = 5, !.disp = PageBytes]]),
           I("IncDec", [idx |-> 1] @@ Sized(8) @@ RegReg(0, RDX)),
           I("Jcc", [cc |-> 5, imm |-> Modulus(8) - 3])>>,
         Set(Fresh, RDX, n), P(8, n, 0, 0)) : n \in 1..(3 * ByteBits)}
(* An instruction executed from the decode cache does what it does when it *)
(* has just been decoded (operand.go: address arithmetic that depends on   *)
(* state "must be resolved fresh on every call").                          *)
CachedAsFresh ==
    [][Running /\ Insn.group = "Bt" => m' = Finish(BtExec(Begun, Insn, BtDecode(Insn)))]_vars

-----------------------------------------------------------------------------
(* Safety.  The flags of an instruction mean to the next ones what they    *)
(* must: branches, carries across words, counters and signs.               *)
FlagsTell == ConditionsOrder /\ CarryChains /\ CountersKeepCarry /\ SignsAgree /\ LogicAddsUp
(* Safety.  The instructions that work on products, quotients and single   *)
(* bits undo and confirm each other at every width and count.              *)
BitsAgree == DivisionUndoesProduct /\ ShiftsCompose /\ FunnelsShift /\ ScansAgree
(* Safety.  An operand is the same place to every instruction that names   *)
(* it: memory by any addressing form, a register by any of its widths, the *)
(* word of a lock-free update, the slot of a push and its pop.             *)
OperandsAgree == AddressesAgree /\ RegisterViews /\ LockedUpdates /\ StackBalanced
(* Safety.  A string instruction has done exactly what its count and its   *)
(* pointers say, when it ends, when it stops early and when it faults.     *)
StringsStop == CopiesCount /\ ScansStop
=============================================================================
