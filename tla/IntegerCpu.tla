----------------------------- MODULE IntegerCpu -----------------------------
(***************************************************************************)
(* internal/cpu flags.go, exec.go, decode.go and the general-purpose part  *)
(* of twobyte.go: what the integer instructions do to a machine.  Each     *)
(* operator is the whole closure the decoder builds for its opcodes: it    *)
(* takes a machine and an instruction and returns the machine after exec,  *)
(* whose err says whether exec returned an error.                          *)
(***************************************************************************)
EXTENDS CpuState

-----------------------------------------------------------------------------
(* Flags.  setFlag, several at a time: of the flags in touched, those in   *)
(* on are set and the others cleared.                                      *)
When(c, f) == IF c THEN {f} ELSE {}
setFlags(m, touched, on) == [m EXCEPT !.flags = (@ \ touched) \cup on]
ResultFlags == {"ZF", "SF", "PF"}
ArithFlags == ResultFlags \cup {"CF", "OF", "AF"}

resultFlags(r, w) ==
    When(Trunc(r, w) = 0, "ZF") \cup When(Negative(r, w), "SF")
        \cup When(parity8(r), "PF")
(* The carry into the upper half of the lowest byte.                       *)
auxCarry(a, b, r) == Bit(a, ByteBits \div 2) # (Bit(b, ByteBits \div 2) + Bit(r, ByteBits \div 2)) % 2

(* addWithFlagsCarry and subWithFlagsBorrow: the result and the flags that *)
(* come on, of ArithFlags.                                                 *)
(* Mutation: the carry is taken from the wrapped sum alone.                *)
addWithFlagsCarryLost(x, y, w, cin) ==
    LET a == Trunc(x, w)  b == Trunc(y, w)  r == Trunc(a + b + cin, w)
    IN [v |-> r,
        on |-> When(r < a, "CF")
               \cup When(Negative(a, w) = Negative(b, w) /\ Negative(r, w) # Negative(a, w), "OF")
               \cup When(auxCarry(a, b, r), "AF") \cup resultFlags(r, w)]
addWithFlagsCarry(x, y, w, cin) ==
    LET a == Trunc(x, w)  b == Trunc(y, w)  r == Trunc(a + b + cin, w)
    IN [v |-> r,
        on |-> When(a + b + cin >= Modulus(w), "CF")
               \cup When(Negative(a, w) = Negative(b, w) /\ Negative(r, w) # Negative(a, w), "OF")
               \cup When(auxCarry(a, b, r), "AF") \cup resultFlags(r, w)]
subWithFlagsBorrow(x, y, w, bin) ==
    LET a == Trunc(x, w)  b == Trunc(y, w)  r == Trunc(a - b - bin, w)
    IN [v |-> r,
        on |-> When(a < b + bin, "CF")
               \cup When(Negative(a, w) # Negative(b, w) /\ Negative(r, w) # Negative(a, w), "OF")
               \cup When(auxCarry(a, b, r), "AF") \cup resultFlags(r, w)]
addWithFlags(a, b, w) == addWithFlagsCarry(a, b, w, 0)
subWithFlags(a, b, w) == subWithFlagsBorrow(a, b, w, 0)
Carry(m) == IF "CF" \in m.flags THEN 1 ELSE 0

(* The 32-bit fast paths of ADD imm, INC and DEC.                          *)
add32Flags(a, y) ==
    LET b == Trunc(y, 4)  r == Trunc(a + b, 4)
    IN [v |-> r,
        on |-> When(a + b >= Modulus(4), "CF")
               \cup When(Negative(a, 4) = Negative(b, 4) /\ Negative(a, 4) # Negative(r, 4), "OF")
               \cup When(auxCarry(a, b, r), "AF") \cup resultFlags(r, 4)]
inc32Flags(a) ==
    LET r == Trunc(a + 1, 4)
    IN [v |-> r, on |-> When(a = signBit(4) - 1, "OF") \cup When(auxCarry(a, 1, r), "AF")
                        \cup resultFlags(r, 4)]
dec32Flags(a) ==
    LET r == Trunc(a - 1, 4)
    IN [v |-> r, on |-> When(a = signBit(4), "OF") \cup When(auxCarry(a, 1, r), "AF")
                        \cup resultFlags(r, 4)]
logicFlags(r, w) == [v |-> r, on |-> resultFlags(r, w)]

evalCC(m, cc) ==
    LET On(f) == f \in m.flags
        test == CASE cc \div 2 = 0 -> On("OF")
                  [] cc \div 2 = 1 -> On("CF")
                  [] cc \div 2 = 2 -> On("ZF")
                  [] cc \div 2 = 3 -> On("CF") \/ On("ZF")
                  [] cc \div 2 = 4 -> On("SF")
                  [] cc \div 2 = 5 -> On("PF")
                  [] cc \div 2 = 6 -> On("SF") # On("OF")
                  [] OTHER -> On("ZF") \/ On("SF") # On("OF")
    IN IF cc % 2 = 0 THEN test ELSE ~test

-----------------------------------------------------------------------------
(* aluBinOp: the flags are set before the destination is written.          *)
aluResult(m, idx, a, b, w) ==
    CASE idx = 0 -> addWithFlags(a, b, w)
      [] idx = 1 -> logicFlags(Or(a, b, w), w)
      [] idx = 2 -> addWithFlagsCarry(a, b, w, Carry(m))
      [] idx = 3 -> subWithFlagsBorrow(a, b, w, Carry(m))
      [] idx = 4 -> logicFlags(And(a, b, w), w)
      [] idx = 6 -> logicFlags(Xor(a, b, w), w)
      [] idx \in {5, 7} -> subWithFlags(a, b, w)
aluBinOp(m, idx, dst, src, w) ==
    Reading(m, dst, w, LAMBDA a : Reading(m, src, w, LAMBDA b :
        LET res == aluResult(m, idx, a, b, w)
            n == setFlags(m, ArithFlags, res.on)
        IN IF idx = 7 THEN n ELSE writeOperand(n, dst, w, res.v)))

(* 0x00-0x3D: between a register and r/m in either direction, or the       *)
(* accumulator and an immediate.                                           *)
AluRm(m, i) ==
    IF i.toReg THEN aluBinOp(m, i.idx, RegOf(i), RmOf(i), Width(i))
               ELSE aluBinOp(m, i.idx, RmOf(i), RegOf(i), Width(i))
Fast32(m, r, res, touched) == setFlags([m EXCEPT !.gpr[r] = res.v], touched, res.on)
AluImm(m, i, dst, imm) ==
    IF i.idx = 0 /\ Width(i) = 4 /\ dst.kind = "reg"
    THEN Fast32(m, dst.reg, add32Flags(Trunc(m.gpr[dst.reg], 4), imm), ArithFlags)
    ELSE aluBinOp(m, i.idx, dst, immOperand(imm), Width(i))
AluAcc(m, i) == AluImm(m, i, regOperand(RAX, Rex(i)), IF i.byte THEN Trunc(i.imm, 1) ELSE i.imm)
(* Group 1, 0x80, 0x81 and 0x83: r/m and a sign-extended immediate.        *)
Group1(m, i) == AluImm(m, i, RmOf(i), i.imm)

TestOperands(m, a, b, w) ==
    Reading(m, a, w, LAMBDA x : Reading(m, b, w, LAMBDA y :
        setFlags(m, ArithFlags, logicFlags(And(x, y, w), w).on)))
(* TEST with a register, with an immediate for the accumulator or r/m.     *)
Test(m, i) ==
    CASE i.form = "rm" -> TestOperands(m, RmOf(i), RegOf(i), Width(i))
      [] i.form = "acc" -> TestOperands(m, regOperand(RAX, Rex(i)),
                                        immOperand(Trunc(i.imm, Width(i))), Width(i))
      [] i.form = "imm" -> TestOperands(m, RmOf(i), immOperand(Trunc(i.imm, Width(i))), Width(i))

-----------------------------------------------------------------------------
(* MOV between registers and r/m, of an immediate; LEA; XCHG; MOVSXD.      *)
Copy(m, dst, src, w) == Reading(m, src, w, LAMBDA v : writeOperand(m, dst, w, v))
Mov(m, i) ==
    CASE i.form = "rm" /\ i.toReg -> Copy(m, RegOf(i), RmOf(i), Width(i))
      [] i.form = "rm" /\ ~i.toReg -> Copy(m, RmOf(i), RegOf(i), Width(i))
      [] i.form = "imm" -> writeOperand(m, RmOf(i), Width(i), i.imm % Modulus(8))
      [] i.form = "short" -> writeOperand(m, regOperand(Extended(i, "rexB", i.reg), Rex(i)),
                                          Width(i), i.imm % Modulus(8))
Lea(m, i) ==
    LET o == decodeModRM(i)
    IN IF o.kind # "mem" THEN Fail(m, "error")
                         ELSE writeOperand(m, RegOf(i), Width(i), effAddr(m, o))
Swap(m, x, y, w) ==
    Reading(m, x, w, LAMBDA a : Reading(m, y, w, LAMBDA b :
        LET n == writeOperand(m, x, w, b)
        IN IF n.err # "ok" THEN n ELSE writeOperand(n, y, w, a)))
Xchg(m, i) ==
    IF i.form = "rm" THEN Swap(m, RmOf(i), RegOf(i), Width(i))
    ELSE IF i.reg = 0 /\ "rexB" \notin i.pfx THEN m       \* 0x90 is NOP
    ELSE Swap(m, regOperand(RAX, Rex(i)), regOperand(Extended(i, "rexB", i.reg), Rex(i)), Width(i))
Movsxd(m, i) == Reading(m, RmOf(i), 4, LAMBDA v : writeOperand(m, RegOf(i), 8, signExtend(v, 4)))

(* SETcc, CMOVcc (which reads its source only when the condition holds),   *)
(* MOVZX and MOVSX.                                                        *)
Setcc(m, i) == writeOperand(m, RmOf(i), 1, IF evalCC(m, i.cc) THEN 1 ELSE 0)
Cmov(m, i) == IF evalCC(m, i.cc) THEN Copy(m, RegOf(i), RmOf(i), Width(i)) ELSE m
MovExtend(m, i) ==
    Reading(m, RmOf(i), i.srcW, LAMBDA v :
        writeOperand(m, RegOf(i), Width(i), IF i.signed THEN signExtend(v, i.srcW) ELSE v))

(* CBW, CWDE, CDQE and CWD, CDQ, CQO.                                      *)
ConvertAcc(m, i) ==
    LET w == Width(i)
    IN writeWidth(m, RAX, w, TRUE, signExtend(readWidth(m, RAX, w \div 2, Rex(i)), w \div 2))
ConvertDx(m, i) ==
    LET w == Width(i)
    IN writeWidth(m, RDX, w, TRUE, IF Negative(m.gpr[RAX], w) THEN Modulus(w) - 1 ELSE 0)

-----------------------------------------------------------------------------
(* Multiplication and division.  The 8-bit forms use DL as the high half.  *)
extendSignHi(lo, w) == IF Negative(lo, w) THEN Modulus(w) - 1 ELSE 0
mulUnsigned(a, b, w) ==
    IF w = 8 THEN Mul64(a, b)
    ELSE [hi |-> (a * b) \div Modulus(w), lo |-> Trunc(a * b, w)]
mulSigned(a, b, w) ==
    LET sa == Signed(a, w)  sb == Signed(b, w)
    IN IF w = 8
       THEN LET p == Mul64(Trunc(a, 8), Trunc(b, 8))
                less == (IF sa < 0 THEN Trunc(b, 8) ELSE 0) + (IF sb < 0 THEN Trunc(a, 8) ELSE 0)
            IN [hi |-> Trunc(p.hi - less, 8), lo |-> p.lo]
       ELSE [hi |-> Trunc((sa * sb) \div Modulus(w), w), lo |-> Trunc(sa * sb, w)]

(* q and r of dx:ax by d, or why there are none.  The signed quotient is   *)
(* truncated; the 64-bit one takes the sign of ax alone.                   *)
DivError(why) == [err |-> why, q |-> 0, r |-> 0]
divUnsigned(dx, ax, d, w) ==
    LET full == dx * Modulus(w) + ax
    IN IF dx >= d THEN DivError("error")
       ELSE IF w = 8 THEN [err |-> "ok", q |-> Div64(dx, ax, d).q, r |-> Div64(dx, ax, d).r]
       ELSE [err |-> "ok", q |-> full \div d, r |-> full % d]
divSigned(dx, ax, d, w) ==
    LET dividend == IF w = 8 THEN Signed(ax, 8)
                    ELSE Signed(dx, w) * Modulus(w) + ax
        sdiv == Signed(d, w)
    IN IF w = 8 /\ dx \notin {0, Modulus(8) - 1} THEN DivError("error")
       ELSE [err |-> "ok", q |-> Trunc(Quot(dividend, sdiv), w), r |-> Trunc(Rem(dividend, sdiv), w)]

WriteDxAx(m, w, hi, lo) == writeWidth(writeWidth(m, RAX, w, TRUE, lo), RDX, w, TRUE, hi)
Overflowed(m, over) == setFlags(m, {"CF", "OF"}, IF over THEN {"CF", "OF"} ELSE {})

(* 0xF6 and 0xF7 /2 to /7: NOT, NEG, MUL, IMUL, DIV, IDIV.                 *)
grp3Op(m, idx, rm, w) ==
    Reading(m, rm, w, LAMBDA a :
        LET ax == readWidth(m, RAX, w, TRUE)
            dx == readWidth(m, RDX, w, TRUE)
            neg == subWithFlags(0, a, w)
            u == mulUnsigned(ax, a, w)
            s == mulSigned(ax, a, w)
            d == IF idx = 6 THEN divUnsigned(dx, ax, a, w) ELSE divSigned(dx, ax, a, w)
        IN CASE idx = 2 -> writeOperand(m, rm, w, Complement(a, w))
             [] idx = 3 -> writeOperand(setFlags(m, ArithFlags, (neg.on \ {"CF"}) \cup When(a # 0, "CF")),
                                        rm, w, neg.v)
             [] idx = 4 -> Overflowed(WriteDxAx(m, w, u.hi, u.lo), u.hi # 0)
             [] idx = 5 -> Overflowed(WriteDxAx(m, w, s.hi, s.lo), s.hi # extendSignHi(s.lo, w))
             [] idx \in {6, 7} /\ a = 0 -> Fail(m, "error")
             [] idx \in {6, 7} /\ a # 0 ->
                   IF d.err # "ok" THEN Fail(m, d.err) ELSE WriteDxAx(m, w, d.r, d.q))
Group3(m, i) == grp3Op(m, i.idx, RmOf(i), Width(i))

(* IMUL with two and three operands: the product truncated to the width.   *)
imul2(m, dst, a, b, w) ==
    LET p == mulSigned(a, b, w)
    IN writeOperand(Overflowed(m, p.hi # extendSignHi(p.lo, w)), dst, w, p.lo)
Imul(m, i) ==
    IF i.form = "imm"
    THEN Reading(m, RmOf(i), Width(i), LAMBDA a : imul2(m, RegOf(i), a, i.imm, Width(i)))
    ELSE Reading(m, RmOf(i), Width(i), LAMBDA b :
             imul2(m, RegOf(i), readOperand(m, RegOf(i), Width(i)), b, Width(i)))

(* INC and DEC leave CF alone.                                             *)
IncDec(m, i) ==
    LET rm == RmOf(i)  w == Width(i)
    IN IF w = 4 /\ rm.kind = "reg"
       THEN Fast32(m, rm.reg, IF i.idx = 0 THEN inc32Flags(Trunc(m.gpr[rm.reg], 4))
                                           ELSE dec32Flags(Trunc(m.gpr[rm.reg], 4)),
                   ArithFlags \ {"CF"})
       ELSE Reading(m, rm, w, LAMBDA a :
               LET res == IF i.idx = 0 THEN addWithFlags(a, 1, w) ELSE subWithFlags(a, 1, w)
               IN writeOperand(setFlags(m, ArithFlags \ {"CF"}, res.on \ {"CF"}), rm, w, res.v))

-----------------------------------------------------------------------------
(* Shifts and rotations.  The count is taken modulo 32, or 64 for 64-bit   *)
(* operands (scaled: the bits of four and of eight bytes).                 *)
(* Mutation: the count is masked by the operand's own width.               *)
CountMaskOwn(raw, w) == raw % Bits(w)
CountMask(raw, w) == raw % (IF w = 8 THEN Bits(8) ELSE Bits(4))
shiftResult(idx, a, w, count) ==
    LET n == Bits(w)  c == count % n
        rol == IF c = 0 THEN a ELSE Shl(a, c, w) + Shr(a, n - c, w)
        ror == IF c = 0 THEN a ELSE Shr(a, c, w) + Shl(a, n - c, w)
    IN CASE idx \in {4, 6} -> [v |-> Shl(a, count, w), cf |-> count <= n /\ Bit(a, n - count) = 1]
         [] idx = 5 -> [v |-> Shr(a, count, w), cf |-> Bit(a, count - 1) = 1]
         [] idx = 7 -> [v |-> Sar(a, count, w), cf |-> Bit(a, count - 1) = 1]
         [] idx = 0 -> [v |-> rol, cf |-> rol % 2 = 1]
         [] idx = 1 -> [v |-> ror, cf |-> Negative(ror, w)]
shiftFlags(m, idx, a, res, w, count) ==
    LET of == CASE idx \in {0, 1, 4, 6} -> Negative(res.v, w) # res.cf
                [] idx = 5 -> Negative(a, w)
                [] idx = 7 -> FALSE
        touched == {"CF"} \cup When(count = 1, "OF") \cup (IF idx \in {0, 1} THEN {} ELSE ResultFlags)
    IN setFlags(m, touched, touched \cap (When(res.cf, "CF") \cup When(of, "OF")
                                          \cup resultFlags(res.v, w)))
shiftGrp2(m, idx, rm, w, raw) ==
    LET count == CountMask(raw, w)
    IN Reading(m, rm, w, LAMBDA a :
        IF count = 0 THEN m
        ELSE IF idx \in {2, 3} THEN Fail(m, "error")        \* RCL, RCR
        ELSE LET res == shiftResult(idx, a, w, count)
             IN writeOperand(shiftFlags(m, idx, a, res, w, count), rm, w, res.v))
Shift(m, i) ==
    shiftGrp2(m, i.idx, RmOf(i), Width(i),
              IF i.form = "cl" THEN read8(m, RCX, Rex(i)) ELSE i.imm)

(* SHLD and SHRD.                                                          *)
DoubleShift(m, i) ==
    LET w == Width(i)  rm == RmOf(i)  n == Bits(w)
        count == (IF i.form = "cl" THEN Trunc(m.gpr[RCX], 1) ELSE i.imm) % n
        src == readOperand(m, RegOf(i), w)
    IN Reading(m, rm, w, LAMBDA dst :
        IF count = 0 THEN m
        ELSE LET v == IF i.left THEN Shl(dst, count, w) + Shr(src, n - count, w)
                                ELSE Shr(dst, count, w) + Shl(src, n - count, w)
                 out == IF i.left THEN Bit(dst, n - count) ELSE Bit(dst, count - 1)
             IN writeOperand(setFlags(m, {"CF", "ZF", "SF", "OF"},
                     When(out = 1, "CF") \cup When(v = 0, "ZF") \cup When(Negative(v, w), "SF")
                     \cup When(count = 1 /\ Negative(v, w) # Negative(dst, w), "OF")), rm, w, v))

-----------------------------------------------------------------------------
(* BT, BTS, BTR and BTC: one bit of base read into CF and changed.         *)
bitOp(m, op, o, w, base, bit) ==
    LET n == setFlags(m, {"CF"}, When(Bit(base, bit) = 1, "CF"))
        set == base + (1 - Bit(base, bit)) * 2^bit
        reset == base - Bit(base, bit) * 2^bit
    IN CASE op = "bt" -> n
         [] op = "bts" -> writeOperand(n, o, w, set)
         [] op = "btr" -> writeOperand(n, o, w, reset)
         [] op = "btc" -> writeOperand(n, o, w, IF Bit(base, bit) = 1 THEN reset ELSE set)

(* The register form.  d holds rm and w, the variables of decodeTwoByte    *)
(* that the closure captures and, for a memory operand, assigns to: the    *)
(* cached instruction keeps what one execution left in them.               *)
BtDecode(i) == [rm |-> RmOf(i), w |-> Width(i)]
BtResolve(m, i, d) ==
    LET bit == readOperand(m, RegOf(i), d.w)
        off == IF d.w = 8 THEN Signed(bit, 8) \div ByteBits ELSE bit \div ByteBits
    IN IF d.rm.kind = "reg" THEN d
       ELSE [rm |-> [d.rm EXCEPT !.addr = (effAddr(m, d.rm) + off) % Modulus(8),
                                 !.rip = FALSE, !.seg = "none"],
             w |-> 1]
BtExec(m, i, d) ==
    LET bit == readOperand(m, RegOf(i), d.w)
        n == BtResolve(m, i, d)
    IN Reading(m, n.rm, n.w, LAMBDA base :
            bitOp(m, i.op, n.rm, n.w, base,
                  bit % (IF d.rm.kind = "reg" THEN Bits(d.w) ELSE ByteBits)))
(* The immediate form.                                                     *)
BtImm(m, i) ==
    LET w == Width(i)
    IN Reading(m, RmOf(i), w, LAMBDA base : bitOp(m, i.op, RmOf(i), w, base, i.imm % Bits(w)))

(* BSF, BSR, TZCNT, LZCNT and POPCNT.                                      *)
BitScan(m, i) ==
    LET w == Width(i)
        Ones(v) == {k \in 0..(Bits(w) - 1) : Bit(v, k) = 1}
        Lowest(v) == CHOOSE k \in Ones(v) : \A j \in Ones(v) : k <= j
        Highest(v) == CHOOSE k \in Ones(v) : \A j \in Ones(v) : k >= j
        Counted(v, n) == writeOperand(setFlags(m, {"CF", "ZF"}, When(v = 0, "CF") \cup When(n = 0, "ZF")),
                                      RegOf(i), w, n)
        Scanned(n) == writeOperand(setFlags(m, {"ZF"}, {}), RegOf(i), w, n)
    IN Reading(m, RmOf(i), w, LAMBDA v :
        CASE i.op = "tzcnt" -> Counted(v, IF v = 0 THEN Bits(w) ELSE Lowest(v))
          [] i.op = "lzcnt" -> Counted(v, IF v = 0 THEN Bits(w) ELSE Bits(w) - 1 - Highest(v))
          [] i.op \in {"bsf", "bsr"} /\ v = 0 -> setFlags(m, {"ZF"}, {"ZF"})
          [] i.op = "bsf" /\ v # 0 -> Scanned(Lowest(v))
          [] i.op = "bsr" /\ v # 0 -> Scanned(Highest(v))
          [] i.op = "popcnt" ->
                writeOperand(setFlags(m, ArithFlags, When(OnesCount(v, w) = 0, "ZF")),
                             RegOf(i), w, OnesCount(v, w)))
Bswap(m, i) ==
    LET w == IF "rexW" \in i.pfx THEN 8 ELSE 4
        o == regOperand(Extended(i, "rexB", i.reg), Rex(i))
        b == u64ToLE(readOperand(m, o, w), w)
    IN writeOperand(m, o, w, leToU64([k \in 1..w |-> b[w + 1 - k]]))

(* CMPXCHG compares the destination with the accumulator, in this order;   *)
(* XADD writes the register before the destination.                        *)
Cmpxchg(m, i) ==
    LET w == Width(i)  rm == RmOf(i)
        acc == readOperand(m, regOperand(RAX, FALSE), w)
    IN Reading(m, rm, w, LAMBDA dest :
        LET n == setFlags(m, ArithFlags, subWithFlags(dest, acc, w).on)
        IN IF dest = acc THEN writeOperand(n, rm, w, readOperand(m, RegOf(i), w))
                         ELSE writeOperand(n, regOperand(RAX, FALSE), w, dest))
Xadd(m, i) ==
    LET w == Width(i)  rm == RmOf(i)
    IN Reading(m, rm, w, LAMBDA dest :
        LET sum == addWithFlags(dest, readOperand(m, RegOf(i), w), w)
        IN writeOperand(writeOperand(setFlags(m, ArithFlags, sum.on), RegOf(i), w, dest), rm, w, sum.v))

-----------------------------------------------------------------------------
(* The stack and control flow.  A branch sets rip; otherwise rip is set to *)
(* end by the caller.                                                      *)
push64(m, v) ==
    LET sp == At(m.gpr[RSP], -8)
        n == writeChecked(m, sp, u64ToLE(v, 8))
    IN IF n.err = "ok" THEN [n EXCEPT !.gpr[RSP] = sp] ELSE n
Popping(m, Then(_, _)) ==
    LET sp == m.gpr[RSP]
    IN IF CanAccess(m, sp, 8, "r")
       THEN Then([m EXCEPT !.gpr[RSP] = At(sp, 8)], leToU64(readChecked(m, sp, 8)))
       ELSE Fault(m)
Push(m, i) ==
    CASE i.form = "reg" -> push64(m, m.gpr[Extended(i, "rexB", i.reg)])
      [] i.form = "imm" -> push64(m, i.imm % Modulus(8))
      [] i.form = "rm" -> Reading(m, RmOf(i), 8, LAMBDA v : push64(m, v))
Pop(m, i) == Popping(m, LAMBDA n, v : [n EXCEPT !.gpr[Extended(i, "rexB", i.reg)] = v])
Leave(m, i) == Popping([m EXCEPT !.gpr[RSP] = m.gpr[RBP]],
                       LAMBDA n, v : [n EXCEPT !.gpr[RBP] = v])
Jump(m, target) == IF m.err = "ok" THEN [m EXCEPT !.rip = target % Modulus(8)] ELSE m
Call(m, i) ==
    IF i.form = "rm" THEN Reading(m, RmOf(i), 8, LAMBDA t : Jump(push64(m, m.end), t))
                     ELSE Jump(push64(m, m.end), m.end + i.imm)
Jmp(m, i) ==
    IF i.form = "rm" THEN Reading(m, RmOf(i), 8, LAMBDA t : Jump(m, t)) ELSE Jump(m, m.end + i.imm)
Jcc(m, i) == IF evalCC(m, i.cc) THEN Jump(m, m.end + i.imm) ELSE m
Ret(m, i) == Popping(m, LAMBDA n, t : Jump([n EXCEPT !.gpr[RSP] = At(@, i.imm)], t))

-----------------------------------------------------------------------------
(* String instructions.  An operator named for a helper of exec.go is the  *)
(* body of its loop.                                                       *)
RepOf(i) == CASE "f3" \in i.pfx -> "z" [] "f2" \in i.pfx -> "nz" [] OTHER -> "none"
strIndexDelta(m, w) == IF "DF" \in m.flags THEN -w ELSE w
ReadThen(m, a, w, Then(_)) ==
    IF CanAccess(m, a, w, "r") THEN Then(leToU64(readChecked(m, a, w))) ELSE Fault(m)
(* Mutation: the pointers move although the access has failed.             *)
AdvanceAlways(m, regs, w) ==
    [m EXCEPT !.gpr = [r \in Reg |-> IF r \in regs THEN At(@[r], strIndexDelta(m, w)) ELSE @[r]]]
Advance(m, regs, w) == IF m.err # "ok" THEN m
                       ELSE [m EXCEPT !.gpr = [r \in Reg |-> IF r \in regs THEN At(@[r], strIndexDelta(m, w)) ELSE @[r]]]

strMovs(m, i, w) ==
    ReadThen(m, m.gpr[RSI], w, LAMBDA v :
        Advance(writeChecked(m, m.gpr[RDI], u64ToLE(v, w)), {RSI, RDI}, w))
strStos(m, i, w) ==
    Advance(writeChecked(m, m.gpr[RDI], u64ToLE(readWidth(m, RAX, w, Rex(i)), w)), {RDI}, w)
strLods(m, i, w) ==
    ReadThen(m, m.gpr[RSI], w, LAMBDA v : Advance(writeWidth(m, RAX, w, Rex(i), v), {RSI}, w))
strCmps(m, i, w) ==
    ReadThen(m, m.gpr[RSI], w, LAMBDA a : ReadThen(m, m.gpr[RDI], w, LAMBDA b :
        Advance(setFlags(m, ArithFlags, subWithFlags(a, b, w).on), {RSI, RDI}, w)))
strScas(m, i, w) ==
    ReadThen(m, m.gpr[RDI], w, LAMBDA b :
        Advance(setFlags(m, ArithFlags, subWithFlags(readWidth(m, RAX, w, Rex(i)), b, w).on), {RDI}, w))
Iteration(m, i) ==
    CASE i.op = "movs" -> strMovs(m, i, Width(i))
      [] i.op = "stos" -> strStos(m, i, Width(i))
      [] i.op = "lods" -> strLods(m, i, Width(i))
      [] i.op = "cmps" -> strCmps(m, i, Width(i))
      [] i.op = "scas" -> strScas(m, i, Width(i))
(* RCX counts down after an iteration that has not failed; CMPS and SCAS   *)
(* then look at ZF.                                                        *)
CountDown(m, i) == IF RepOf(i) = "none" \/ m.err # "ok" THEN m ELSE [m EXCEPT !.gpr[RCX] = At(@, -1)]
Stops(m, i) ==
    \/ m.err # "ok"
    \/ i.op \in {"cmps", "scas"} /\ RepOf(i) = "z" /\ "ZF" \notin m.flags
    \/ i.op \in {"cmps", "scas"} /\ RepOf(i) = "nz" /\ "ZF" \in m.flags

(* Bound: no string access repeats an address, so the iterations past      *)
(* MemBytes + 1 are not reached.                                           *)
repIterations(m, i) ==
    CASE RepOf(i) = "none" -> 1
      [] RepOf(i) # "none" /\ m.gpr[RCX] \in 0..MemBytes -> m.gpr[RCX]
      [] OTHER -> MemBytes + 1
(* Iteration k, unless the one before it has stopped the loop.             *)
RepStep(m, i, k) == IF k > 1 /\ Stops(m, i) THEN m ELSE CountDown(Iteration(m, i), i)
(* The machine after each iteration; the whole loop is one instruction.    *)
RepStates(m, i) ==
    LET loop[k \in 0..repIterations(m, i)] == IF k = 0 THEN m ELSE RepStep(loop[k - 1], i, k)
    IN loop
RepLoop(m, i) == RepStates(m, i)[repIterations(m, i)]
String(m, i) ==
    CASE i.op = "cld" -> setFlags(m, {"DF"}, {})
      [] i.op = "std" -> setFlags(m, {"DF"}, {"DF"})
      [] OTHER -> RepLoop(m, i)
=============================================================================
