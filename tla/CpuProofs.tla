----------------------------- MODULE CpuProofs -----------------------------
(***************************************************************************)
(* Proofs about Cpu, for every program.                                    *)
(***************************************************************************)
EXTENDS Cpu, WellFoundedInduction, TLAPS

Fields == {"gpr", "rip", "end", "flags", "fs", "gs", "xmm", "yhi", "mxcsr", "mem", "perm", "err"}

(* A machine has its fields, and its registers.                            *)
Shape(s) ==
    /\ s = [f \in Fields |-> s[f]]
    /\ s.xmm = [x \in Reg |-> s.xmm[x]]
    /\ s.yhi = [x \in Reg |-> s.yhi[x]]

(* The bytes that differ in n are in pages that s may write.               *)
Stores(s, n) ==
    /\ DOMAIN n.mem = DOMAIN s.mem
    /\ \A x \in DOMAIN s.mem : n.mem[x] # s.mem[x] => Allowed(s, x, "w")

(* n is s but for the fields of fs, and for bytes it may write.            *)
Only(s, n, fs) ==
    /\ Shape(n)
    /\ \A f \in Fields \ fs : n[f] = s[f]
    /\ Stores(s, n)

LEMMA OnlySelf == ASSUME NEW s, Shape(s) PROVE Only(s, s, {})
  BY DEF Only, Stores

LEMMA OnlyMore == ASSUME NEW s, NEW n, NEW A, NEW B, Only(s, n, A), A \subseteq B PROVE Only(s, n, B)
  BY DEF Only

LEMMA OnlyThen ==
    ASSUME NEW s, NEW n, NEW q, NEW A, NEW B, Only(s, n, A), Only(n, q, B), "perm" \notin A
    PROVE  Only(s, q, A \cup B)
<1>1. n.perm = s.perm
  BY DEF Only, Fields
<1>2. Stores(s, q)
  BY <1>1 DEF Only, Stores, Allowed
<1>3. QED
  BY <1>2 DEF Only

LEMMA FaultOnly == ASSUME NEW s, Shape(s) PROVE Only(s, Fault(s), {"err"}) /\ Fault(s).err = "fault"
  BY DEF Shape, Only, Fields, Fault, Stores

LEMMA FailOnly ==
    ASSUME NEW s, Shape(s), NEW why PROVE Only(s, Fail(s, why), {"err"}) /\ Fail(s, why).err = why
  BY DEF Shape, Only, Fields, Fail, Stores

LEMMA XmmOnly ==
    ASSUME NEW s, Shape(s), NEW x, NEW v PROVE Only(s, writeXMM(s, x, v), {"xmm"})
  BY DEF Shape, Only, Fields, writeXMM, Stores

LEMMA XmmVexOnly ==
    ASSUME NEW s, Shape(s), NEW x, NEW v
    PROVE  /\ Only(s, writeXMMVex(s, x, v), {"xmm", "yhi"})
           /\ \A y \in Reg : y # x => /\ writeXMMVex(s, x, v).xmm[y] = s.xmm[y]
                                      /\ writeXMMVex(s, x, v).yhi[y] = s.yhi[y]
           /\ x \in Reg => writeXMMVex(s, x, v).yhi[x] = Zeros(16)
  BY DEF Shape, Only, Fields, writeXMMVex, Stores

LEMMA YmmOnly ==
    ASSUME NEW s, Shape(s), NEW x, NEW v, NEW w
    PROVE  /\ Only(s, writeYMM(s, x, v, w), {"xmm", "yhi"})
           /\ \A y \in Reg : y # x => /\ writeYMM(s, x, v, w).xmm[y] = s.xmm[y]
                                      /\ writeYMM(s, x, v, w).yhi[y] = s.yhi[y]
  BY DEF Shape, Only, Fields, writeYMM, Stores

LEMMA FlagsOnly ==
    ASSUME NEW s, Shape(s), NEW t, NEW on PROVE Only(s, setFlags(s, t, on), {"flags"})
  BY DEF Shape, Only, Fields, setFlags, Stores

(* A field without parts, and a general register.                          *)
LEMMA GprOnly ==
    ASSUME NEW s, Shape(s), NEW r, NEW v PROVE Only(s, [s EXCEPT !.gpr[r] = v], {"gpr"})
  BY DEF Shape, Only, Fields, Stores

LEMMA Byte8Only ==
    ASSUME NEW s, Shape(s), NEW r, NEW rex, NEW v PROVE Only(s, write8(s, r, rex, v), {"gpr"})
<1>1. CASE ~rex /\ r \in 4..7
  <2>1. write8(s, r, rex, v) = [s EXCEPT !.gpr[r - 4] = Insert(s.gpr[r - 4], 1, 1, v)]
    BY <1>1 DEF write8
  <2>2. QED
    BY <2>1, GprOnly
<1>2. CASE ~(~rex /\ r \in 4..7)
  <2>1. write8(s, r, rex, v) = [s EXCEPT !.gpr[r] = Insert(s.gpr[r], 0, 1, v)]
    BY <1>2 DEF write8
  <2>2. QED
    BY <2>1, GprOnly
<1>3. QED
  BY <1>1, <1>2

LEMMA WidthOnly ==
    ASSUME NEW s, Shape(s), NEW r, NEW w, NEW rex, NEW v
    PROVE  Only(s, writeWidth(s, r, w, rex, v), {"gpr"})
<1>1. CASE w = 1
  BY <1>1, Byte8Only DEF writeWidth
<1>2. CASE w = 2
  BY <1>2, GprOnly DEF writeWidth
<1>3. CASE w # 1 /\ w # 2
  BY <1>3, GprOnly DEF writeWidth
<1>4. QED
  BY <1>1, <1>2, <1>3

LEMMA CheckedOnly ==
    ASSUME NEW s, Shape(s), NEW a, NEW b PROVE Only(s, writeChecked(s, a, b), {"mem", "err"})
<1> DEFINE done == {k \in 1..Len(b) : CanAccess(s, a, k, "w")}
           mem == [x \in DOMAIN s.mem |->
                     IF \E k \in done : At(a, k - 1) = x
                     THEN b[CHOOSE k \in done : At(a, k - 1) = x] ELSE s.mem[x]]
           err == IF done = 1..Len(b) THEN s.err ELSE "fault"
<1>1. writeChecked(s, a, b) = [s EXCEPT !.mem = mem, !.err = err]
  BY DEF writeChecked
<1>2. ASSUME NEW x \in DOMAIN s.mem, mem[x] # s.mem[x] PROVE Allowed(s, x, "w")
  <2>1. PICK k \in 1..Len(b) : CanAccess(s, a, k, "w") /\ At(a, k - 1) = x
    BY <1>2
  <2>2. k - 1 \in 0..(k - 1)
    OBVIOUS
  <2>3. QED
    BY <2>1, <2>2 DEF CanAccess
<1>3. DOMAIN mem = DOMAIN s.mem
  OBVIOUS
<1> HIDE DEF mem, err
<1>4. QED
  BY <1>1, <1>2, <1>3 DEF Shape, Only, Fields, Stores

LEMMA OperandOnly ==
    ASSUME NEW s, Shape(s), NEW o, NEW w, NEW v
    PROVE  /\ o.kind = "reg" => Only(s, writeOperand(s, o, w, v), {"gpr"})
           /\ o.kind # "reg" => Only(s, writeOperand(s, o, w, v), {"mem", "err"})
  BY WidthOnly, CheckedOnly DEF writeOperand

-----------------------------------------------------------------------------
(* What an integer instruction may change.                                 *)
IntOnly(s, n) == Only(s, n, {"gpr", "flags", "rip", "mem", "err"})

LEMMA IntThen == ASSUME NEW s, NEW n, NEW q, IntOnly(s, n), IntOnly(n, q) PROVE IntOnly(s, q)
<1>1. {"gpr", "flags", "rip", "mem", "err"} \cup {"gpr", "flags", "rip", "mem", "err"} = {"gpr", "flags", "rip", "mem", "err"}
  OBVIOUS
<1>2. QED
  BY <1>1, OnlyThen DEF IntOnly

LEMMA IntShape == ASSUME NEW s, NEW n, IntOnly(s, n) PROVE Shape(n)
  BY DEF IntOnly, Only

LEMMA IntSelf == ASSUME NEW s, Shape(s) PROVE IntOnly(s, s)
  BY OnlySelf, OnlyMore DEF IntOnly

LEMMA IntFail == ASSUME NEW s, Shape(s), NEW why PROVE IntOnly(s, Fault(s)) /\ IntOnly(s, Fail(s, why))
<1>1. {"err"} \subseteq {"gpr", "flags", "rip", "mem", "err"}
  OBVIOUS
<1>2. QED
  BY <1>1, FaultOnly, FailOnly, OnlyMore DEF IntOnly

LEMMA IntFlags == ASSUME NEW s, Shape(s), NEW t, NEW on PROVE IntOnly(s, setFlags(s, t, on))
<1>1. {"flags"} \subseteq {"gpr", "flags", "rip", "mem", "err"}
  OBVIOUS
<1>2. QED
  BY <1>1, FlagsOnly, OnlyMore DEF IntOnly

LEMMA IntGpr == ASSUME NEW s, Shape(s), NEW r, NEW v PROVE IntOnly(s, [s EXCEPT !.gpr[r] = v])
<1>1. {"gpr"} \subseteq {"gpr", "flags", "rip", "mem", "err"}
  OBVIOUS
<1>2. QED
  BY <1>1, GprOnly, OnlyMore DEF IntOnly

LEMMA IntRip == ASSUME NEW s, Shape(s), NEW v PROVE IntOnly(s, [s EXCEPT !.rip = v])
  BY DEF Shape, IntOnly, Only, Fields, Stores

LEMMA IntWidth ==
    ASSUME NEW s, Shape(s), NEW r, NEW w, NEW rex, NEW v PROVE IntOnly(s, writeWidth(s, r, w, rex, v))
<1>1. {"gpr"} \subseteq {"gpr", "flags", "rip", "mem", "err"}
  OBVIOUS
<1>2. QED
  BY <1>1, WidthOnly, OnlyMore DEF IntOnly

LEMMA IntChecked == ASSUME NEW s, Shape(s), NEW a, NEW b PROVE IntOnly(s, writeChecked(s, a, b))
<1>1. {"mem", "err"} \subseteq {"gpr", "flags", "rip", "mem", "err"}
  OBVIOUS
<1>2. QED
  BY <1>1, CheckedOnly, OnlyMore DEF IntOnly

LEMMA IntOperand ==
    ASSUME NEW s, Shape(s), NEW o, NEW w, NEW v PROVE IntOnly(s, writeOperand(s, o, w, v))
  BY IntWidth, IntChecked DEF writeOperand

LEMMA IntFlagsOperand ==
    ASSUME NEW s, Shape(s), NEW t, NEW on, NEW o, NEW w, NEW v
    PROVE  IntOnly(s, writeOperand(setFlags(s, t, on), o, w, v))
  BY IntFlags, IntOperand, IntShape, IntThen

LEMMA IntBinOp ==
    ASSUME NEW s, Shape(s), NEW idx, NEW dst, NEW src, NEW w PROVE IntOnly(s, aluBinOp(s, idx, dst, src, w))
  BY IntFail, IntFlags, IntFlagsOperand DEF aluBinOp, Reading

LEMMA AluRmOnly == ASSUME NEW s, Shape(s), NEW i PROVE IntOnly(s, AluRm(s, i))
  BY IntBinOp DEF AluRm

LEMMA IntFast32 ==
    ASSUME NEW s, Shape(s), NEW r, NEW res, NEW t PROVE IntOnly(s, Fast32(s, r, res, t))
<1>1. IntOnly(s, [s EXCEPT !.gpr[r] = res.v])
  BY IntGpr
<1>2. QED
  BY <1>1, IntFlags, IntShape, IntThen DEF Fast32

LEMMA IntAluImm ==
    ASSUME NEW s, Shape(s), NEW i, NEW dst, NEW imm PROVE IntOnly(s, AluImm(s, i, dst, imm))
  BY IntFast32, IntBinOp DEF AluImm

LEMMA AluAccOnly == ASSUME NEW s, Shape(s), NEW i PROVE IntOnly(s, AluAcc(s, i))
  BY IntAluImm DEF AluAcc

LEMMA Group1Only == ASSUME NEW s, Shape(s), NEW i PROVE IntOnly(s, Group1(s, i))
  BY IntAluImm DEF Group1

LEMMA IntTest == ASSUME NEW s, Shape(s), NEW a, NEW b, NEW w PROVE IntOnly(s, TestOperands(s, a, b, w))
  BY IntFail, IntFlags DEF TestOperands, Reading

LEMMA TestOnly ==
    ASSUME NEW s, Shape(s), NEW i, i.form \in {"rm", "acc", "imm"} PROVE IntOnly(s, Test(s, i))
  BY IntTest DEF Test

LEMMA IntCopy == ASSUME NEW s, Shape(s), NEW a, NEW b, NEW w PROVE IntOnly(s, Copy(s, a, b, w))
  BY IntFail, IntOperand DEF Copy, Reading

LEMMA MovOnly ==
    ASSUME NEW s, Shape(s), NEW i, i.form \in {"rm", "imm", "short"} PROVE IntOnly(s, Mov(s, i))
  BY IntCopy, IntOperand DEF Mov

LEMMA LeaOnly == ASSUME NEW s, Shape(s), NEW i PROVE IntOnly(s, Lea(s, i))
  BY IntFail, IntOperand DEF Lea

LEMMA IntSwap == ASSUME NEW s, Shape(s), NEW a, NEW b, NEW w PROVE IntOnly(s, Swap(s, a, b, w))
<1>1. ASSUME NEW u, NEW v
      PROVE  /\ IntOnly(s, writeOperand(s, a, w, u))
             /\ IntOnly(s, writeOperand(writeOperand(s, a, w, u), b, w, v))
  BY IntOperand, IntShape, IntThen
<1>2. QED
  BY <1>1, IntFail DEF Swap, Reading

LEMMA XchgOnly == ASSUME NEW s, Shape(s), NEW i PROVE IntOnly(s, Xchg(s, i))
  BY IntSelf, IntSwap DEF Xchg

LEMMA MovsxdOnly == ASSUME NEW s, Shape(s), NEW i PROVE IntOnly(s, Movsxd(s, i))
  BY IntFail, IntOperand DEF Movsxd, Reading

LEMMA SetccOnly == ASSUME NEW s, Shape(s), NEW i PROVE IntOnly(s, Setcc(s, i))
  BY IntOperand DEF Setcc

LEMMA CmovOnly == ASSUME NEW s, Shape(s), NEW i PROVE IntOnly(s, Cmov(s, i))
  BY IntSelf, IntCopy DEF Cmov

LEMMA MovExtendOnly == ASSUME NEW s, Shape(s), NEW i PROVE IntOnly(s, MovExtend(s, i))
  BY IntFail, IntOperand DEF MovExtend, Reading

LEMMA ConvertAccOnly == ASSUME NEW s, Shape(s), NEW i PROVE IntOnly(s, ConvertAcc(s, i))
  BY IntWidth DEF ConvertAcc

LEMMA ConvertDxOnly == ASSUME NEW s, Shape(s), NEW i PROVE IntOnly(s, ConvertDx(s, i))
  BY IntWidth DEF ConvertDx

LEMMA IntDxAx ==
    ASSUME NEW s, Shape(s), NEW w, NEW hi, NEW lo, NEW over
    PROVE  IntOnly(s, WriteDxAx(s, w, hi, lo)) /\ IntOnly(s, Overflowed(WriteDxAx(s, w, hi, lo), over))
<1>1. IntOnly(s, WriteDxAx(s, w, hi, lo))
  BY IntWidth, IntShape, IntThen DEF WriteDxAx
<1>2. QED
  BY <1>1, IntFlags, IntShape, IntThen DEF Overflowed

LEMMA Group3Only == ASSUME NEW s, Shape(s), NEW i, i.idx \in 2..7 PROVE IntOnly(s, Group3(s, i))
<1>1. i.idx \in {2, 3, 4, 5, 6, 7}
  OBVIOUS
<1>2. QED
  BY <1>1, IntFail, IntOperand, IntFlagsOperand, IntDxAx DEF Group3, grp3Op, Reading

LEMMA IntImul2 ==
    ASSUME NEW s, Shape(s), NEW dst, NEW a, NEW b, NEW w PROVE IntOnly(s, imul2(s, dst, a, b, w))
  BY IntFlagsOperand DEF imul2, Overflowed

LEMMA ImulOnly == ASSUME NEW s, Shape(s), NEW i PROVE IntOnly(s, Imul(s, i))
  BY IntFail, IntImul2 DEF Imul, Reading

LEMMA IncDecOnly == ASSUME NEW s, Shape(s), NEW i PROVE IntOnly(s, IncDec(s, i))
  BY IntFail, IntFast32, IntFlagsOperand DEF IncDec, Reading

LEMMA ShiftOnly == ASSUME NEW s, Shape(s), NEW i PROVE IntOnly(s, Shift(s, i))
  BY IntSelf, IntFail, IntFlagsOperand DEF Shift, shiftGrp2, shiftFlags, Reading

LEMMA DoubleShiftOnly == ASSUME NEW s, Shape(s), NEW i PROVE IntOnly(s, DoubleShift(s, i))
  BY IntSelf, IntFail, IntFlagsOperand DEF DoubleShift, Reading

LEMMA IntBitOp ==
    ASSUME NEW s, Shape(s), NEW op \in {"bt", "bts", "btr", "btc"}, NEW o, NEW w, NEW base, NEW bit
    PROVE  IntOnly(s, bitOp(s, op, o, w, base, bit))
  BY IntFlags, IntFlagsOperand DEF bitOp

LEMMA BtOnly ==
    ASSUME NEW s, Shape(s), NEW i, i.op \in {"bt", "bts", "btr", "btc"}, NEW d
    PROVE  IntOnly(s, BtExec(s, i, d)) /\ IntOnly(s, BtImm(s, i))
  BY IntFail, IntBitOp DEF BtExec, BtImm, Reading

LEMMA BitScanOnly ==
    ASSUME NEW s, Shape(s), NEW i, i.op \in {"tzcnt", "lzcnt", "bsf", "bsr", "popcnt"}
    PROVE  IntOnly(s, BitScan(s, i))
  BY IntFail, IntFlags, IntFlagsOperand DEF BitScan, Reading

LEMMA BswapOnly == ASSUME NEW s, Shape(s), NEW i PROVE IntOnly(s, Bswap(s, i))
  BY IntOperand DEF Bswap

LEMMA CmpxchgOnly == ASSUME NEW s, Shape(s), NEW i PROVE IntOnly(s, Cmpxchg(s, i))
  BY IntFail, IntFlagsOperand DEF Cmpxchg, Reading

LEMMA XaddOnly == ASSUME NEW s, Shape(s), NEW i PROVE IntOnly(s, Xadd(s, i))
  BY IntFail, IntFlagsOperand, IntOperand, IntShape, IntThen DEF Xadd, Reading

LEMMA IntPush == ASSUME NEW s, Shape(s), NEW v PROVE IntOnly(s, push64(s, v))
<1> DEFINE sp == At(s.gpr[RSP], -8)
           n == writeChecked(s, sp, u64ToLE(v, 8))
<1>1. IntOnly(s, n)
  BY IntChecked
<1>2. IntOnly(s, [n EXCEPT !.gpr[RSP] = sp])
  BY <1>1, IntGpr, IntShape, IntThen
<1>3. QED
  BY <1>1, <1>2 DEF push64

LEMMA IntJump == ASSUME NEW s, NEW n, IntOnly(s, n), NEW t PROVE IntOnly(s, Jump(n, t))
  BY IntRip, IntShape, IntThen DEF Jump

LEMMA PushOnly ==
    ASSUME NEW s, Shape(s), NEW i, i.form \in {"reg", "imm", "rm"} PROVE IntOnly(s, Push(s, i))
  BY IntFail, IntPush DEF Push, Reading

LEMMA IntGpr2 ==
    ASSUME NEW s, Shape(s), NEW r, NEW u, NEW q, NEW v
    PROVE  IntOnly(s, [[s EXCEPT !.gpr[r] = u] EXCEPT !.gpr[q] = v])
<1>1. IntOnly(s, [s EXCEPT !.gpr[r] = u])
  BY IntGpr
<1>2. QED
  BY <1>1, IntGpr, IntShape, IntThen

LEMMA PopOnly == ASSUME NEW s, Shape(s), NEW i PROVE IntOnly(s, Pop(s, i))
  BY IntFail, IntGpr2 DEF Pop, Popping

LEMMA LeaveOnly == ASSUME NEW s, Shape(s), NEW i PROVE IntOnly(s, Leave(s, i))
<1>1. ASSUME NEW n, Shape(n)
      PROVE  IntOnly(n, IF CanAccess(n, n.gpr[RSP], 8, "r")
                        THEN [[n EXCEPT !.gpr[RSP] = At(n.gpr[RSP], 8)]
                                 EXCEPT !.gpr[RBP] = leToU64(readChecked(n, n.gpr[RSP], 8))]
                        ELSE Fault(n))
  BY <1>1, IntFail, IntGpr2
<1>2. IntOnly(s, [s EXCEPT !.gpr[RSP] = s.gpr[RBP]])
  BY IntGpr
<1>3. IntOnly([s EXCEPT !.gpr[RSP] = s.gpr[RBP]], Leave(s, i))
  BY <1>1, <1>2, IntShape DEF Leave, Popping
<1>4. QED
  BY <1>2, <1>3, IntThen

LEMMA CallOnly == ASSUME NEW s, Shape(s), NEW i PROVE IntOnly(s, Call(s, i))
  BY IntFail, IntPush, IntJump DEF Call, Reading

LEMMA JmpOnly == ASSUME NEW s, Shape(s), NEW i PROVE IntOnly(s, Jmp(s, i))
  BY IntFail, IntSelf, IntJump DEF Jmp, Reading

LEMMA JccOnly == ASSUME NEW s, Shape(s), NEW i PROVE IntOnly(s, Jcc(s, i))
  BY IntSelf, IntJump DEF Jcc

LEMMA RetOnly == ASSUME NEW s, Shape(s), NEW i PROVE IntOnly(s, Ret(s, i))
  BY IntFail, IntGpr2, IntJump DEF Ret, Popping

-----------------------------------------------------------------------------
(***************************************************************************)
(* The string instructions: induction over the iterations.                 *)
(***************************************************************************)
LEMMA NatSetInduction ==
    ASSUME NEW S, 0 \in S, \A n \in Nat : n \in S => n + 1 \in S PROVE Nat \subseteq S
<1> DEFINE T == Nat \ S
<1> SUFFICES ASSUME T # {} PROVE FALSE
  OBVIOUS
<1>1. PICK x \in T : \A y \in T : ~(<<y, x>> \in OpToRel(<, Nat))
  BY NatLessThanWellFounded, WFMin
<1>2. x \in Nat /\ x # 0 /\ x - 1 \in Nat /\ x - 1 < x
  OBVIOUS
<1>3. <<x - 1, x>> \in OpToRel(<, Nat)
  BY <1>2 DEF OpToRel
<1>4. x - 1 \in S
  BY <1>1, <1>2, <1>3
<1>5. (x - 1) + 1 \in S
  BY <1>2, <1>4
<1>6. QED
  BY <1>2, <1>5

LEMMA RepIterationsNat == ASSUME NEW s, NEW i PROVE repIterations(s, i) \in Nat
<1>1. MemBytes \in Nat
  BY PagesAssumption DEF MemBytes
<1>2. QED
  BY <1>1 DEF repIterations

(* The recursive function is what its definition says.                     *)
LEMMA RepStatesExists ==
    ASSUME NEW s, NEW i, NEW n \in Nat
    PROVE  \E f : f = [k \in 0..n |-> IF k = 0 THEN s ELSE RepStep(f[k - 1], i, k)]
<1> DEFINE D(f, k) == IF k = 0 THEN s ELSE RepStep(f[k - 1], i, k)
           S == {j \in Nat : \E f : f = [k \in 0..j |-> D(f, k)]}
<1>1. 0 \in S
  <2> DEFINE f == [k \in 0..0 |-> s]
  <2>1. f = [k \in 0..0 |-> D(f, k)]
    OBVIOUS
  <2>2. QED
    BY <2>1
<1>2. ASSUME NEW j \in Nat, j \in S PROVE j + 1 \in S
  <2>1. PICK f : f = [k \in 0..j |-> D(f, k)]
    BY <1>2
  <2> DEFINE g == [k \in 0..(j + 1) |-> IF k \in 0..j THEN f[k] ELSE RepStep(f[j], i, k)]
  <2>2. ASSUME NEW k \in 0..(j + 1) PROVE g[k] = D(g, k)
    <3>1. CASE k = 0
      BY <2>1, <3>1
    <3>2. CASE k \in 1..j
      <4>1. k - 1 \in 0..j /\ k - 1 \in 0..(j + 1) /\ k \in 0..j /\ k # 0
        BY <3>2
      <4>2. g[k] = f[k] /\ g[k - 1] = f[k - 1]
        BY <4>1
      <4>3. QED
        BY <2>1, <4>1, <4>2
    <3>3. CASE k = j + 1
      <4>1. j \in 0..j /\ j \in 0..(j + 1) /\ k \notin 0..j /\ k # 0 /\ k - 1 = j
        BY <3>3
      <4>2. g[k] = RepStep(f[j], i, k) /\ g[k - 1] = f[j]
        BY <4>1
      <4>3. QED
        BY <4>1, <4>2
    <3>4. QED
      BY <3>1, <3>2, <3>3
  <2>3. g = [k \in 0..(j + 1) |-> D(g, k)]
    BY <2>2
  <2> HIDE DEF g
  <2>4. \E h : h = [k \in 0..(j + 1) |-> D(h, k)]
    BY <2>3
  <2>5. QED
    BY <2>4
<1>3. QED
  BY <1>1, <1>2, NatSetInduction

LEMMA RepStatesRec ==
    ASSUME NEW s, NEW i
    PROVE  \A k \in 0..repIterations(s, i) :
               RepStates(s, i)[k] = IF k = 0 THEN s ELSE RepStep(RepStates(s, i)[k - 1], i, k)
<1> DEFINE f == RepStates(s, i)
           n == repIterations(s, i)
<1>1. f = [k \in 0..n |-> IF k = 0 THEN s ELSE RepStep(f[k - 1], i, k)]
  BY RepIterationsNat, RepStatesExists DEF RepStates
<1> HIDE DEF f, n
<1>2. \A k \in 0..n : f[k] = IF k = 0 THEN s ELSE RepStep(f[k - 1], i, k)
  BY <1>1
<1>3. QED
  BY <1>2 DEF f, n

(* What holds of the machine at first and is kept by an iteration holds at *)
(* the end: here, that it has changed what an integer instruction may.     *)
LEMMA IntGprs == ASSUME NEW s, Shape(s), NEW v PROVE IntOnly(s, [s EXCEPT !.gpr = v])
  BY DEF Shape, IntOnly, Only, Fields, Stores

LEMMA IntAdvance ==
    ASSUME NEW s, NEW n, IntOnly(s, n), NEW regs, NEW w PROVE IntOnly(s, Advance(n, regs, w))
  BY IntGprs, IntShape, IntThen DEF Advance

LEMMA IterationOnly ==
    ASSUME NEW s, Shape(s), NEW i, i.op \in {"movs", "stos", "lods", "cmps", "scas"}
    PROVE  IntOnly(s, Iteration(s, i))
<1>1. CASE i.op = "movs"
  BY <1>1, IntAdvance, IntChecked, IntFail DEF Iteration, strMovs, ReadThen
<1>2. CASE i.op = "stos"
  BY <1>2, IntAdvance, IntChecked DEF Iteration, strStos
<1>3. CASE i.op = "lods"
  BY <1>3, IntAdvance, IntWidth, IntFail DEF Iteration, strLods, ReadThen
<1>4. CASE i.op = "cmps"
  BY <1>4, IntAdvance, IntFlags, IntFail DEF Iteration, strCmps, ReadThen
<1>5. CASE i.op = "scas"
  BY <1>5, IntAdvance, IntFlags, IntFail DEF Iteration, strScas, ReadThen
<1>6. QED
  BY <1>1, <1>2, <1>3, <1>4, <1>5

LEMMA RepStepOnly ==
    ASSUME NEW s, Shape(s), NEW i, i.op \in {"movs", "stos", "lods", "cmps", "scas"}, NEW k
    PROVE  IntOnly(s, RepStep(s, i, k))
<1>1. IntOnly(s, CountDown(Iteration(s, i), i))
  BY IterationOnly, IntGpr, IntShape, IntThen DEF CountDown
<1>2. QED
  BY <1>1, IntSelf DEF RepStep

LEMMA StringOnly ==
    ASSUME NEW s, Shape(s), NEW i, i.op \in {"movs", "stos", "lods", "cmps", "scas", "cld", "std"}
    PROVE  IntOnly(s, String(s, i))
<1>1. CASE i.op \in {"cld", "std"}
  BY <1>1, IntFlags DEF String
<1>2. CASE i.op \in {"movs", "stos", "lods", "cmps", "scas"}
  <2> DEFINE n == repIterations(s, i)
             f == RepStates(s, i)
             S == {k \in Nat : k \in 0..n => IntOnly(s, f[k])}
  <2>1. n \in Nat
    BY RepIterationsNat
  <2>2. \A k \in 0..n : f[k] = IF k = 0 THEN s ELSE RepStep(f[k - 1], i, k)
    BY RepStatesRec
  <2> HIDE DEF f, n
  <2>3. 0 \in S
    <3>1. 0 \in 0..n
      BY <2>1
    <3>2. f[0] = s
      BY <2>2, <3>1
    <3>3. QED
      BY <3>2, IntSelf
  <2>4. ASSUME NEW k \in Nat, k \in S PROVE k + 1 \in S
    <3> SUFFICES ASSUME k + 1 \in 0..n PROVE IntOnly(s, f[k + 1])
      OBVIOUS
    <3>1. k \in 0..n /\ k + 1 # 0 /\ (k + 1) - 1 = k
      BY <2>1
    <3>2. IntOnly(s, f[k]) /\ f[k + 1] = RepStep(f[k], i, k + 1)
      BY <2>2, <2>4, <3>1
    <3>3. QED
      BY <1>2, <3>2, IntShape, RepStepOnly, IntThen
  <2>5. Nat \subseteq S
    <3> HIDE DEF S
    <3>1. QED
      BY <2>3, <2>4, NatSetInduction
  <2>6. IntOnly(s, RepLoop(s, i))
    <3>1. n \in 0..n
      BY <2>1
    <3>2. IntOnly(s, f[n])
      BY <2>1, <2>5, <3>1
    <3>3. QED
      BY <3>2 DEF RepLoop, f, n
  <2>7. QED
    BY <1>2, <2>6 DEF String
<1>3. QED
  BY <1>1, <1>2

-----------------------------------------------------------------------------
(* SSE instructions: what one may change, and what it may when it fails.   *)
SseOnly(s, n) ==
    /\ Only(s, n, {"gpr", "flags", "xmm", "mxcsr", "mem", "err"})
    /\ n.err = "ok" \/ Only(s, n, {"mem", "err"})
(* A machine that has begun an instruction.                                *)
Ready(s) == Shape(s) /\ s.err = "ok"

LEMMA SseSome ==
    ASSUME NEW s, Ready(s), NEW n, NEW A,
           Only(s, n, A), A \subseteq {"gpr", "flags", "xmm", "mxcsr"}
    PROVE  SseOnly(s, n)
<1>1. Only(s, n, {"gpr", "flags", "xmm", "mxcsr", "mem", "err"})
  <2>1. A \subseteq {"gpr", "flags", "xmm", "mxcsr", "mem", "err"}
    OBVIOUS
  <2>2. QED
    BY <2>1, OnlyMore
<1>2. n.err = s.err
  BY DEF Only, Fields
<1>3. QED
  BY <1>1, <1>2 DEF SseOnly, Ready

LEMMA SseStore ==
    ASSUME NEW s, NEW n, NEW A, Only(s, n, A), A \subseteq {"mem", "err"} PROVE SseOnly(s, n)
  BY OnlyMore DEF SseOnly

LEMMA SseSelf == ASSUME NEW s, Ready(s) PROVE SseOnly(s, s)
  BY SseSome, OnlySelf DEF Ready

LEMMA SseFail == ASSUME NEW s, Ready(s), NEW why PROVE SseOnly(s, Fault(s)) /\ SseOnly(s, Fail(s, why))
  BY SseStore, FaultOnly, FailOnly DEF Ready

LEMMA SseXmm == ASSUME NEW s, Ready(s), NEW x, NEW v PROVE SseOnly(s, writeXMM(s, x, v))
  BY SseSome, XmmOnly DEF Ready

LEMMA SseFlags == ASSUME NEW s, Ready(s), NEW t, NEW on PROVE SseOnly(s, setFlags(s, t, on))
  BY SseSome, FlagsOnly DEF Ready

LEMMA SseMxcsr == ASSUME NEW s, Ready(s), NEW v PROVE SseOnly(s, [s EXCEPT !.mxcsr = v])
<1>1. Only(s, [s EXCEPT !.mxcsr = v], {"mxcsr"})
  BY DEF Ready, Shape, Only, Fields, Stores
<1>2. QED
  BY <1>1, SseSome

LEMMA SseChecked == ASSUME NEW s, Ready(s), NEW a, NEW b PROVE SseOnly(s, writeChecked(s, a, b))
  BY SseStore, CheckedOnly DEF Ready

LEMMA SseOperand ==
    ASSUME NEW s, Ready(s), NEW o, NEW w, NEW v PROVE SseOnly(s, writeOperand(s, o, w, v))
<1>1. CASE o.kind = "reg"
  BY <1>1, SseSome, OperandOnly DEF Ready
<1>2. CASE o.kind # "reg"
  BY <1>2, SseStore, OperandOnly DEF Ready
<1>3. QED
  BY <1>1, <1>2

LEMMA SseXmmOp == ASSUME NEW s, Ready(s), NEW o, NEW v PROVE SseOnly(s, writeXMMOp(s, o, v, FALSE))
  BY SseXmm, SseChecked DEF writeXMMOp

LEMMA MoveLoadOnly == ASSUME NEW s, Ready(s), NEW i PROVE SseOnly(s, MoveLoad(s, i))
  BY SseFail, SseXmmOp DEF MoveLoad, XmmOp, execXMM

LEMMA MoveStoreOnly == ASSUME NEW s, Ready(s), NEW i PROVE SseOnly(s, MoveStore(s, i))
  BY SseFail, SseXmmOp, SseXmm, SseChecked DEF MoveStore, execXMM

LEMMA FullMoveOnly == ASSUME NEW s, Ready(s), NEW i PROVE SseOnly(s, FullMove(s, i))
  BY SseFail, SseXmmOp DEF FullMove, XmmOp, execXMM

LEMMA HalfMoveOnly == ASSUME NEW s, Ready(s), NEW i PROVE SseOnly(s, HalfMove(s, i))
  BY SseFail, SseXmm, SseChecked DEF HalfMove

LEMMA UnpackFloatOnly == ASSUME NEW s, Ready(s), NEW i PROVE SseOnly(s, UnpackFloat(s, i))
  BY SseXmm DEF UnpackFloat

LEMMA MovdQOnly ==
    ASSUME NEW s, Ready(s), NEW i,
           i.op \in {"movdLoad", "movdStore", "movqStore"} \/ (i.op = "movq" /\ Kind(i) = "ss")
    PROVE  SseOnly(s, MovdQ(s, i))
  BY SseFail, SseXmmOp, SseXmm, SseChecked, SseOperand DEF MovdQ, Reading, XmmOp, execXMM

LEMMA MovntdqOnly == ASSUME NEW s, Ready(s), NEW i PROVE SseOnly(s, Movntdq(s, i))
  BY SseFail, SseChecked DEF Movntdq

LEMMA ConvertIntOnly == ASSUME NEW s, Ready(s), NEW i PROVE SseOnly(s, ConvertInt(s, i))
  BY SseFail, SseXmm DEF ConvertInt, Reading

LEMMA ConvertToIntOnly == ASSUME NEW s, Ready(s), NEW i PROVE SseOnly(s, ConvertToInt(s, i))
  BY SseFail, SseOperand DEF ConvertToInt

LEMMA ConvertFloatOnly == ASSUME NEW s, Ready(s), NEW i PROVE SseOnly(s, ConvertFloat(s, i))
  BY SseFail, SseXmmOp DEF ConvertFloat, XmmOp, execXMM

LEMMA ConvertDqOnly == ASSUME NEW s, Ready(s), NEW i PROVE SseOnly(s, ConvertDq(s, i))
  BY SseFail, SseXmmOp DEF ConvertDq, XmmOp, execXMM

LEMMA ConvertPdOnly == ASSUME NEW s, Ready(s), NEW i PROVE SseOnly(s, ConvertPd(s, i))
  BY SseFail, SseXmmOp DEF ConvertPd, XmmOp, execXMM

LEMMA ComisOnly == ASSUME NEW s, Ready(s), NEW i PROVE SseOnly(s, Comis(s, i))
  BY SseFail, SseFlags DEF Comis

LEMMA MovmskOnly == ASSUME NEW s, Ready(s), NEW i PROVE SseOnly(s, Movmsk(s, i))
  BY SseOperand DEF Movmsk

LEMMA SseArithOnly == ASSUME NEW s, Ready(s), NEW i PROVE SseOnly(s, SseArith(s, i))
  BY SseFail, SseXmmOp DEF SseArith, XmmOp, execXMM

LEMMA SseUnaryOnly == ASSUME NEW s, Ready(s), NEW i PROVE SseOnly(s, SseUnary(s, i))
  BY SseFail, SseXmmOp DEF SseUnary, XmmOp, execXMM

LEMMA SseLogicOnly == ASSUME NEW s, Ready(s), NEW i PROVE SseOnly(s, SseLogic(s, i))
  BY SseFail, SseXmmOp DEF SseLogic, XmmOp, execXMM

LEMMA SseHaddOnly == ASSUME NEW s, Ready(s), NEW i PROVE SseOnly(s, SseHadd(s, i))
  BY SseFail, SseXmmOp DEF SseHadd, XmmOp, execXMM

LEMMA SseCmpOnly == ASSUME NEW s, Ready(s), NEW i PROVE SseOnly(s, SseCmp(s, i))
  BY SseFail, SseXmmOp DEF SseCmp, XmmOp, execXMM

LEMMA SseShufOnly == ASSUME NEW s, Ready(s), NEW i PROVE SseOnly(s, SseShuf(s, i))
  BY SseFail, SseXmmOp DEF SseShuf, XmmOp, execXMM

LEMMA PshufOnly == ASSUME NEW s, Ready(s), NEW i PROVE SseOnly(s, Pshuf(s, i))
  BY SseFail, SseXmmOp DEF Pshuf, XmmOp, execXMM

LEMMA ShiftImmOnly == ASSUME NEW s, Ready(s), NEW i PROVE SseOnly(s, ShiftImm(s, i))
  BY SseFail, SseXmm DEF ShiftImm

LEMMA ShiftRegOnly == ASSUME NEW s, Ready(s), NEW i PROVE SseOnly(s, ShiftReg(s, i))
  BY SseFail, SseXmmOp DEF ShiftReg, XmmOp, execXMM

LEMMA InsertLaneOnly == ASSUME NEW s, Ready(s), NEW i PROVE SseOnly(s, InsertLane(s, i))
  BY SseFail, SseXmm DEF InsertLane, Reading

LEMMA ExtractWordOnly == ASSUME NEW s, Ready(s), NEW i PROVE SseOnly(s, ExtractWord(s, i))
  BY SseFail, SseOperand DEF ExtractWord

LEMMA ExtractLaneOnly == ASSUME NEW s, Ready(s), NEW i PROVE SseOnly(s, ExtractLane(s, i))
  BY SseOperand DEF ExtractLane

LEMMA PmovmskbOnly == ASSUME NEW s, Ready(s), NEW i PROVE SseOnly(s, Pmovmskb(s, i))
  BY SseFail, SseOperand DEF Pmovmskb

LEMMA MxcsrOnly == ASSUME NEW s, Ready(s), NEW i PROVE SseOnly(s, Mxcsr(s, i))
  BY SseSelf, SseFail, SseMxcsr, SseOperand DEF Mxcsr, Reading

LEMMA PtestOnly == ASSUME NEW s, Ready(s), NEW i PROVE SseOnly(s, Ptest(s, i))
  BY SseFail, SseFlags DEF Ptest

LEMMA ByteShuffleOnly == ASSUME NEW s, Ready(s), NEW i PROVE SseOnly(s, ByteShuffle(s, i))
  BY SseFail, SseXmmOp DEF ByteShuffle, XmmOp, execXMM

LEMMA RoundOnly == ASSUME NEW s, Ready(s), NEW i PROVE SseOnly(s, Round(s, i))
  BY SseFail, SseXmmOp DEF Round, XmmOp, execXMM

LEMMA AlignRightOnly == ASSUME NEW s, Ready(s), NEW i PROVE SseOnly(s, AlignRight(s, i))
  BY SseFail, SseXmmOp DEF AlignRight, XmmOp, execXMM

LEMMA InsertSingleOnly == ASSUME NEW s, Ready(s), NEW i PROVE SseOnly(s, InsertSingle(s, i))
  BY SseFail, SseXmmOp DEF InsertSingle, XmmOp, execXMM

LEMMA DotOnly == ASSUME NEW s, Ready(s), NEW i PROVE SseOnly(s, Dot(s, i))
  BY SseFail, SseXmmOp DEF Dot, XmmOp, execXMM

LEMMA SsePackedOnly == ASSUME NEW s, Ready(s), NEW i, NEW table PROVE SseOnly(s, SsePacked(s, i, table))
  BY SseFail, SseXmmOp DEF SsePacked, XmmOp, execXMM

-----------------------------------------------------------------------------
(* The closures of VEX instructions: as above, and which upper halves one  *)
(* may change.                                                             *)
VexOnly(s, n, i) ==
    /\ Only(s, n, {"gpr", "flags", "xmm", "yhi", "mem", "err"})
    /\ n.err = "ok" \/ Only(s, n, {"mem", "err"})
    /\ \A x \in Reg :
          /\ n.yhi[x] # s.yhi[x] => x \in Named(i)
          /\ n.xmm[x] # s.xmm[x] /\ ~i.L /\ i.group \notin Always256 => n.yhi[x] = Zeros(16)

LEMMA RmKind ==
    ASSUME NEW i PROVE RegOf(i).kind = "reg" /\ RmOf(i).kind \in {"reg", "mem"}
<1>1. decodeModRM(i).kind \in {"reg", "mem"}
  BY DEF decodeModRM, regOperand, memOperand
<1>2. applySeg(i, decodeModRM(i)).kind = decodeModRM(i).kind
  BY DEF decodeModRM, applySeg, regOperand, memOperand
<1>3. QED
  BY <1>1, <1>2 DEF RmOf, RegOf, regOperand

(* The registers an operand of the instruction may name.                   *)
LEMMA NamedOperand ==
    ASSUME NEW i, NEW o \in {RegOf(i), RmOf(i)}
    PROVE  o.kind = "mem" \/ o.reg \in Named(i)
  BY RmKind DEF Named

LEMMA VexPlain ==
    ASSUME NEW s, Ready(s), NEW n, NEW A, Only(s, n, A), A \subseteq {"gpr", "flags"}, NEW i
    PROVE  VexOnly(s, n, i)
<1>1. Only(s, n, {"gpr", "flags", "xmm", "yhi", "mem", "err"})
  <2>1. A \subseteq {"gpr", "flags", "xmm", "yhi", "mem", "err"}
    OBVIOUS
  <2>2. QED
    BY <2>1, OnlyMore
<1>2. n.err = s.err /\ n.xmm = s.xmm /\ n.yhi = s.yhi
  BY DEF Only, Fields
<1>3. QED
  BY <1>1, <1>2 DEF VexOnly, Ready

LEMMA VexStore ==
    ASSUME NEW s, NEW n, NEW A, Only(s, n, A), A \subseteq {"mem", "err"}, NEW i PROVE VexOnly(s, n, i)
<1>1. Only(s, n, {"gpr", "flags", "xmm", "yhi", "mem", "err"}) /\ Only(s, n, {"mem", "err"})
  <2>1. A \subseteq {"gpr", "flags", "xmm", "yhi", "mem", "err"}
    OBVIOUS
  <2>2. QED
    BY <2>1, OnlyMore
<1>2. n.xmm = s.xmm /\ n.yhi = s.yhi
  BY DEF Only, Fields
<1>3. QED
  BY <1>1, <1>2 DEF VexOnly

LEMMA VexFail ==
    ASSUME NEW s, Ready(s), NEW why, NEW i PROVE VexOnly(s, Fault(s), i) /\ VexOnly(s, Fail(s, why), i)
  BY VexStore, FaultOnly, FailOnly DEF Ready

LEMMA VexFlags == ASSUME NEW s, Ready(s), NEW t, NEW on, NEW i PROVE VexOnly(s, setFlags(s, t, on), i)
  BY VexPlain, FlagsOnly DEF Ready

LEMMA VexChecked == ASSUME NEW s, Ready(s), NEW a, NEW b, NEW i PROVE VexOnly(s, writeChecked(s, a, b), i)
  BY VexStore, CheckedOnly DEF Ready

LEMMA VexOperand ==
    ASSUME NEW s, Ready(s), NEW o, NEW w, NEW v, NEW i PROVE VexOnly(s, writeOperand(s, o, w, v), i)
<1>1. CASE o.kind = "reg"
  BY <1>1, VexPlain, OperandOnly DEF Ready
<1>2. CASE o.kind # "reg"
  BY <1>2, VexStore, OperandOnly DEF Ready
<1>3. QED
  BY <1>1, <1>2

LEMMA VexXmm ==
    ASSUME NEW s, Ready(s), NEW i, NEW x \in Named(i), NEW v PROVE VexOnly(s, writeXMMVex(s, x, v), i)
<1> DEFINE n == writeXMMVex(s, x, v)
<1>1. /\ Only(s, n, {"xmm", "yhi"})
      /\ \A y \in Reg : y # x => n.xmm[y] = s.xmm[y] /\ n.yhi[y] = s.yhi[y]
      /\ x \in Reg => n.yhi[x] = Zeros(16)
  BY XmmVexOnly DEF Ready
<1> HIDE DEF n
<1>2. Only(s, n, {"gpr", "flags", "xmm", "yhi", "mem", "err"})
  BY <1>1, OnlyMore
<1>3. n.err = "ok"
  BY <1>1 DEF Only, Fields, Ready
<1>4. QED
  BY <1>1, <1>2, <1>3 DEF VexOnly, n

LEMMA VexYmm ==
    ASSUME NEW s, Ready(s), NEW i, i.L \/ i.group \in Always256, NEW x \in Named(i), NEW v, NEW w
    PROVE  VexOnly(s, writeYMM(s, x, v, w), i)
<1> DEFINE n == writeYMM(s, x, v, w)
<1>1. /\ Only(s, n, {"xmm", "yhi"})
      /\ \A y \in Reg : y # x => n.xmm[y] = s.xmm[y] /\ n.yhi[y] = s.yhi[y]
  BY YmmOnly DEF Ready
<1> HIDE DEF n
<1>2. Only(s, n, {"gpr", "flags", "xmm", "yhi", "mem", "err"})
  BY <1>1, OnlyMore
<1>3. n.err = "ok"
  BY <1>1 DEF Only, Fields, Ready
<1>4. QED
  BY <1>1, <1>2, <1>3 DEF VexOnly, n

LEMMA VexXmmOp ==
    ASSUME NEW s, Ready(s), NEW i, NEW o \in {RegOf(i), RmOf(i)}, NEW v
    PROVE  VexOnly(s, writeXMMOp(s, o, v, TRUE), i)
  BY NamedOperand, VexXmm, VexChecked DEF writeXMMOp

LEMMA VexYmmOp ==
    ASSUME NEW s, Ready(s), NEW i, i.L \/ i.group \in Always256, NEW o \in {RegOf(i), RmOf(i)}, NEW v
    PROVE  VexOnly(s, writeYMMOp(s, o, v), i)
  BY NamedOperand, VexYmm, VexChecked DEF writeYMMOp

LEMMA RegNamed == ASSUME NEW i PROVE RegOf(i).reg \in Named(i)
  BY DEF Named

LEMMA VexMoveOnly == ASSUME NEW s, Ready(s), NEW i PROVE VexOnly(s, VexMove(s, i), i)
  BY VexFail, VexXmmOp, VexYmmOp DEF VexMove, execYMM, execXMM

LEMMA VexConvertIntOnly == ASSUME NEW s, Ready(s), NEW i PROVE VexOnly(s, VexConvertInt(s, i), i)
  BY VexFail, VexXmm, RegNamed DEF VexConvertInt, Reading

LEMMA VexConvertToIntOnly == ASSUME NEW s, Ready(s), NEW i PROVE VexOnly(s, VexConvertToInt(s, i), i)
  BY VexFail, VexOperand DEF VexConvertToInt

LEMMA VexComisOnly == ASSUME NEW s, Ready(s), NEW i PROVE VexOnly(s, VexComis(s, i), i)
  BY VexFail, VexFlags DEF VexComis, Comis

LEMMA VexConvertFloatOnly == ASSUME NEW s, Ready(s), NEW i PROVE VexOnly(s, VexConvertFloat(s, i), i)
  BY VexFail, VexXmmOp DEF VexConvertFloat, execXMM3

LEMMA VexSqrtOnly == ASSUME NEW s, Ready(s), NEW i PROVE VexOnly(s, VexSqrt(s, i), i)
<1>1. Kind(i) \in {"ss", "sd", "pd", "ps"}
  BY DEF Kind
<1>2. CASE Kind(i) \in {"ss", "sd"}
  BY <1>2, VexFail, VexXmmOp DEF VexSqrt, Xmm2, execXMM
<1>3. CASE Kind(i) \in {"pd", "ps"} /\ ~i.L
  BY <1>3, VexFail, VexXmmOp DEF VexSqrt, Xmm2, execXMM
<1>4. CASE Kind(i) \in {"pd", "ps"} /\ i.L
  BY <1>4, VexFail, VexYmmOp DEF VexSqrt
<1>5. QED
  BY <1>1, <1>2, <1>3, <1>4

LEMMA VexLogicOnly == ASSUME NEW s, Ready(s), NEW i PROVE VexOnly(s, VexLogic(s, i), i)
  BY VexFail, VexXmmOp, VexYmmOp DEF VexLogic, execXMM3, execYMM3

LEMMA VexAddOnly == ASSUME NEW s, Ready(s), NEW i PROVE VexOnly(s, VexAdd(s, i), i)
  BY VexFail, VexXmmOp, VexYmmOp DEF VexAdd, execXMM3

LEMMA vexBinopOnly == ASSUME NEW s, Ready(s), NEW i PROVE VexOnly(s, vexBinop(s, i), i)
  BY VexFail, VexXmmOp, VexYmmOp DEF vexBinop, execXMM3, execYMM3

LEMMA VexMovdQOnly ==
    ASSUME NEW s, Ready(s), NEW i, i.op \in {"movdLoad", "movdStore"} \/ (i.op = "movq" /\ Kind(i) = "ss")
    PROVE  VexOnly(s, VexMovdQ(s, i), i)
  BY VexFail, VexXmmOp, VexXmm, VexOperand, RegNamed DEF VexMovdQ, Reading, Xmm2, execXMM

LEMMA VexPshufOnly == ASSUME NEW s, Ready(s), NEW i PROVE VexOnly(s, VexPshuf(s, i), i)
  BY VexFail, VexXmmOp DEF VexPshuf, Xmm2, execXMM

LEMMA VexPshufbOnly == ASSUME NEW s, Ready(s), NEW i PROVE VexOnly(s, VexPshufb(s, i), i)
  BY VexFail, VexXmmOp DEF VexPshufb, execXMM3

LEMMA VexPtestOnly == ASSUME NEW s, Ready(s), NEW i PROVE VexOnly(s, VexPtest(s, i), i)
  BY VexFail, VexFlags DEF VexPtest, Ptest

LEMMA VexBroadcastOnly == ASSUME NEW s, Ready(s), NEW i PROVE VexOnly(s, VexBroadcast(s, i), i)
  BY VexFail, VexXmm, VexYmmOp, RegNamed DEF VexBroadcast

LEMMA VexPermilOnly == ASSUME NEW s, Ready(s), NEW i PROVE VexOnly(s, VexPermil(s, i), i)
  BY VexFail, VexXmmOp DEF VexPermil, Xmm2, execXMM

LEMMA VexPerm128Only == ASSUME NEW s, Ready(s), NEW i, i.group = "VexPerm128" PROVE VexOnly(s, VexPerm128(s, i), i)
  BY VexFail, VexYmmOp DEF VexPerm128, Always256

LEMMA VexInsert128Only == ASSUME NEW s, Ready(s), NEW i, i.group = "VexInsert128" PROVE VexOnly(s, VexInsert128(s, i), i)
  BY VexFail, VexYmmOp DEF VexInsert128, Always256

LEMMA VexExtract128Only == ASSUME NEW s, Ready(s), NEW i PROVE VexOnly(s, VexExtract128(s, i), i)
  BY VexXmmOp DEF VexExtract128

LEMMA VexAlignRightOnly == ASSUME NEW s, Ready(s), NEW i PROVE VexOnly(s, VexAlignRight(s, i), i)
  BY VexFail, VexXmmOp DEF VexAlignRight, execXMM3

LEMMA VexInsertLaneOnly == ASSUME NEW s, Ready(s), NEW i PROVE VexOnly(s, VexInsertLane(s, i), i)
  BY VexFail, VexXmm, RegNamed DEF VexInsertLane, Reading

LEMMA VexInsertSingleOnly == ASSUME NEW s, Ready(s), NEW i PROVE VexOnly(s, VexInsertSingle(s, i), i)
  BY VexFail, VexXmmOp DEF VexInsertSingle, execXMM3

LEMMA VexPackedOnly == ASSUME NEW s, Ready(s), NEW i, NEW table PROVE VexOnly(s, VexPacked(s, i, table), i)
  BY VexFail, VexXmmOp DEF VexPacked, execXMM3

LEMMA VexExecOnly ==
    ASSUME NEW s, Ready(s), NEW i, Decoded(i), i.group \in VexGroups PROVE VexOnly(s, VexExec(s, i), i)
<1>1. CASE i.group = "VexMove"
  BY <1>1, VexMoveOnly DEF VexExec
<1>2. CASE i.group = "VexConvertInt"
  BY <1>2, VexConvertIntOnly DEF VexExec
<1>3. CASE i.group = "VexConvertToInt"
  BY <1>3, VexConvertToIntOnly DEF VexExec
<1>4. CASE i.group = "VexComis"
  BY <1>4, VexComisOnly DEF VexExec
<1>5. CASE i.group = "VexConvertFloat"
  BY <1>5, VexConvertFloatOnly DEF VexExec
<1>6. CASE i.group = "VexSqrt"
  BY <1>6, VexSqrtOnly DEF VexExec
<1>7. CASE i.group = "VexLogic"
  BY <1>7, VexLogicOnly DEF VexExec
<1>8. CASE i.group = "VexAdd"
  BY <1>8, VexAddOnly DEF VexExec
<1>9. CASE i.group = "vexBinop"
  BY <1>9, vexBinopOnly DEF VexExec
<1>10. CASE i.group = "VexMovdQ"
  BY <1>10, VexMovdQOnly DEF VexExec, Decoded
<1>11. CASE i.group = "VexPshuf"
  BY <1>11, VexPshufOnly DEF VexExec
<1>12. CASE i.group = "VexPshufb"
  BY <1>12, VexPshufbOnly DEF VexExec
<1>13. CASE i.group = "VexPtest"
  BY <1>13, VexPtestOnly DEF VexExec
<1>14. CASE i.group = "VexBroadcast"
  BY <1>14, VexBroadcastOnly DEF VexExec
<1>15. CASE i.group = "VexPermil"
  BY <1>15, VexPermilOnly DEF VexExec
<1>16. CASE i.group = "VexPerm128"
  BY <1>16, VexPerm128Only DEF VexExec
<1>17. CASE i.group = "VexInsert128"
  BY <1>17, VexInsert128Only DEF VexExec
<1>18. CASE i.group = "VexExtract128"
  BY <1>18, VexExtract128Only DEF VexExec
<1>19. CASE i.group = "VexAlignRight"
  BY <1>19, VexAlignRightOnly DEF VexExec
<1>20. CASE i.group = "VexInsertLane"
  BY <1>20, VexInsertLaneOnly DEF VexExec
<1>21. CASE i.group = "VexInsertSingle"
  BY <1>21, VexInsertSingleOnly DEF VexExec
<1>22. CASE i.group = "VexPackedD4"
  BY <1>22, VexPackedOnly DEF VexExec
<1>23. CASE i.group = "VexPacked28"
  BY <1>23, VexPackedOnly DEF VexExec
<1>24. QED
  BY <1>1, <1>2, <1>3, <1>4, <1>5, <1>6, <1>7, <1>8, <1>9, <1>10, <1>11, <1>12, <1>13,
     <1>14, <1>15, <1>16, <1>17, <1>18, <1>19, <1>20, <1>21, <1>22, <1>23 DEF VexGroups

(* Theorem.  Whatever the operands, the closure that decodeVexInsn builds  *)
(* changes the upper halves of the registers the instruction names only,   *)
(* leaves zeros above a 128-bit result, and when it fails has changed no   *)
(* register and no flag.  This is about the closure; the engine does not   *)
(* call it, as FilesApart shows.                                           *)
THEOREM VexClosuresLeave ==
    ASSUME NEW s, Ready(s), NEW i, Decoded(i), i.group \in VexGroups PROVE VexLeaves(s, i)
<1> DEFINE n == VexExec(s, i)
<1>1. VexOnly(s, n, i)
  BY VexExecOnly
<1> HIDE DEF n
<1>2. ASSUME n.err # "ok" PROVE n = [s EXCEPT !.err = n.err, !.mem = n.mem]
  BY <1>1, <1>2 DEF VexOnly, Only, Shape, Ready, Fields
<1>3. QED
  BY <1>1, <1>2 DEF VexOnly, VexLeaves, n

-----------------------------------------------------------------------------
(***************************************************************************)
(* The steps of the engine.  Begun is the machine the handler is given;    *)
(* Finish what EmuStart makes of the one it leaves.  A hook may change     *)
(* memory and what is mapped as it likes, and a few of the registers.      *)
(***************************************************************************)
CpuInv == run \in Runs /\ Shape(m)

Direct == Running /\ Insn.insnID = noInsnHook
IntMoved(n) == Direct /\ Insn.group \notin SseGroups /\ IntOnly(Begun, n) /\ m' = Finish(n)
SseMoved(n) == Direct /\ Insn.group \in SseGroups /\ SseOnly(Begun, n) /\ m' = Finish(n)
HookKept(s, n) == Shape(n) /\ \A f \in {"flags", "gs", "xmm", "yhi", "mxcsr"} : n[f] = s[f]
HookMoved == Running /\ Insn.insnID # noInsnHook /\ HookKept(m, m')

LEMMA BegunReady ==
    ASSUME CpuInv, Running PROVE Ready(Begun) /\ Only(m, Begun, {"rip", "end"})
  BY DEF CpuInv, Running, Begun, Ready, Shape, Only, Fields, Stores

LEMMA InsnDecoded == ASSUME CpuInv, Running PROVE Decoded(Insn)
  BY RunsAssumption DEF CpuInv, Running, Insn

LEMMA NotSse ==
    ASSUME NEW g \in {"AluRm", "AluAcc", "Group1", "Test", "Mov", "Lea", "Xchg", "Movsxd",
                  "Setcc", "Cmov", "MovExtend", "ConvertAcc", "ConvertDx", "Group3",
                  "Imul", "IncDec", "Shift", "DoubleShift", "BtImm", "BitScan",
                  "Bswap", "Cmpxchg", "Xadd", "Push", "Pop", "Leave", "Call", "Jmp",
                  "Jcc", "Ret", "String", "Bt"}
    PROVE  g \notin SseGroups
  BY DEF SseGroups

LEMMA IntegerSteps == ASSUME CpuInv, IntegerStep PROVE \E n : IntMoved(n)
<1> USE DEF IntMoved, Direct, Step
<1>1. CASE DoAluRm
  BY <1>1, BegunReady, AluRmOnly, NotSse DEF DoAluRm, Ready
<1>2. CASE DoAluAcc
  BY <1>2, BegunReady, AluAccOnly, NotSse DEF DoAluAcc, Ready
<1>3. CASE DoGroup1
  BY <1>3, BegunReady, Group1Only, NotSse DEF DoGroup1, Ready
<1>4. CASE DoTest
  BY <1>4, BegunReady, TestOnly, NotSse, InsnDecoded DEF DoTest, Decoded, Ready
<1>5. CASE DoMov
  BY <1>5, BegunReady, MovOnly, NotSse, InsnDecoded DEF DoMov, Decoded, Ready
<1>6. CASE DoLea
  BY <1>6, BegunReady, LeaOnly, NotSse DEF DoLea, Ready
<1>7. CASE DoXchg
  BY <1>7, BegunReady, XchgOnly, NotSse DEF DoXchg, Ready
<1>8. CASE DoMovsxd
  BY <1>8, BegunReady, MovsxdOnly, NotSse DEF DoMovsxd, Ready
<1>9. CASE DoSetcc
  BY <1>9, BegunReady, SetccOnly, NotSse DEF DoSetcc, Ready
<1>10. CASE DoCmov
  BY <1>10, BegunReady, CmovOnly, NotSse DEF DoCmov, Ready
<1>11. CASE DoMovExtend
  BY <1>11, BegunReady, MovExtendOnly, NotSse DEF DoMovExtend, Ready
<1>12. CASE DoConvertAcc
  BY <1>12, BegunReady, ConvertAccOnly, NotSse DEF DoConvertAcc, Ready
<1>13. CASE DoConvertDx
  BY <1>13, BegunReady, ConvertDxOnly, NotSse DEF DoConvertDx, Ready
<1>14. CASE DoGroup3
  BY <1>14, BegunReady, Group3Only, NotSse, InsnDecoded DEF DoGroup3, Decoded, Ready
<1>15. CASE DoImul
  BY <1>15, BegunReady, ImulOnly, NotSse DEF DoImul, Ready
<1>16. CASE DoIncDec
  BY <1>16, BegunReady, IncDecOnly, NotSse DEF DoIncDec, Ready
<1>17. CASE DoShift
  BY <1>17, BegunReady, ShiftOnly, NotSse DEF DoShift, Ready
<1>18. CASE DoDoubleShift
  BY <1>18, BegunReady, DoubleShiftOnly, NotSse DEF DoDoubleShift, Ready
<1>19. CASE DoBtImm
  BY <1>19, BegunReady, BtOnly, NotSse, InsnDecoded DEF DoBtImm, Decoded, Ready
<1>20. CASE DoBitScan
  BY <1>20, BegunReady, BitScanOnly, NotSse, InsnDecoded DEF DoBitScan, Decoded, Ready
<1>21. CASE DoBswap
  BY <1>21, BegunReady, BswapOnly, NotSse DEF DoBswap, Ready
<1>22. CASE DoCmpxchg
  BY <1>22, BegunReady, CmpxchgOnly, NotSse DEF DoCmpxchg, Ready
<1>23. CASE DoXadd
  BY <1>23, BegunReady, XaddOnly, NotSse DEF DoXadd, Ready
<1>24. CASE DoPush
  BY <1>24, BegunReady, PushOnly, NotSse, InsnDecoded DEF DoPush, Decoded, Ready
<1>25. CASE DoPop
  BY <1>25, BegunReady, PopOnly, NotSse DEF DoPop, Ready
<1>26. CASE DoLeave
  BY <1>26, BegunReady, LeaveOnly, NotSse DEF DoLeave, Ready
<1>27. CASE DoCall
  BY <1>27, BegunReady, CallOnly, NotSse DEF DoCall, Ready
<1>28. CASE DoJmp
  BY <1>28, BegunReady, JmpOnly, NotSse DEF DoJmp, Ready
<1>29. CASE DoJcc
  BY <1>29, BegunReady, JccOnly, NotSse DEF DoJcc, Ready
<1>30. CASE DoRet
  BY <1>30, BegunReady, RetOnly, NotSse DEF DoRet, Ready
<1>31. CASE DoString
  BY <1>31, BegunReady, StringOnly, NotSse, InsnDecoded DEF DoString, Decoded, Ready
<1>32. CASE DoBt
  BY <1>32, BegunReady, BtOnly, NotSse, InsnDecoded DEF DoBt, Decoded, Ready
<1>33. QED
  BY <1>1, <1>2, <1>3, <1>4, <1>5, <1>6, <1>7, <1>8, <1>9, <1>10, <1>11, <1>12, <1>13,
     <1>14, <1>15, <1>16, <1>17, <1>18, <1>19, <1>20, <1>21, <1>22, <1>23, <1>24, <1>25,
     <1>26, <1>27, <1>28, <1>29, <1>30, <1>31, <1>32 DEF IntegerStep

LEMMA SseSteps == ASSUME CpuInv, SseStep PROVE \E n : SseMoved(n)
<1> USE DEF SseMoved, Direct, Step
<1>1. CASE DoMoveLoad
  BY <1>1, BegunReady, MoveLoadOnly DEF DoMoveLoad, SseGroups
<1>2. CASE DoMoveStore
  BY <1>2, BegunReady, MoveStoreOnly DEF DoMoveStore, SseGroups
<1>3. CASE DoFullMove
  BY <1>3, BegunReady, FullMoveOnly DEF DoFullMove, SseGroups
<1>4. CASE DoHalfMove
  BY <1>4, BegunReady, HalfMoveOnly DEF DoHalfMove, SseGroups
<1>5. CASE DoUnpackFloat
  BY <1>5, BegunReady, UnpackFloatOnly DEF DoUnpackFloat, SseGroups
<1>6. CASE DoMovdQ
  BY <1>6, BegunReady, MovdQOnly, InsnDecoded DEF DoMovdQ, Decoded, SseGroups
<1>7. CASE DoMovntdq
  BY <1>7, BegunReady, MovntdqOnly DEF DoMovntdq, SseGroups
<1>8. CASE DoConvertInt
  BY <1>8, BegunReady, ConvertIntOnly DEF DoConvertInt, SseGroups
<1>9. CASE DoConvertToInt
  BY <1>9, BegunReady, ConvertToIntOnly DEF DoConvertToInt, SseGroups
<1>10. CASE DoConvertFloat
  BY <1>10, BegunReady, ConvertFloatOnly DEF DoConvertFloat, SseGroups
<1>11. CASE DoConvertDq
  BY <1>11, BegunReady, ConvertDqOnly DEF DoConvertDq, SseGroups
<1>12. CASE DoConvertPd
  BY <1>12, BegunReady, ConvertPdOnly DEF DoConvertPd, SseGroups
<1>13. CASE DoComis
  BY <1>13, BegunReady, ComisOnly DEF DoComis, SseGroups
<1>14. CASE DoMovmsk
  BY <1>14, BegunReady, MovmskOnly DEF DoMovmsk, SseGroups
<1>15. CASE DoSseArith
  BY <1>15, BegunReady, SseArithOnly DEF DoSseArith, SseGroups
<1>16. CASE DoSseUnary
  BY <1>16, BegunReady, SseUnaryOnly DEF DoSseUnary, SseGroups
<1>17. CASE DoSseLogic
  BY <1>17, BegunReady, SseLogicOnly DEF DoSseLogic, SseGroups
<1>18. CASE DoSseHadd
  BY <1>18, BegunReady, SseHaddOnly DEF DoSseHadd, SseGroups
<1>19. CASE DoSseCmp
  BY <1>19, BegunReady, SseCmpOnly DEF DoSseCmp, SseGroups
<1>20. CASE DoSseShuf
  BY <1>20, BegunReady, SseShufOnly DEF DoSseShuf, SseGroups
<1>21. CASE DoPshuf
  BY <1>21, BegunReady, PshufOnly DEF DoPshuf, SseGroups
<1>22. CASE DoShiftImm
  BY <1>22, BegunReady, ShiftImmOnly DEF DoShiftImm, SseGroups
<1>23. CASE DoShiftReg
  BY <1>23, BegunReady, ShiftRegOnly DEF DoShiftReg, SseGroups
<1>24. CASE DoInsertLane
  BY <1>24, BegunReady, InsertLaneOnly DEF DoInsertLane, SseGroups
<1>25. CASE DoExtractWord
  BY <1>25, BegunReady, ExtractWordOnly DEF DoExtractWord, SseGroups
<1>26. CASE DoExtractLane
  BY <1>26, BegunReady, ExtractLaneOnly DEF DoExtractLane, SseGroups
<1>27. CASE DoPmovmskb
  BY <1>27, BegunReady, PmovmskbOnly DEF DoPmovmskb, SseGroups
<1>28. CASE DoMxcsr
  BY <1>28, BegunReady, MxcsrOnly DEF DoMxcsr, SseGroups
<1>29. CASE DoPtest
  BY <1>29, BegunReady, PtestOnly DEF DoPtest, SseGroups
<1>30. CASE DoByteShuffle
  BY <1>30, BegunReady, ByteShuffleOnly DEF DoByteShuffle, SseGroups
<1>31. CASE DoRound
  BY <1>31, BegunReady, RoundOnly DEF DoRound, SseGroups
<1>32. CASE DoAlignRight
  BY <1>32, BegunReady, AlignRightOnly DEF DoAlignRight, SseGroups
<1>33. CASE DoInsertSingle
  BY <1>33, BegunReady, InsertSingleOnly DEF DoInsertSingle, SseGroups
<1>34. CASE DoDot
  BY <1>34, BegunReady, DotOnly DEF DoDot, SseGroups
<1>35. CASE DoPacked60
  BY <1>35, BegunReady, SsePackedOnly DEF DoPacked60, SseGroups
<1>36. CASE DoPacked68
  BY <1>36, BegunReady, SsePackedOnly DEF DoPacked68, SseGroups
<1>37. CASE DoPacked74
  BY <1>37, BegunReady, SsePackedOnly DEF DoPacked74, SseGroups
<1>38. CASE DoPackedD4
  BY <1>38, BegunReady, SsePackedOnly DEF DoPackedD4, SseGroups
<1>39. CASE DoPackedD8
  BY <1>39, BegunReady, SsePackedOnly DEF DoPackedD8, SseGroups
<1>40. CASE DoPackedE3
  BY <1>40, BegunReady, SsePackedOnly DEF DoPackedE3, SseGroups
<1>41. CASE DoPackedE8
  BY <1>41, BegunReady, SsePackedOnly DEF DoPackedE8, SseGroups
<1>42. CASE DoPackedF4
  BY <1>42, BegunReady, SsePackedOnly DEF DoPackedF4, SseGroups
<1>43. CASE DoPacked38
  BY <1>43, BegunReady, SsePackedOnly DEF DoPacked38, SseGroups
<1>44. QED
  BY <1>1, <1>2, <1>3, <1>4, <1>5, <1>6, <1>7, <1>8, <1>9, <1>10, <1>11, <1>12, <1>13,
     <1>14, <1>15, <1>16, <1>17, <1>18, <1>19, <1>20, <1>21, <1>22, <1>23, <1>24, <1>25,
     <1>26, <1>27, <1>28, <1>29, <1>30, <1>31, <1>32, <1>33, <1>34, <1>35, <1>36, <1>37,
     <1>38, <1>39, <1>40, <1>41, <1>42, <1>43 DEF SseStep

LEMMA FinishOnly == ASSUME NEW n, Shape(n) PROVE Only(n, Finish(n), {"rip"}) /\ Finish(n).err = n.err
<1>1. Only(n, [n EXCEPT !.rip = m.rip], {"rip"}) /\ [n EXCEPT !.rip = m.rip].err = n.err
  BY DEF Shape, Only, Fields, Stores
<1>2. Only(n, n, {"rip"})
  BY OnlySelf, OnlyMore
<1>3. QED
  BY <1>1, <1>2 DEF Finish

LEMMA Moved ==
    ASSUME CpuInv, Running, NEW n, NEW A, Only(Begun, n, A), m' = Finish(n), "perm" \notin A
    PROVE  Only(m, m', {"rip", "end"} \cup A) /\ m'.err = n.err
<1>1. Only(m, n, {"rip", "end"} \cup A)
  BY BegunReady, OnlyThen
<1>2. Shape(n)
  BY DEF Only
<1>3. Only(n, m', {"rip"}) /\ m'.err = n.err
  BY <1>2, FinishOnly
<1>4. Only(m, m', ({"rip", "end"} \cup A) \cup {"rip"})
  BY <1>1, <1>3, OnlyThen
<1>5. ({"rip", "end"} \cup A) \cup {"rip"} = {"rip", "end"} \cup A
  OBVIOUS
<1>6. QED
  BY <1>3, <1>4, <1>5

LEMMA HookFetched == ASSUME CpuInv PROVE Shape(Fetched) /\ HookKept(m, Fetched)
<1>1. ASSUME NEW end PROVE Shape([m EXCEPT !.end = end]) /\ HookKept(m, [m EXCEPT !.end = end])
  BY DEF CpuInv, Shape, Fields, HookKept
<1>2. QED
  BY <1>1 DEF Fetched

LEMMA HookThen ==
    ASSUME CpuInv, NEW n, HookKept(Fetched, n) PROVE HookKept(m, n)
  BY HookFetched DEF HookKept

LEMMA ReturnKept ==
    ASSUME NEW s, Shape(s), NEW pc, NEW v, NEW f, NEW mem
    PROVE  HookKept(s, [s EXCEPT !.rip = pc, !.gpr[RAX] = v, !.fs = f, !.mem = mem])
  BY DEF Shape, Fields, HookKept

LEMMA MapKept ==
    ASSUME NEW s, Shape(s), NEW pc, NEW v, NEW p, NEW q, NEW mem
    PROVE  HookKept(s, [s EXCEPT !.rip = pc, !.gpr[RAX] = v, !.perm[p] = q, !.mem = mem])
  BY DEF Shape, Fields, HookKept

LEMMA CpuidKept ==
    ASSUME NEW s, Shape(s), NEW pc, NEW a, NEW b, NEW c, NEW d
    PROVE  HookKept(s, [s EXCEPT !.rip = pc, !.gpr[RAX] = a, !.gpr[RBX] = b, !.gpr[RCX] = c, !.gpr[RDX] = d])
  BY DEF Shape, Fields, HookKept

LEMMA ErrKept == ASSUME NEW s, Shape(s), NEW why PROVE HookKept(s, [s EXCEPT !.err = why])
  BY DEF Shape, Fields, HookKept

LEMMA HookSteps == ASSUME CpuInv, HookStep PROVE HookMoved
<1> SUFFICES HookKept(Fetched, m') /\ Running /\ Insn.insnID # noInsnHook
  BY HookThen DEF HookMoved
<1>1. Shape(Fetched)
  BY HookFetched
<1>2. CASE SyscallReturns
  <2>1. Running /\ Insn.insnID # noInsnHook
    BY <1>2 DEF SyscallReturns, Hooked, InsSyscall, noInsnHook
  <2>2. PICK v \in CallResults, f \in {m.fs} \cup CallResults,
             P \in SUBSET {p \in CallPages : m.perm[p] # {}} :
          m' = [Fetched EXCEPT !.rip = Fetched.end, !.gpr[RAX] = v, !.fs = f,
                   !.mem = [a \in DOMAIN @ |-> IF a \div PageBytes \in P THEN 0 ELSE @[a]]]
    BY <1>2 DEF SyscallReturns
  <2>3. QED
    BY <1>1, <2>1, <2>2, ReturnKept
<1>3. CASE SyscallMaps
  <2>1. Running /\ Insn.insnID # noInsnHook
    BY <1>3 DEF SyscallMaps, Hooked, InsSyscall, noInsnHook
  <2>2. PICK v \in CallResults, p \in CallPages, q \in SUBSET {"r", "w"}, fresh \in BOOLEAN :
          m' = [Fetched EXCEPT !.rip = Fetched.end, !.gpr[RAX] = v, !.perm[p] = q,
                   !.mem = [a \in DOMAIN @ |-> IF fresh /\ a \div PageBytes = p THEN 0 ELSE @[a]]]
    BY <1>3 DEF SyscallMaps
  <2>3. QED
    BY <1>1, <2>1, <2>2, MapKept
<1>4. CASE SyscallStops
  <2>1. Running /\ Insn.insnID # noInsnHook /\ m' = [Fetched EXCEPT !.err = "stop"]
    BY <1>4 DEF SyscallStops, Hooked, InsSyscall, noInsnHook
  <2>2. QED
    BY <1>1, <2>1, ErrKept
<1>5. CASE CpuidReturns
  <2>1. Running /\ Insn.insnID # noInsnHook
    BY <1>5 DEF CpuidReturns, Hooked, InsCpuid, noInsnHook
  <2>2. PICK a, b, c, d \in CallResults :
          m' = [Fetched EXCEPT !.rip = Fetched.end, !.gpr[RAX] = a, !.gpr[RBX] = b,
                               !.gpr[RCX] = c, !.gpr[RDX] = d]
    BY <1>5 DEF CpuidReturns
  <2>3. QED
    BY <1>1, <2>1, <2>2, CpuidKept
<1>6. CASE NoHookInstalled
  <2>1. Running /\ Insn.insnID # noInsnHook /\ m' = [Fetched EXCEPT !.err = "error"]
    BY <1>6 DEF NoHookInstalled, Fail
  <2>2. QED
    BY <1>1, <2>1, ErrKept
<1>7. QED
  BY <1>2, <1>3, <1>4, <1>5, <1>6 DEF HookStep

LEMMA Kinds == ASSUME CpuInv, Next PROVE (\E n : IntMoved(n) \/ SseMoved(n)) \/ HookMoved
  BY IntegerSteps, SseSteps, HookSteps DEF Next

LEMMA IntMovedOnly ==
    ASSUME CpuInv, NEW n, IntMoved(n) PROVE Only(m, m', {"gpr", "flags", "rip", "end", "mem", "err"})
<1>1. Only(m, m', {"rip", "end"} \cup {"gpr", "flags", "rip", "mem", "err"})
  BY Moved DEF IntMoved, Direct, IntOnly
<1>2. {"rip", "end"} \cup {"gpr", "flags", "rip", "mem", "err"} = {"gpr", "flags", "rip", "end", "mem", "err"}
  OBVIOUS
<1>3. QED
  BY <1>1, <1>2

LEMMA SseMovedOnly ==
    ASSUME CpuInv, NEW n, SseMoved(n)
    PROVE  Only(m, m', {"gpr", "flags", "rip", "end", "mem", "err", "xmm", "mxcsr"})
<1>1. Only(m, m', {"rip", "end"} \cup {"gpr", "flags", "xmm", "mxcsr", "mem", "err"})
  BY Moved DEF SseMoved, Direct, SseOnly
<1>2. {"rip", "end"} \cup {"gpr", "flags", "xmm", "mxcsr", "mem", "err"}
         = {"gpr", "flags", "rip", "end", "mem", "err", "xmm", "mxcsr"}
  OBVIOUS
<1>3. QED
  BY <1>1, <1>2

LEMMA DirectOnly ==
    ASSUME CpuInv, Next, Insn.insnID = noInsnHook
    PROVE  Only(m, m', {"gpr", "flags", "rip", "end", "mem", "err", "xmm", "mxcsr"})
<1>1. PICK n : IntMoved(n) \/ SseMoved(n)
  BY Kinds DEF HookMoved
<1>2. CASE IntMoved(n)
  BY <1>2, IntMovedOnly, OnlyMore
<1>3. CASE SseMoved(n)
  BY <1>3, SseMovedOnly
<1>4. QED
  BY <1>1, <1>2, <1>3

LEMMA RunKept == ASSUME Next PROVE run' = run
  BY DEF Next, IntegerStep, SseStep, HookStep, Step,
         DoAluRm, DoAluAcc, DoGroup1, DoTest, DoMov, DoLea, DoXchg, DoMovsxd, DoSetcc,
         DoCmov, DoMovExtend, DoConvertAcc, DoConvertDx, DoGroup3, DoImul, DoIncDec, DoShift,
         DoDoubleShift, DoBtImm, DoBitScan, DoBswap, DoCmpxchg, DoXadd, DoPush, DoPop,
         DoLeave, DoCall, DoJmp, DoJcc, DoRet, DoString, DoMoveLoad, DoMoveStore, DoFullMove,
         DoHalfMove, DoUnpackFloat, DoMovdQ, DoMovntdq, DoConvertInt, DoConvertToInt,
         DoConvertFloat, DoConvertDq, DoConvertPd, DoComis, DoMovmsk, DoSseArith, DoSseUnary,
         DoSseLogic, DoSseHadd, DoSseCmp, DoSseShuf, DoPshuf, DoShiftImm, DoShiftReg,
         DoInsertLane, DoExtractWord, DoExtractLane, DoPmovmskb, DoMxcsr, DoPtest,
         DoByteShuffle, DoRound, DoAlignRight, DoInsertSingle, DoDot, DoPacked60, DoPacked68,
         DoPacked74, DoPackedD4, DoPackedD8, DoPackedE3, DoPackedE8, DoPackedF4, DoPacked38,
         DoBt, SyscallReturns, SyscallMaps, SyscallStops, CpuidReturns, NoHookInstalled

(* Theorem.  Whatever the program, the machine keeps its registers and the *)
(* program is one of Runs, whose instructions the decoder knows.           *)
THEOREM CpuInvariance == Spec => []CpuInv
<1>1. Init => CpuInv
  <2> SUFFICES ASSUME Init PROVE CpuInv
    OBVIOUS
  <2>1. run \in Runs /\ m \in Machine
    BY RunsAssumption DEF Init
  <2>2. QED
    BY <2>1 DEF CpuInv, Machine, Shape, Fields
<1>2. CpuInv /\ [Next]_vars => CpuInv'
  <2> SUFFICES ASSUME CpuInv, [Next]_vars PROVE CpuInv'
    OBVIOUS
  <2>1. CASE Next
    <3>1. Shape(m')
      BY <2>1, Kinds, IntMovedOnly, SseMovedOnly DEF Only, HookMoved, HookKept
    <3>2. QED
      BY <2>1, <3>1, RunKept DEF CpuInv
  <2>2. CASE UNCHANGED vars
    BY <2>2 DEF vars, CpuInv
  <2>3. QED
    BY <2>1, <2>2
<1>3. QED
  BY <1>1, <1>2, PTL DEF Spec

-----------------------------------------------------------------------------
LEMMA SseIsDirect == ASSUME CpuInv, Running, Insn.group \in SseGroups PROVE Insn.insnID = noInsnHook
<1>1. Insn.group \notin VexGroups \cup {"Syscall", "Cpuid"}
  BY DEF SseGroups, VexGroups
<1>2. QED
  BY <1>1, InsnDecoded DEF Decoded

LEMMA SseKind == ASSUME CpuInv, Next, Insn.group \in SseGroups PROVE \E n : SseMoved(n)
<1>1. Running
  BY Kinds DEF IntMoved, SseMoved, HookMoved, Direct
<1>2. QED
  BY <1>1, Kinds, SseIsDirect DEF IntMoved, HookMoved

(* Theorem.  UpperHalves, for every program: an SSE instruction keeps the  *)
(* upper halves of the YMM registers.                                      *)
THEOREM UpperHalvesKept == Spec => UpperHalves
<1>1. ASSUME CpuInv, [Next]_vars PROVE [Insn.group \in SseGroups => m'.yhi = m.yhi]_vars
  <2> SUFFICES ASSUME Next, Insn.group \in SseGroups PROVE m'.yhi = m.yhi
    BY <1>1
  <2>1. QED
    BY <1>1, SseKind, SseMovedOnly DEF Only, Fields
<1>2. QED
  BY CpuInvariance, <1>1, PTL DEF Spec, UpperHalves

(* Theorem.  VectorFaultIsClean, for every program: an SSE instruction     *)
(* that fails has changed no register and no flag.                         *)
THEOREM VectorFaultsClean == Spec => VectorFaultIsClean
<1>1. ASSUME CpuInv, [Next]_vars
      PROVE  [Insn.group \in SseGroups /\ m'.err # "ok" =>
                 m' = [m EXCEPT !.err = m'.err, !.mem = m'.mem, !.end = m'.end]]_vars
  <2> SUFFICES ASSUME Next, Insn.group \in SseGroups, m'.err # "ok"
               PROVE  m' = [m EXCEPT !.err = m'.err, !.mem = m'.mem, !.end = m'.end]
    BY <1>1
  <2>1. PICK n : SseMoved(n)
    BY <1>1, SseKind
  <2>2. Running /\ m' = Finish(n) /\ Shape(n)
    BY <2>1 DEF SseMoved, Direct, SseOnly, Only
  <2>3. n.err # "ok"
    BY <2>2, FinishOnly
  <2>4. Only(Begun, n, {"mem", "err"})
    BY <2>1, <2>3 DEF SseMoved, SseOnly
  <2>5. Only(m, m', {"rip", "end"} \cup {"mem", "err"})
    BY <1>1, <2>2, <2>4, Moved
  <2>6. m'.rip = m.rip
    BY <2>2, <2>3 DEF Finish, Shape, Fields
  <2>7. \A f \in Fields \ {"err", "mem", "end"} : m'[f] = m[f]
    BY <2>5, <2>6 DEF Only, Fields
  <2>8. Shape(m) /\ Shape(m')
    BY <1>1, <2>5 DEF CpuInv, Only
  <2>9. QED
    BY <2>7, <2>8 DEF Shape, Fields
<1>2. QED
  BY CpuInvariance, <1>1, PTL DEF Spec, VectorFaultIsClean

(* An instruction executed by its closure writes no byte of a page that is *)
(* not writable, a string instruction or a store that faults half way      *)
(* included, and changes no page's protection.  (One executed by a hook    *)
(* may: SYSCALL, and every VEX instruction, which is taken for it.)        *)
StoresArePermitted ==
    [][Insn.insnID = noInsnHook =>
          /\ m'.perm = m.perm
          /\ DOMAIN m'.mem = DOMAIN m.mem
          /\ \A a \in DOMAIN m.mem : m'.mem[a] # m.mem[a] => Allowed(m, a, "w")]_vars

(* Theorem.  StoresArePermitted, for every program: writeChecked is the    *)
(* only way a closure reaches memory, and it asks page by page.            *)
THEOREM StoresPermitted == Spec => StoresArePermitted
<1>1. ASSUME CpuInv, [Next]_vars
      PROVE  [Insn.insnID = noInsnHook =>
                 /\ m'.perm = m.perm
                 /\ DOMAIN m'.mem = DOMAIN m.mem
                 /\ \A a \in DOMAIN m.mem : m'.mem[a] # m.mem[a] => Allowed(m, a, "w")]_vars
  BY <1>1, DirectOnly DEF Only, Fields, Stores
<1>2. QED
  BY CpuInvariance, <1>1, PTL DEF Spec, StoresArePermitted

(* Only an SSE instruction changes an XMM register, the upper half of a    *)
(* YMM register or MXCSR, so that no VEX instruction ever does; one that   *)
(* does not fail goes on to the next instruction.  A closure touches no    *)
(* segment base, a hook no flag.                                           *)
RegisterFilesApart ==
    [][/\ m'.gs = m.gs /\ (Insn.insnID = noInsnHook => m'.fs = m.fs)
       /\ Insn.insnID # noInsnHook => m'.flags = m.flags
       /\ Insn.group \notin SseGroups => m'.xmm = m.xmm /\ m'.yhi = m.yhi /\ m'.mxcsr = m.mxcsr
       /\ Insn.group \in SseGroups /\ m'.err = "ok" => m'.rip = (m.rip + 1) % Modulus(8)]_vars

(* Theorem.  RegisterFilesApart, for every program.                        *)
THEOREM FilesApart == Spec => RegisterFilesApart
<1>1. ASSUME CpuInv, [Next]_vars
      PROVE  [/\ m'.gs = m.gs /\ (Insn.insnID = noInsnHook => m'.fs = m.fs)
              /\ Insn.insnID # noInsnHook => m'.flags = m.flags
              /\ Insn.group \notin SseGroups => m'.xmm = m.xmm /\ m'.yhi = m.yhi /\ m'.mxcsr = m.mxcsr
              /\ Insn.group \in SseGroups /\ m'.err = "ok" => m'.rip = (m.rip + 1) % Modulus(8)]_vars
  <2> SUFFICES ASSUME Next
               PROVE  /\ m'.gs = m.gs /\ (Insn.insnID = noInsnHook => m'.fs = m.fs)
                      /\ Insn.insnID # noInsnHook => m'.flags = m.flags
                      /\ Insn.group \notin SseGroups =>
                            m'.xmm = m.xmm /\ m'.yhi = m.yhi /\ m'.mxcsr = m.mxcsr
                      /\ Insn.group \in SseGroups /\ m'.err = "ok" =>
                            m'.rip = (m.rip + 1) % Modulus(8)
    BY <1>1
  <2>1. CASE HookMoved
    <3>1. /\ m'.gs = m.gs /\ m'.flags = m.flags
          /\ m'.xmm = m.xmm /\ m'.yhi = m.yhi /\ m'.mxcsr = m.mxcsr
      BY <2>1 DEF HookMoved, HookKept
    <3>2. Insn.insnID # noInsnHook /\ Insn.group \notin SseGroups
      BY <1>1, <2>1, SseIsDirect DEF HookMoved
    <3>3. QED
      BY <3>1, <3>2
  <2>2. ASSUME NEW n, IntMoved(n)
        PROVE  /\ m'.gs = m.gs /\ m'.fs = m.fs /\ Insn.insnID = noInsnHook /\ Insn.group \notin SseGroups
               /\ m'.xmm = m.xmm /\ m'.yhi = m.yhi /\ m'.mxcsr = m.mxcsr
    BY <1>1, <2>2, IntMovedOnly DEF Only, Fields, IntMoved, Direct
  <2>3. ASSUME NEW n, SseMoved(n)
        PROVE  /\ m'.gs = m.gs /\ m'.fs = m.fs /\ Insn.insnID = noInsnHook /\ Insn.group \in SseGroups
               /\ m'.err = "ok" => m'.rip = (m.rip + 1) % Modulus(8)
    <3>1. m'.gs = m.gs /\ m'.fs = m.fs
      BY <1>1, <2>3, SseMovedOnly DEF Only, Fields
    <3>2. Insn.insnID = noInsnHook /\ Insn.group \in SseGroups /\ m' = Finish(n) /\ Shape(n) /\ n.rip = Begun.rip
      BY <2>3 DEF SseMoved, Direct, SseOnly, Only, Fields
    <3>3. Begun.rip = (m.rip + 1) % Modulus(8)
      BY <1>1 DEF CpuInv, Shape, Fields, Begun
    <3>4. m'.err = n.err
      BY <3>2, FinishOnly
    <3>5. QED
      BY <3>1, <3>2, <3>3, <3>4 DEF Finish
  <2>4. QED
    BY <1>1, <2>1, <2>2, <2>3, Kinds
<1>2. QED
  BY CpuInvariance, <1>1, PTL DEF Spec, RegisterFilesApart

-----------------------------------------------------------------------------
(* What the flags of a sum and of a difference say, for integers of any    *)
(* size.  Two's complement is two cases of linear arithmetic, once the     *)
(* remainders have been resolved.                                          *)
LEMMA Wraps ==
    ASSUME NEW M \in Nat \ {0}, NEW x \in Int
    PROVE  /\ x % M \in 0..(M - 1)
           /\ x \in 0..(M - 1) => x % M = x
           /\ x \in M..(2 * M - 1) => x % M = x - M
           /\ x \in (-M)..(-1) => x % M = x + M
  OBVIOUS

LEMMA WordRange ==
    ASSUME NEW w \in {1, 2, 4, 8}, NEW x \in Int
    PROVE  /\ signBit(w) \in Nat \ {0, 1} /\ Modulus(w) = 2 * signBit(w)
           /\ Trunc(x, w) \in 0..(Modulus(w) - 1)
           /\ Trunc(Trunc(x, w), w) = Trunc(x, w)
<1>1. signBit(w) \in Nat \ {0, 1} /\ Modulus(w) = 2 * signBit(w)
  BY PowersAssumption
<1>2. Modulus(w) \in Nat \ {0}
  BY <1>1
<1>3. Trunc(x, w) \in 0..(Modulus(w) - 1)
  BY <1>2, Wraps DEF Trunc
<1>4. \A y \in Int : y \in 0..(Modulus(w) - 1) => y % Modulus(w) = y
  BY <1>2, Wraps
<1>5. QED
  BY <1>1, <1>2, <1>3, <1>4 DEF Trunc

LEMMA SumWraps ==
    ASSUME NEW w \in {1, 2, 4, 8}, NEW a \in 0..(Modulus(w) - 1), NEW b \in 0..(Modulus(w) - 1),
           NEW c \in {0, 1}
    PROVE  /\ a + b + c < Modulus(w) => Trunc(a + b + c, w) = a + b + c
           /\ a + b + c >= Modulus(w) => Trunc(a + b + c, w) = a + b + c - Modulus(w)
           /\ a >= b + c => Trunc(a - b - c, w) = a - b - c
           /\ a < b + c => Trunc(a - b - c, w) = a - b - c + Modulus(w)
<1> DEFINE M == Modulus(w)
<1>1. M \in Nat \ {0}
  BY PowersAssumption
<1> HIDE DEF M
<1>2. /\ a + b + c < M => (a + b + c) % M = a + b + c
      /\ a + b + c >= M => (a + b + c) % M = a + b + c - M
      /\ a >= b + c => (a - b - c) % M = a - b - c
      /\ a < b + c => (a - b - c) % M = a - b - c + M
  <2>0. a \in 0..(M - 1) /\ b \in 0..(M - 1)
    BY DEF M
  <2>1. ASSUME NEW x \in Int
        PROVE  /\ x \in 0..(M - 1) => x % M = x
               /\ x \in M..(2 * M - 1) => x % M = x - M
               /\ x \in (-M)..(-1) => x % M = x + M
    BY <1>1, Wraps
  <2>2. ASSUME a + b + c < M PROVE (a + b + c) % M = a + b + c
    <3>1. a + b + c \in 0..(M - 1)
      BY <1>1, <2>0, <2>2
    <3>2. QED
      BY <1>1, <3>1, <2>1
  <2>3. ASSUME a + b + c >= M PROVE (a + b + c) % M = a + b + c - M
    <3>1. a + b + c \in M..(2 * M - 1)
      BY <1>1, <2>0, <2>3
    <3>2. QED
      BY <1>1, <3>1, <2>1
  <2>4. ASSUME a >= b + c PROVE (a - b - c) % M = a - b - c
    <3>1. a - b - c \in 0..(M - 1)
      BY <1>1, <2>0, <2>4
    <3>2. QED
      BY <1>1, <3>1, <2>1
  <2>5. ASSUME a < b + c PROVE (a - b - c) % M = a - b - c + M
    <3>1. a - b - c \in (-M)..(-1)
      BY <1>1, <2>0, <2>5
    <3>2. QED
      BY <1>1, <3>1, <2>1
  <2>6. QED
    BY <2>2, <2>3, <2>4, <2>5
<1>3. QED
  BY <1>2 DEF M, Trunc

(* A word as a signed number, and its sign.                                *)
LEMMA WordSigned ==
    ASSUME NEW w \in {1, 2, 4, 8}, NEW a \in 0..(Modulus(w) - 1)
    PROVE  /\ Trunc(a, w) = a
           /\ Negative(a, w) <=> a >= signBit(w)
           /\ a < signBit(w) => Signed(a, w) = a
           /\ a >= signBit(w) => Signed(a, w) = a - Modulus(w)
<1>1. signBit(w) \in Nat \ {0, 1} /\ Modulus(w) = 2 * signBit(w) /\ Modulus(w) \in Nat \ {0}
  BY PowersAssumption
<1>2. Trunc(a, w) = a
  <2>1. a \in Int
    BY <1>1
  <2>2. a % Modulus(w) = a
    BY <1>1, <2>1, Wraps
  <2>3. QED
    BY <2>2 DEF Trunc
<1>3. QED
  BY <1>1, <1>2 DEF Negative, Signed

(* What addWithFlagsCarry must tell: CF carries exactly what the result    *)
(* lost of the unsigned sum, OF says exactly that the signed sum does not  *)
(* fit, ZF and SF are those of the result.                                 *)
SumSays(x, y, w, c) ==
    LET r == addWithFlagsCarry(x, y, w, c)
    IN /\ r.v \in 0..(Modulus(w) - 1)
       /\ Trunc(x, w) + Trunc(y, w) + c = r.v + (IF "CF" \in r.on THEN Modulus(w) ELSE 0)
       /\ "OF" \in r.on <=> Signed(x, w) + Signed(y, w) + c # Signed(r.v, w)
       /\ "ZF" \in r.on <=> r.v = 0
       /\ "SF" \in r.on <=> Signed(r.v, w) < 0

(* Theorem.  The flags of ADD and ADC say so at every width, for every two *)
(* words, with and without a carry in.                                     *)
THEOREM SumFlags ==
    ASSUME NEW w \in {1, 2, 4, 8}, NEW x \in Int, NEW y \in Int, NEW c \in {0, 1}
    PROVE  SumSays(x, y, w, c)
<1> DEFINE a == Trunc(x, w)  b == Trunc(y, w)  r == Trunc(a + b + c, w)
           M == Modulus(w)  S == signBit(w)
           res == addWithFlagsCarry(x, y, w, c)
<1>1. /\ a \in 0..(M - 1) /\ b \in 0..(M - 1) /\ S \in Nat \ {0} /\ M = 2 * S
      /\ Trunc(a, w) = a /\ Trunc(b, w) = b
  BY WordRange
<1>2. r \in 0..(M - 1) /\ a + b + c \in Int
  BY <1>1, WordRange
<1>3. /\ a + b + c < M => r = a + b + c
      /\ a + b + c >= M => r = a + b + c - M
  BY <1>1, SumWraps
<1>4. Trunc(r, w) = r
  BY <1>2, WordSigned
<1>5. /\ res.v = r
      /\ "CF" \in res.on <=> a + b + c >= M
      /\ "OF" \in res.on <=> (a >= S) = (b >= S) /\ (r >= S) # (a >= S)
      /\ "ZF" \in res.on <=> Trunc(r, w) = 0
      /\ "SF" \in res.on <=> Negative(r, w)
  BY <1>1, <1>4 DEF addWithFlagsCarry, resultFlags, When, Negative
<1>6. Signed(x, w) = Signed(a, w) /\ Signed(y, w) = Signed(b, w)
  BY <1>1 DEF Signed, Negative
<1>7. /\ Negative(a, w) <=> a >= S
      /\ Negative(b, w) <=> b >= S
      /\ Negative(r, w) <=> r >= S
      /\ Trunc(r, w) = r
      /\ Signed(a, w) = IF a < S THEN a ELSE a - M
      /\ Signed(b, w) = IF b < S THEN b ELSE b - M
      /\ Signed(r, w) = IF r < S THEN r ELSE r - M
  BY <1>1, <1>2, WordSigned
<1> HIDE DEF a, b, r, M, S, res
<1>8. /\ res.v \in 0..(M - 1)
      /\ a + b + c = res.v + (IF "CF" \in res.on THEN M ELSE 0)
      /\ "OF" \in res.on <=> Signed(a, w) + Signed(b, w) + c # Signed(res.v, w)
      /\ "ZF" \in res.on <=> res.v = 0
      /\ "SF" \in res.on <=> Signed(res.v, w) < 0
  <2>1. a + b + c = r + (IF a + b + c >= M THEN M ELSE 0)
    BY <1>1, <1>2, <1>3
  <2>2. ((a >= S) = (b >= S) /\ (r >= S) # (a >= S))
          <=> Signed(a, w) + Signed(b, w) + c # Signed(r, w)
    <3>1. /\ Signed(a, w) = IF a < S THEN a ELSE a - M
          /\ Signed(b, w) = IF b < S THEN b ELSE b - M
          /\ Signed(r, w) = IF r < S THEN r ELSE r - M
      BY <1>7
    <3>2. CASE a < S /\ b < S
      BY <1>1, <1>2, <1>3, <3>1, <3>2
    <3>3. CASE a < S /\ b >= S
      BY <1>1, <1>2, <1>3, <3>1, <3>3
    <3>4. CASE a >= S /\ b < S
      BY <1>1, <1>2, <1>3, <3>1, <3>4
    <3>5. CASE a >= S /\ b >= S
      BY <1>1, <1>2, <1>3, <3>1, <3>5
    <3>6. QED
      BY <1>1, <3>2, <3>3, <3>4, <3>5
  <2>3. Negative(r, w) <=> Signed(r, w) < 0
    BY <1>1, <1>2, <1>7
  <2>4. res.v = r /\ Trunc(r, w) = r
    BY <1>5, <1>7
  <2>5. "OF" \in res.on <=> Signed(a, w) + Signed(b, w) + c # Signed(r, w)
    BY <1>5, <2>2
  <2>6. "SF" \in res.on <=> Signed(r, w) < 0
    BY <1>5, <2>3
  <2>7. a + b + c = r + (IF "CF" \in res.on THEN M ELSE 0)
    BY <1>5, <2>1
  <2>8. "ZF" \in res.on <=> r = 0
    BY <1>5, <2>4
  <2>9. QED
    BY <1>2, <2>4, <2>5, <2>6, <2>7, <2>8
<1>9. QED
  BY <1>6, <1>8 DEF a, b, M, res, SumSays

(* And subWithFlagsBorrow, whose CF is the borrow.                         *)
DifferenceSays(x, y, w, c) ==
    LET r == subWithFlagsBorrow(x, y, w, c)
    IN /\ r.v \in 0..(Modulus(w) - 1)
       /\ Trunc(x, w) - Trunc(y, w) - c = r.v - (IF "CF" \in r.on THEN Modulus(w) ELSE 0)
       /\ "OF" \in r.on <=> Signed(x, w) - Signed(y, w) - c # Signed(r.v, w)
       /\ "ZF" \in r.on <=> r.v = 0
       /\ "SF" \in r.on <=> Signed(r.v, w) < 0

(* Theorem.  And those of SUB, SBB and CMP.                                *)
THEOREM DifferenceFlags ==
    ASSUME NEW w \in {1, 2, 4, 8}, NEW x \in Int, NEW y \in Int, NEW c \in {0, 1}
    PROVE  DifferenceSays(x, y, w, c)
<1> DEFINE a == Trunc(x, w)  b == Trunc(y, w)  r == Trunc(a - b - c, w)
           M == Modulus(w)  S == signBit(w)
           res == subWithFlagsBorrow(x, y, w, c)
<1>1. /\ a \in 0..(M - 1) /\ b \in 0..(M - 1) /\ S \in Nat \ {0} /\ M = 2 * S
      /\ Trunc(a, w) = a /\ Trunc(b, w) = b
  BY WordRange
<1>2. r \in 0..(M - 1) /\ a - b - c \in Int
  BY <1>1, WordRange
<1>3. /\ a >= b + c => r = a - b - c
      /\ a < b + c => r = a - b - c + M
  BY <1>1, SumWraps
<1>4. Trunc(r, w) = r
  BY <1>2, WordSigned
<1>5. /\ res.v = r
      /\ "CF" \in res.on <=> a < b + c
      /\ "OF" \in res.on <=> (a >= S) # (b >= S) /\ (r >= S) # (a >= S)
      /\ "ZF" \in res.on <=> Trunc(r, w) = 0
      /\ "SF" \in res.on <=> Negative(r, w)
  BY <1>1, <1>4 DEF subWithFlagsBorrow, resultFlags, When, Negative
<1>6. Signed(x, w) = Signed(a, w) /\ Signed(y, w) = Signed(b, w)
  BY <1>1 DEF Signed, Negative
<1>7. /\ Negative(a, w) <=> a >= S
      /\ Negative(b, w) <=> b >= S
      /\ Negative(r, w) <=> r >= S
      /\ Trunc(r, w) = r
      /\ Signed(a, w) = IF a < S THEN a ELSE a - M
      /\ Signed(b, w) = IF b < S THEN b ELSE b - M
      /\ Signed(r, w) = IF r < S THEN r ELSE r - M
  BY <1>1, <1>2, WordSigned
<1> HIDE DEF a, b, r, M, S, res
<1>8. /\ res.v \in 0..(M - 1)
      /\ a - b - c = res.v - (IF "CF" \in res.on THEN M ELSE 0)
      /\ "OF" \in res.on <=> Signed(a, w) - Signed(b, w) - c # Signed(res.v, w)
      /\ "ZF" \in res.on <=> res.v = 0
      /\ "SF" \in res.on <=> Signed(res.v, w) < 0
  <2>1. a - b - c = r - (IF a < b + c THEN M ELSE 0)
    BY <1>1, <1>2, <1>3
  <2>2. ((a >= S) # (b >= S) /\ (r >= S) # (a >= S))
          <=> Signed(a, w) - Signed(b, w) - c # Signed(r, w)
    <3>1. /\ Signed(a, w) = IF a < S THEN a ELSE a - M
          /\ Signed(b, w) = IF b < S THEN b ELSE b - M
          /\ Signed(r, w) = IF r < S THEN r ELSE r - M
      BY <1>7
    <3>2. CASE a < S /\ b < S
      BY <1>1, <1>2, <1>3, <3>1, <3>2
    <3>3. CASE a < S /\ b >= S
      BY <1>1, <1>2, <1>3, <3>1, <3>3
    <3>4. CASE a >= S /\ b < S
      BY <1>1, <1>2, <1>3, <3>1, <3>4
    <3>5. CASE a >= S /\ b >= S
      BY <1>1, <1>2, <1>3, <3>1, <3>5
    <3>6. QED
      BY <1>1, <3>2, <3>3, <3>4, <3>5
  <2>3. Negative(r, w) <=> Signed(r, w) < 0
    BY <1>1, <1>2, <1>7
  <2>4. res.v = r /\ Trunc(r, w) = r
    BY <1>5, <1>7
  <2>5. "OF" \in res.on <=> Signed(a, w) - Signed(b, w) - c # Signed(r, w)
    BY <1>5, <2>2
  <2>6. "SF" \in res.on <=> Signed(r, w) < 0
    BY <1>5, <2>3
  <2>7. a - b - c = r - (IF "CF" \in res.on THEN M ELSE 0)
    BY <1>5, <2>1
  <2>8. "ZF" \in res.on <=> r = 0
    BY <1>5, <2>4
  <2>9. QED
    BY <1>2, <2>4, <2>5, <2>6, <2>7, <2>8
<1>9. QED
  BY <1>6, <1>8 DEF a, b, M, res, DifferenceSays

(* Theorem.  A sum of two-word numbers by ADD and ADC: the words of the    *)
(* result and the carry of the second addition are the whole sum; SUB and  *)
(* SBB do the same for the difference and its borrow.                      *)
THEOREM CarriesChain ==
    ASSUME NEW w \in {1, 2, 4, 8},
           NEW a \in 0..(Modulus(w) - 1), NEW b \in 0..(Modulus(w) - 1),
           NEW c \in 0..(Modulus(w) - 1), NEW d \in 0..(Modulus(w) - 1)
    PROVE  LET n == Modulus(w)
               In(r) == IF "CF" \in r.on THEN 1 ELSE 0
               low == addWithFlags(a, b, w)   high == addWithFlagsCarry(c, d, w, In(low))
               low2 == subWithFlags(a, b, w)  high2 == subWithFlagsBorrow(c, d, w, In(low2))
           IN /\ (a + c * n) + (b + d * n) = low.v + high.v * n + In(high) * (n * n)
              /\ (a + c * n) - (b + d * n) = low2.v + high2.v * n - In(high2) * (n * n)
<1> DEFINE n == Modulus(w)
           In(r) == IF "CF" \in r.on THEN 1 ELSE 0
           low == addWithFlags(a, b, w)   high == addWithFlagsCarry(c, d, w, In(low))
           low2 == subWithFlags(a, b, w)  high2 == subWithFlagsBorrow(c, d, w, In(low2))
<1>1. n \in Nat \ {0}
  BY PowersAssumption
<1>2. a \in Int /\ b \in Int /\ c \in Int /\ d \in Int
  BY <1>1
<1>3. Trunc(a, w) = a /\ Trunc(b, w) = b /\ Trunc(c, w) = c /\ Trunc(d, w) = d
  BY WordSigned
<1>4. /\ In(low) \in {0, 1} /\ In(high) \in {0, 1}
      /\ In(low2) \in {0, 1} /\ In(high2) \in {0, 1}
  <2>1. \A r : In(r) \in {0, 1}
    OBVIOUS
  <2>2. QED
    BY <2>1
<1>5. ASSUME NEW x \in Int, NEW y \in Int, NEW k \in {0, 1}
      PROVE  /\ addWithFlagsCarry(x, y, w, k).v \in Int
             /\ Trunc(x, w) + Trunc(y, w) + k
                  = addWithFlagsCarry(x, y, w, k).v + In(addWithFlagsCarry(x, y, w, k)) * n
  <2>1. SumSays(x, y, w, k)
    BY SumFlags
  <2>2. QED
    BY <1>1, <2>1 DEF SumSays
<1>6. ASSUME NEW x \in Int, NEW y \in Int, NEW k \in {0, 1}
      PROVE  /\ subWithFlagsBorrow(x, y, w, k).v \in Int
             /\ Trunc(x, w) - Trunc(y, w) - k
                  = subWithFlagsBorrow(x, y, w, k).v - In(subWithFlagsBorrow(x, y, w, k)) * n
  <2>1. DifferenceSays(x, y, w, k)
    BY DifferenceFlags
  <2>2. QED
    BY <1>1, <2>1 DEF DifferenceSays
<1> DEFINE lc == In(low)  hc == In(high)  lb == In(low2)  hb == In(high2)
<1> HIDE DEF In, n
<1>7. low.v \in Int /\ high.v \in Int /\ low2.v \in Int /\ high2.v \in Int
  BY <1>2, <1>4, <1>5, <1>6 DEF addWithFlags, subWithFlags
<1>9. /\ a + b = low.v + lc * n /\ c + d + lc = high.v + hc * n
      /\ a - b = low2.v - lb * n /\ c - d - lb = high2.v - hb * n
  <2>1. a + b + 0 = low.v + lc * n /\ c + d + lc = high.v + hc * n
    BY <1>2, <1>3, <1>4, <1>5 DEF addWithFlags
  <2>2. a - b - 0 = low2.v - lb * n /\ c - d - lb = high2.v - hb * n
    BY <1>2, <1>3, <1>4, <1>6 DEF subWithFlags
  <2>3. QED
    BY <1>2, <2>1, <2>2
<1>10. lc \in Int /\ hc \in Int /\ lb \in Int /\ hb \in Int
  BY <1>4
<1> HIDE DEF low, high, low2, high2, lc, hc, lb, hb
<1>11. /\ (c + d + lc) * n = (high.v + hc * n) * n
       /\ (c - d - lb) * n = (high2.v - hb * n) * n
  BY <1>9
<1>12. /\ c * n + d * n + lc * n = high.v * n + hc * (n * n)
       /\ c * n - d * n - lb * n = high2.v * n - hb * (n * n)
  BY <1>1, <1>2, <1>7, <1>10, <1>11
<1>13. /\ (a + c * n) + (b + d * n) = low.v + high.v * n + hc * (n * n)
       /\ (a + c * n) - (b + d * n) = low2.v + high2.v * n - hb * (n * n)
  <2>1. c * n \in Int /\ d * n \in Int /\ high.v * n \in Int /\ high2.v * n \in Int
        /\ lc * n \in Int /\ lb * n \in Int /\ hc * (n * n) \in Int /\ hb * (n * n) \in Int
    BY <1>1, <1>2, <1>7, <1>10
  <2>2. QED
    BY <1>2, <1>7, <1>9, <1>12, <2>1
<1>14. QED
  BY <1>13 DEF n, In, low, high, low2, high2, hc, hb

(* Theorem.  The fast paths of 32-bit ADD, INC and DEC compute what the    *)
(* general ones do; INC and DEC leave CF out.                              *)
THEOREM FastPathsAgree ==
    ASSUME NEW a \in 0..(Modulus(4) - 1), NEW y \in Int
    PROVE  /\ add32Flags(a, y) = addWithFlags(a, y, 4)
           /\ inc32Flags(a).v = addWithFlags(a, 1, 4).v
           /\ inc32Flags(a).on = addWithFlags(a, 1, 4).on \ {"CF"}
           /\ dec32Flags(a).v = subWithFlags(a, 1, 4).v
           /\ dec32Flags(a).on = subWithFlags(a, 1, 4).on \ {"CF"}
<1> DEFINE M == Modulus(4)  S == signBit(4)
           up == Trunc(a + 1, 4)  down == Trunc(a - 1, 4)
<1>1. S \in Nat \ {0, 1} /\ M = 2 * S /\ a \in 0..(M - 1)
  BY PowersAssumption
<1>2. Trunc(a, 4) = a /\ Trunc(1, 4) = 1
  <2>1. 1 \in 0..(Modulus(4) - 1)
    BY <1>1
  <2>2. QED
    BY <2>1, WordSigned
<1>3. up \in 0..(M - 1) /\ down \in 0..(M - 1)
  BY <1>1, WordRange
<1>4. /\ a < M - 1 => up = a + 1
      /\ a = M - 1 => up = 0
      /\ a >= 1 => down = a - 1
      /\ a = 0 => down = M - 1
  <2>1. 1 \in 0..(Modulus(4) - 1) /\ a + 1 + 0 = a + 1 /\ a - 1 - 0 = a - 1
    BY <1>1
  <2>2. /\ a + 1 + 0 < M => Trunc(a + 1 + 0, 4) = a + 1 + 0
        /\ a + 1 + 0 >= M => Trunc(a + 1 + 0, 4) = a + 1 + 0 - M
        /\ a >= 1 + 0 => Trunc(a - 1 - 0, 4) = a - 1 - 0
        /\ a < 1 + 0 => Trunc(a - 1 - 0, 4) = a - 1 - 0 + M
    BY <2>1, SumWraps
  <2> HIDE DEF M
  <2>3. QED
    BY <1>1, <2>1, <2>2
<1>5. Trunc(up, 4) = up /\ Trunc(down, 4) = down
  BY <1>3, WordSigned
<1>6. add32Flags(a, y) = addWithFlags(a, y, 4)
  <2>1. Trunc(y, 4) \in Int /\ a \in Int
    BY <1>1, WordRange
  <2>2. a + Trunc(y, 4) + 0 = a + Trunc(y, 4)
    BY <2>1
  <2>3. QED
    BY <1>2, <2>2 DEF add32Flags, addWithFlags, addWithFlagsCarry
<1>7. /\ a + 1 + 0 = a + 1 /\ a - 1 - 0 = a - 1
  BY <1>1
<1> HIDE DEF M, S, up, down
<1>8. /\ a = S - 1 <=> ((a >= S) = (1 >= S) /\ (up >= S) # (a >= S))
      /\ a = S <=> ((a >= S) # (1 >= S) /\ (down >= S) # (a >= S))
  BY <1>1, <1>3, <1>4
<1>9. /\ inc32Flags(a).v = addWithFlags(a, 1, 4).v
      /\ inc32Flags(a).on = addWithFlags(a, 1, 4).on \ {"CF"}
  <2>1. addWithFlags(a, 1, 4) =
          [v |-> up, on |-> When(a + 1 >= Modulus(4), "CF") \cup When(a = S - 1, "OF")
                            \cup When(auxCarry(a, 1, up), "AF") \cup resultFlags(up, 4)]
    BY <1>2, <1>5, <1>7, <1>8 DEF addWithFlags, addWithFlagsCarry, Negative, up, S, When
  <2>2. inc32Flags(a) = [v |-> up, on |-> When(a = S - 1, "OF") \cup When(auxCarry(a, 1, up), "AF")
                                          \cup resultFlags(up, 4)]
    BY DEF inc32Flags, up, S
  <2>3. QED
    BY <2>1, <2>2 DEF When, resultFlags
<1>10. /\ dec32Flags(a).v = subWithFlags(a, 1, 4).v
       /\ dec32Flags(a).on = subWithFlags(a, 1, 4).on \ {"CF"}
  <2>1. subWithFlags(a, 1, 4) =
          [v |-> down, on |-> When(a < 1, "CF") \cup When(a = S, "OF")
                              \cup When(auxCarry(a, 1, down), "AF") \cup resultFlags(down, 4)]
    BY <1>2, <1>5, <1>7, <1>8 DEF subWithFlags, subWithFlagsBorrow, Negative, down, S, When
  <2>2. dec32Flags(a) = [v |-> down, on |-> When(a = S, "OF") \cup When(auxCarry(a, 1, down), "AF")
                                            \cup resultFlags(down, 4)]
    BY DEF dec32Flags, down, S
  <2>3. QED
    BY <2>1, <2>2 DEF When, resultFlags
<1>11. QED
  BY <1>6, <1>9, <1>10

(* Theorem.  CMP, whatever its operands: after it every condition code     *)
(* says of the two words what its name says, unsigned and signed.          *)
THEOREM CompareTells ==
    ASSUME NEW s, Shape(s), NEW w \in {1, 2, 4, 8}, NEW dst, NEW src, NEW cc \in 0..15,
           CanRead(s, dst, w), CanRead(s, src, w),
           readOperand(s, dst, w) \in Int, readOperand(s, src, w) \in Int
    PROVE  evalCC(aluBinOp(s, 7, dst, src, w), cc)
             <=> Ordered(cc, Trunc(readOperand(s, dst, w), w), Trunc(readOperand(s, src, w), w), w)
<1> DEFINE x == readOperand(s, dst, w)  y == readOperand(s, src, w)
           a == Trunc(x, w)  b == Trunc(y, w)
           d == Trunc(a - b, w)
           res == subWithFlags(x, y, w)
           n == aluBinOp(s, 7, dst, src, w)
           sa == Signed(a, w)  sb == Signed(b, w)  sd == Signed(d, w)
<1>1. n = setFlags(s, ArithFlags, res.on)
  BY DEF aluBinOp, Reading, aluResult
<1>2. \A f \in ArithFlags : f \in n.flags <=> f \in res.on
  BY <1>1 DEF setFlags, Shape, Fields
<1>3. /\ a \in 0..(Modulus(w) - 1) /\ b \in 0..(Modulus(w) - 1) /\ Modulus(w) = 2 * signBit(w)
      /\ signBit(w) \in Nat \ {0} /\ Trunc(a, w) = a /\ Trunc(b, w) = b
  BY WordRange
<1>4. sa = Signed(x, w) /\ sb = Signed(y, w)
  BY <1>3 DEF Signed, Negative
<1>5. res.v = d /\ ("PF" \in res.on <=> parity8(d)) /\ ("SF" \in res.on <=> Negative(d, w))
  <2>1. a - b - 0 = a - b
    BY <1>3
  <2>2. QED
    BY <2>1 DEF subWithFlags, subWithFlagsBorrow, resultFlags, When
<1>6. /\ res.v \in 0..(Modulus(w) - 1)
      /\ a - b - 0 = res.v - (IF "CF" \in res.on THEN Modulus(w) ELSE 0)
      /\ "OF" \in res.on <=> Signed(x, w) - Signed(y, w) - 0 # Signed(res.v, w)
      /\ "ZF" \in res.on <=> res.v = 0
      /\ "SF" \in res.on <=> Signed(res.v, w) < 0
  <2>1. x \in Int /\ y \in Int
    OBVIOUS
  <2>2. res = subWithFlagsBorrow(x, y, w, 0)
    BY DEF subWithFlags
  <2>3. DifferenceSays(x, y, w, 0)
    BY <2>1, DifferenceFlags
  <2>4. QED
    BY <2>2, <2>3 DEF DifferenceSays
<1>7. /\ sa = IF a < signBit(w) THEN a ELSE a - Modulus(w)
      /\ sb = IF b < signBit(w) THEN b ELSE b - Modulus(w)
      /\ sd = IF d < signBit(w) THEN d ELSE d - Modulus(w)
  BY <1>3, <1>5, <1>6, WordSigned
<1> SUFFICES evalCC(n, cc) <=> Ordered(cc, a, b, w)
  OBVIOUS
<1> HIDE DEF a, b, d, x, y, res, n, sa, sb, sd
<1>8. /\ "CF" \in res.on <=> a < b
      /\ "ZF" \in res.on <=> a = b
      /\ "OF" \in res.on <=> sa - sb # sd
      /\ "SF" \in res.on <=> sd < 0
  BY <1>3, <1>4, <1>5, <1>6, <1>7 DEF sd
<1>9. ("SF" \in res.on) # ("OF" \in res.on) <=> sa < sb
  BY <1>3, <1>5, <1>6, <1>7, <1>8
<1>10. a = b <=> sa = sb
  BY <1>3, <1>7
<1>11. cc \div 2 \in 0..7
  OBVIOUS
<1> DEFINE even == cc % 2 = 0
<1>12. even \in BOOLEAN
  OBVIOUS
<1>13. "OF" \in ArithFlags /\ "CF" \in ArithFlags /\ "ZF" \in ArithFlags
       /\ "SF" \in ArithFlags /\ "PF" \in ArithFlags
  BY DEF ArithFlags, ResultFlags
<1> HIDE DEF even
<1>14. CASE cc \div 2 = 0
  <2>1. evalCC(n, cc) <=> (("OF" \in n.flags) <=> even)
    BY <1>14 DEF evalCC, even
  <2>2. Ordered(cc, a, b, w) <=> (sa - sb # sd <=> even)
    BY <1>14 DEF Ordered, sa, sb, sd, d, even
  <2>3. ("OF" \in n.flags) <=> sa - sb # sd
    BY <1>2, <1>8, <1>13
  <2>4. QED
    BY <2>1, <2>2, <2>3
<1>15. CASE cc \div 2 = 1
  <2>1. evalCC(n, cc) <=> (("CF" \in n.flags) <=> even)
    BY <1>15 DEF evalCC, even
  <2>2. Ordered(cc, a, b, w) <=> (a < b <=> even)
    BY <1>15 DEF Ordered, sa, sb, sd, d, even
  <2>3. ("CF" \in n.flags) <=> a < b
    BY <1>2, <1>8, <1>13
  <2>4. QED
    BY <2>1, <2>2, <2>3
<1>16. CASE cc \div 2 = 2
  <2>1. evalCC(n, cc) <=> (("ZF" \in n.flags) <=> even)
    BY <1>16 DEF evalCC, even
  <2>2. Ordered(cc, a, b, w) <=> (a = b <=> even)
    BY <1>16 DEF Ordered, sa, sb, sd, d, even
  <2>3. ("ZF" \in n.flags) <=> a = b
    BY <1>2, <1>8, <1>13
  <2>4. QED
    BY <2>1, <2>2, <2>3
<1>17. CASE cc \div 2 = 3
  <2>1. evalCC(n, cc) <=> (("CF" \in n.flags \/ "ZF" \in n.flags) <=> even)
    BY <1>17 DEF evalCC, even
  <2>2. Ordered(cc, a, b, w) <=> (a <= b <=> even)
    BY <1>17 DEF Ordered, sa, sb, sd, d, even
  <2>3. ("CF" \in n.flags \/ "ZF" \in n.flags) <=> a <= b
    BY <1>2, <1>3, <1>8, <1>13
  <2>4. QED
    BY <2>1, <2>2, <2>3
<1>18. CASE cc \div 2 = 4
  <2>1. evalCC(n, cc) <=> (("SF" \in n.flags) <=> even)
    BY <1>18 DEF evalCC, even
  <2>2. Ordered(cc, a, b, w) <=> (Negative(d, w) <=> even)
    BY <1>18 DEF Negative, Ordered, sa, sb, sd, d, even
  <2>3. ("SF" \in n.flags) <=> Negative(d, w)
    BY <1>2, <1>5, <1>13
  <2>4. QED
    BY <2>1, <2>2, <2>3
<1>19. CASE cc \div 2 = 5
  <2>1. evalCC(n, cc) <=> (("PF" \in n.flags) <=> even)
    BY <1>19 DEF evalCC, even
  <2>2. Ordered(cc, a, b, w) <=> (parity8(d) <=> even)
    BY <1>19 DEF parity8, Ordered, sa, sb, sd, d, even
  <2>3. ("PF" \in n.flags) <=> parity8(d)
    BY <1>2, <1>5, <1>13
  <2>4. QED
    BY <2>1, <2>2, <2>3
<1>20. CASE cc \div 2 = 6
  <2>1. evalCC(n, cc) <=> ((("SF" \in n.flags) # ("OF" \in n.flags)) <=> even)
    BY <1>20 DEF evalCC, even
  <2>2. Ordered(cc, a, b, w) <=> (sa < sb <=> even)
    BY <1>20 DEF Ordered, sa, sb, sd, d, even
  <2>3. (("SF" \in n.flags) # ("OF" \in n.flags)) <=> sa < sb
    BY <1>2, <1>9, <1>13
  <2>4. QED
    BY <2>1, <2>2, <2>3
<1>21. CASE cc \div 2 = 7
  <2>1. evalCC(n, cc) <=> (("ZF" \in n.flags \/ ("SF" \in n.flags) # ("OF" \in n.flags)) <=> even)
    BY <1>21 DEF evalCC, even
  <2>2. Ordered(cc, a, b, w) <=> (sa <= sb <=> even)
    BY <1>21 DEF Ordered, sa, sb, sd, d, even
  <2>3. ("ZF" \in n.flags \/ ("SF" \in n.flags) # ("OF" \in n.flags)) <=> sa <= sb
    BY <1>2, <1>3, <1>7, <1>8, <1>9, <1>10, <1>13
  <2>4. QED
    BY <2>1, <2>2, <2>3
<1>22. QED
  BY <1>11, <1>14, <1>15, <1>16, <1>17, <1>18, <1>19, <1>20, <1>21

-----------------------------------------------------------------------------
(* How far a string instruction has gone.                                  *)
StringOps == {"movs", "stos", "lods", "cmps", "scas"}
Pointers(op) == CASE op \in {"movs", "cmps"} -> {RSI, RDI}
                  [] op \in {"stos", "scas"} -> {RDI}
                  [] op = "lods" -> {RSI}

(* n is t with its pointers one element on, unless the element failed.     *)
OneOn(t, n, regs, w) ==
    /\ Shape(n) /\ n.gpr = [r \in Reg |-> n.gpr[r]]
    /\ "DF" \in n.flags <=> "DF" \in t.flags
    /\ n.gpr[RCX] = t.gpr[RCX]
    /\ \A r \in regs : n.gpr[r] = IF n.err = "ok" THEN At(t.gpr[r], strIndexDelta(t, w)) ELSE t.gpr[r]

LEMMA FaultOn ==
    ASSUME NEW t, Shape(t), t.gpr = [r \in Reg |-> t.gpr[r]], NEW regs, NEW w
    PROVE  OneOn(t, Fault(t), regs, w)
<1>1. Only(t, Fault(t), {"err"}) /\ Fault(t).err = "fault"
  BY FaultOnly
<1>2. QED
  BY <1>1 DEF OneOn, Only, Fields

LEMMA AdvanceOn ==
    ASSUME NEW t, NEW u, Shape(u), u.gpr = [r \in Reg |-> u.gpr[r]], NEW regs, regs \subseteq {RSI, RDI},
           NEW w, "DF" \in u.flags <=> "DF" \in t.flags, u.gpr[RCX] = t.gpr[RCX],
           \A r \in regs : u.gpr[r] = t.gpr[r]
    PROVE  OneOn(t, Advance(u, regs, w), regs, w)
<1> DEFINE g == [r \in Reg |-> IF r \in regs THEN At(u.gpr[r], strIndexDelta(u, w)) ELSE u.gpr[r]]
<1>1. CASE u.err # "ok"
  BY <1>1 DEF Advance, OneOn
<1>2. CASE u.err = "ok"
  <2>1. Advance(u, regs, w) = [u EXCEPT !.gpr = g]
    BY <1>2 DEF Advance
  <2>2. g = [r \in Reg |-> g[r]] /\ g[RCX] = u.gpr[RCX]
        /\ \A r \in regs : g[r] = At(u.gpr[r], strIndexDelta(u, w))
    BY DEF Reg, RCX, RSI, RDI
  <2>3. strIndexDelta(u, w) = strIndexDelta(t, w)
    BY DEF strIndexDelta
  <2> HIDE DEF g
  <2>4. /\ Shape([u EXCEPT !.gpr = g]) /\ [u EXCEPT !.gpr = g].gpr = g
        /\ [u EXCEPT !.gpr = g].flags = u.flags /\ [u EXCEPT !.gpr = g].err = u.err
    BY DEF Shape, Fields
  <2>5. QED
    BY <2>1, <2>2, <2>3, <2>4, <1>2 DEF OneOn
<1>3. QED
  BY <1>1, <1>2

LEMMA CompareOn ==
    ASSUME NEW t, Shape(t), t.gpr = [r \in Reg |-> t.gpr[r]], NEW regs, regs \subseteq {RSI, RDI},
           NEW w, NEW a, NEW b, NEW v
    PROVE  OneOn(t, Advance(setFlags(t, ArithFlags, subWithFlags(a, b, v).on), regs, w), regs, w)
<1> DEFINE u == setFlags(t, ArithFlags, subWithFlags(a, b, v).on)
<1>1. Only(t, u, {"flags"})
  BY FlagsOnly
<1>2. "DF" \notin subWithFlags(a, b, v).on /\ "DF" \notin ArithFlags
  BY DEF subWithFlags, subWithFlagsBorrow, resultFlags, When, ArithFlags, ResultFlags
<1>3. u.flags = (t.flags \ ArithFlags) \cup subWithFlags(a, b, v).on
  BY DEF setFlags, Shape, Fields
<1>4. Shape(u) /\ u.gpr = t.gpr
  BY <1>1 DEF Only, Fields
<1> HIDE DEF u
<1>5. QED
  BY <1>2, <1>3, <1>4, AdvanceOn DEF u

LEMMA IterationOn ==
    ASSUME NEW t, Shape(t), t.gpr = [r \in Reg |-> t.gpr[r]], NEW i, i.op \in StringOps
    PROVE  OneOn(t, Iteration(t, i), Pointers(i.op), Width(i))
<1>1. CASE i.op = "movs"
  <2> DEFINE u == writeChecked(t, t.gpr[RDI], u64ToLE(leToU64(readChecked(t, t.gpr[RSI], Width(i))), Width(i)))
  <2>1. Only(t, u, {"mem", "err"})
    BY CheckedOnly
  <2>2. Shape(u) /\ u.gpr = t.gpr /\ u.flags = t.flags
    BY <2>1 DEF Only, Fields
  <2> HIDE DEF u
  <2>3. OneOn(t, Advance(u, {RSI, RDI}, Width(i)), {RSI, RDI}, Width(i))
    BY <2>2, AdvanceOn
  <2>4. QED
    BY <1>1, <2>3, FaultOn DEF Iteration, strMovs, ReadThen, Pointers, u
<1>2. CASE i.op = "stos"
  <2> DEFINE u == writeChecked(t, t.gpr[RDI], u64ToLE(readWidth(t, RAX, Width(i), Rex(i)), Width(i)))
  <2>1. Only(t, u, {"mem", "err"})
    BY CheckedOnly
  <2>2. Shape(u) /\ u.gpr = t.gpr /\ u.flags = t.flags
    BY <2>1 DEF Only, Fields
  <2> HIDE DEF u
  <2>3. OneOn(t, Advance(u, {RDI}, Width(i)), {RDI}, Width(i))
    BY <2>2, AdvanceOn
  <2>4. QED
    BY <1>2, <2>3 DEF Iteration, strStos, Pointers, u
<1>3. CASE i.op = "lods"
  <2> DEFINE v == leToU64(readChecked(t, t.gpr[RSI], Width(i)))
             u == writeWidth(t, RAX, Width(i), Rex(i), v)
  <2>1. Only(t, u, {"gpr"})
    BY WidthOnly
  <2>2. \E x : u = [t EXCEPT !.gpr[RAX] = x]
    <3>1. CASE Width(i) = 1
      <4>1. u = [t EXCEPT !.gpr[RAX] = Insert(t.gpr[RAX], 0, 1, v)]
        BY <3>1 DEF writeWidth, write8, RAX
      <4>2. QED
        BY <4>1
    <3>2. CASE Width(i) = 2
      <4>1. u = [t EXCEPT !.gpr[RAX] = Insert(t.gpr[RAX], 0, 2, v)]
        BY <3>2 DEF writeWidth
      <4>2. QED
        BY <4>1
    <3>3. CASE Width(i) # 1 /\ Width(i) # 2
      <4>1. u = [t EXCEPT !.gpr[RAX] = Trunc(v, Width(i))]
        BY <3>3 DEF writeWidth
      <4>2. QED
        BY <4>1
    <3>4. QED
      BY <3>1, <3>2, <3>3
  <2>3. PICK x : u = [t EXCEPT !.gpr[RAX] = x]
    BY <2>2
  <2>4. u.gpr = [t.gpr EXCEPT ![RAX] = x]
    BY <2>3 DEF Shape, Fields
  <2>5. Shape(u) /\ u.flags = t.flags
    BY <2>1 DEF Only, Fields
  <2>6. /\ u.gpr = [r \in Reg |-> u.gpr[r]]
        /\ u.gpr[RCX] = t.gpr[RCX] /\ u.gpr[RSI] = t.gpr[RSI]
    BY <2>4 DEF RAX, RCX, RSI, Reg
  <2> HIDE DEF u
  <2>7. OneOn(t, Advance(u, {RSI}, Width(i)), {RSI}, Width(i))
    BY <2>5, <2>6, AdvanceOn
  <2>8. QED
    BY <1>3, <2>7, FaultOn DEF Iteration, strLods, ReadThen, Pointers, u
<1>4. CASE i.op = "cmps"
  BY <1>4, CompareOn, FaultOn DEF Iteration, strCmps, ReadThen, Pointers
<1>5. CASE i.op = "scas"
  BY <1>5, CompareOn, FaultOn DEF Iteration, strScas, ReadThen, Pointers
<1>6. QED
  BY <1>1, <1>2, <1>3, <1>4, <1>5 DEF StringOps

(* Addresses wrap, and one more element after j elements is j + 1.         *)
LEMMA SplitMod == ASSUME NEW M \in Nat \ {0}, NEW x \in Int PROVE x = M * (x \div M) + (x % M) /\ x \div M \in Int
  OBVIOUS

LEMMA ModUnique ==
    ASSUME NEW M \in Nat \ {0}, NEW q \in Int, NEW r \in 0..(M - 1), NEW x \in Int, x = q * M + r
    PROVE  x % M = r
  OBVIOUS

LEMMA ModAdd == ASSUME NEW M \in Nat \ {0}, NEW x \in Int, NEW y \in Int PROVE ((x % M) + y) % M = (x + y) % M
<1> DEFINE q == x \div M  r == x % M  p == (r + y) \div M  z == (r + y) % M
<1>1. x = M * q + r /\ q \in Int /\ r \in 0..(M - 1)
  BY SplitMod, Wraps
<1>2. r + y \in Int
  BY <1>1
<1>3. r + y = M * p + z /\ p \in Int /\ z \in 0..(M - 1)
  BY <1>2, SplitMod, Wraps
<1> HIDE DEF q, r, p, z
<1>4. x + y = (q + p) * M + z /\ q + p \in Int /\ x + y \in Int
  BY <1>1, <1>3
<1>5. \A k \in Int, e \in Int : e = k * M + z => e % M = z
  BY <1>3, ModUnique
<1> DEFINE k == q + p  e == x + y
<1> HIDE DEF k, e
<1>6. e % M = z
  BY <1>4, <1>5 DEF k, e
<1>7. QED
  BY <1>6 DEF z, r, e

LEMMA OneMore ==
    ASSUME NEW x \in Int, NEW j \in Nat, NEW d \in Int PROVE At(At(x, j * d), d) = At(x, (j + 1) * d)
<1>1. Modulus(8) \in Nat \ {0}
  BY PowersAssumption
<1>2. x + j * d \in Int /\ (x + j * d) + d = x + (j + 1) * d
  OBVIOUS
<1>3. QED
  BY <1>1, <1>2, ModAdd DEF At

LEMMA OneLess == ASSUME NEW x \in 1..(Modulus(8) - 1) PROVE At(x, -1) = x - 1
<1>1. Modulus(8) \in Nat \ {0}
  BY PowersAssumption
<1>2. x + (-1) = x - 1 /\ x - 1 \in 0..(Modulus(8) - 1) /\ x - 1 \in Int
  BY <1>1
<1>3. QED
  BY <1>1, <1>2, Wraps DEF At

(* n is s after j elements: RCX has gone down by j and the pointers have   *)
(* moved on by j elements, in the direction of DF.                         *)
Taken(s, n, i, j) ==
    /\ n.gpr[RCX] = s.gpr[RCX] - j
    /\ \A r \in Pointers(i.op) : n.gpr[r] = At(s.gpr[r], j * strIndexDelta(s, Width(i)))

(* Theorem.  REP, for every string instruction, direction and width: after *)
(* it RCX and the pointers agree on how many elements were taken, whether  *)
(* it ran to the end of its count, stopped on ZF or faulted half way, so   *)
(* that the instruction can be taken up again from there; and it stops     *)
(* before the end of its count only for one of the last two reasons.       *)
THEOREM RepCounts ==
    ASSUME NEW s, Shape(s), s.err = "ok", s.gpr \in [Reg -> 0..(Modulus(8) - 1)],
           NEW i, i.op \in StringOps, RepOf(i) # "none", s.gpr[RCX] \in 0..MemBytes
    PROVE  \E j \in 0..s.gpr[RCX] : /\ Taken(s, String(s, i), i, j)
                                    /\ j < s.gpr[RCX] => Stops(String(s, i), i)
<1> DEFINE n == repIterations(s, i)
           f == RepStates(s, i)
           w == Width(i)
           d == strIndexDelta(s, w)
           P == Pointers(i.op)
           Kept(t) == /\ Shape(t) /\ t.gpr = [r \in Reg |-> t.gpr[r]]
                      /\ "DF" \in t.flags <=> "DF" \in s.flags
           After(k) == \E j \in 0..k : /\ Kept(f[k]) /\ Taken(s, f[k], i, j)
                                       /\ j < k => k >= 1 /\ Stops(f[k], i)
           S == {k \in Nat : k \in 0..n => After(k)}
<1>1. n = s.gpr[RCX] /\ n \in Nat
  <2>1. MemBytes \in Nat
    BY PagesAssumption DEF MemBytes
  <2>2. QED
    BY <2>1 DEF repIterations
<1>2. \A k \in 0..n : f[k] = IF k = 0 THEN s ELSE RepStep(f[k - 1], i, k)
  BY RepStatesRec
<1>3. P \subseteq Reg /\ RCX \in Reg /\ RCX \notin P
  BY DEF Pointers, StringOps, RSI, RDI, RCX, Reg
<1>4. Modulus(8) \in Nat \ {0} /\ d \in Int
  <2>1. w \in {1, 2, 4, 8}
    BY DEF Width
  <2>2. QED
    BY <2>1, PowersAssumption DEF strIndexDelta
<1>5. \A r \in Reg : s.gpr[r] \in Int
  BY <1>4
<1>6. String(s, i) = f[n]
  BY DEF String, RepLoop, StringOps
<1>7. Kept(s) /\ Taken(s, s, i, 0)
  <2>1. \A x \in 0..(Modulus(8) - 1) : At(x, 0 * d) = x
    <3>1. \A x \in 0..(Modulus(8) - 1) : x \in Int /\ x + 0 * d = x
      BY <1>4
    <3>2. QED
      BY <1>4, <3>1, Wraps DEF At
  <2>2. s.gpr[RCX] - 0 = s.gpr[RCX]
    BY <1>3, <1>5
  <2> HIDE DEF d, P
  <2>3. QED
    BY <1>3, <2>1, <2>2 DEF Taken, P, d
(* One iteration, of a machine that has taken j elements.                  *)
<1>8. ASSUME NEW t, Kept(t), t.err = "ok", NEW j \in Nat, j < n, Taken(s, t, i, j), NEW k,
             k = 1 \/ ~Stops(t, i)
      PROVE  /\ Kept(RepStep(t, i, k))
             /\ \/ Taken(s, RepStep(t, i, k), i, j + 1)
                \/ Taken(s, RepStep(t, i, k), i, j) /\ Stops(RepStep(t, i, k), i)
  <2> DEFINE u == Iteration(t, i)  q == CountDown(u, i)
  <2>1. RepStep(t, i, k) = q
    BY <1>8 DEF RepStep
  <2>2. OneOn(t, u, P, w)
    BY <1>8, IterationOn
  <2>3. strIndexDelta(t, w) = d
    BY <1>8 DEF strIndexDelta
  <2> HIDE DEF u, q, P, d, w
  <2>4. CASE u.err # "ok"
    <3>1. q = u
      BY <2>4 DEF CountDown, q
    <3>2. Kept(u) /\ u.gpr[RCX] = t.gpr[RCX] /\ \A r \in P : u.gpr[r] = t.gpr[r]
      BY <1>8, <2>2, <2>4 DEF OneOn
    <3>3. Taken(s, u, i, j)
      BY <1>8, <3>2 DEF Taken, P
    <3>4. Stops(u, i)
      BY <2>4 DEF Stops
    <3>5. QED
      BY <2>1, <3>1, <3>2, <3>3, <3>4
  <2>5. CASE u.err = "ok"
    <3>1. q = [u EXCEPT !.gpr[RCX] = At(u.gpr[RCX], -1)]
      BY <2>5 DEF CountDown, q
    <3>2. /\ Shape(u) /\ u.gpr = [r \in Reg |-> u.gpr[r]]
          /\ "DF" \in u.flags <=> "DF" \in s.flags
          /\ u.gpr[RCX] = t.gpr[RCX]
          /\ \A r \in P : u.gpr[r] = At(t.gpr[r], d)
      BY <1>8, <2>2, <2>3, <2>5 DEF OneOn
    <3>3. Only(u, q, {"gpr"})
      BY <3>1, <3>2, GprOnly
    <3>4. q.gpr = [u.gpr EXCEPT ![RCX] = At(u.gpr[RCX], -1)]
      BY <3>1, <3>2 DEF Shape, Fields
    <3>5. Kept(q)
      BY <3>2, <3>3, <3>4 DEF Only, Fields
    <3>6. q.gpr[RCX] = At(t.gpr[RCX], -1) /\ \A r \in P : q.gpr[r] = At(t.gpr[r], d)
      BY <1>3, <3>2, <3>4
    <3>7. q.gpr[RCX] = s.gpr[RCX] - (j + 1)
      <4>1. t.gpr[RCX] = n - j
        BY <1>1, <1>8 DEF Taken
      <4>2. n \in 0..(Modulus(8) - 1)
        BY <1>1, <1>3
      <4>3. n - j \in 1..(Modulus(8) - 1) /\ (n - j) - 1 = n - (j + 1)
        BY <1>1, <1>4, <1>8, <4>2
      <4>4. At(n - j, -1) = (n - j) - 1
        BY <4>3, OneLess
      <4>5. q.gpr[RCX] = n - (j + 1)
        BY <3>6, <4>1, <4>3, <4>4
      <4>6. QED
        BY <1>1, <4>5
    <3>8. \A r \in P : q.gpr[r] = At(s.gpr[r], (j + 1) * d)
      <4> SUFFICES ASSUME NEW r \in P PROVE q.gpr[r] = At(s.gpr[r], (j + 1) * d)
        OBVIOUS
      <4>1. t.gpr[r] = At(s.gpr[r], j * d)
        BY <1>8 DEF Taken, P, d, w
      <4>2. s.gpr[r] \in Int
        BY <1>3, <1>5
      <4>3. At(At(s.gpr[r], j * d), d) = At(s.gpr[r], (j + 1) * d)
        BY <1>4, <4>2, OneMore
      <4>4. QED
        BY <3>6, <4>1, <4>3
    <3>9. Taken(s, q, i, j + 1)
      BY <3>7, <3>8 DEF Taken, P, d, w
    <3>10. QED
      BY <2>1, <3>5, <3>9
  <2>6. QED
    BY <2>4, <2>5
<1>9. 0 \in 0..n /\ n \in 0..n
  BY <1>1
<1> HIDE DEF f, n, Kept
<1>10. 0 \in S
  <2>1. f[0] = s
    BY <1>2, <1>9
  <2>2. 0 \in 0..0 /\ ~(0 < 0)
    OBVIOUS
  <2>3. After(0)
    BY <1>7, <2>1, <2>2
  <2>4. QED
    BY <2>3
<1>11. ASSUME NEW k \in Nat, k \in S PROVE k + 1 \in S
  <2> SUFFICES ASSUME k + 1 \in 0..n PROVE After(k + 1)
    OBVIOUS
  <2>1. k \in 0..n /\ k + 1 # 0 /\ (k + 1) - 1 = k /\ k < n
    BY <1>1
  <2>2. f[k + 1] = RepStep(f[k], i, k + 1)
    BY <1>2, <2>1
  <2>3. PICK j \in 0..k : /\ Kept(f[k]) /\ Taken(s, f[k], i, j)
                          /\ j < k => k >= 1 /\ Stops(f[k], i)
    BY <1>11, <2>1
  <2>4. CASE k >= 1 /\ Stops(f[k], i)
    <3>1. f[k + 1] = f[k]
      BY <2>2, <2>4 DEF RepStep
    <3>2. j \in 0..(k + 1) /\ k + 1 >= 1
      OBVIOUS
    <3>3. QED
      BY <2>3, <2>4, <3>1, <3>2
  <2>5. CASE ~(k >= 1 /\ Stops(f[k], i))
    <3>1. j = k
      BY <2>3, <2>5
    <3>2. f[k].err = "ok"
      <4>1. CASE k = 0
        BY <1>2, <1>9, <4>1
      <4>2. CASE k # 0
        BY <2>5, <4>2 DEF Stops
      <4>3. QED
        BY <4>1, <4>2
    <3>3. k + 1 = 1 \/ ~Stops(f[k], i)
      BY <2>5
    <3>4. /\ Kept(f[k + 1])
          /\ \/ Taken(s, f[k + 1], i, k + 1)
             \/ Taken(s, f[k + 1], i, k) /\ Stops(f[k + 1], i)
      BY <1>8, <2>1, <2>2, <2>3, <3>1, <3>2, <3>3
    <3>5. k \in 0..(k + 1) /\ k + 1 \in 0..(k + 1) /\ ~(k + 1 < k + 1) /\ k + 1 >= 1
      OBVIOUS
    <3>6. QED
      BY <3>4, <3>5
  <2>6. QED
    BY <2>4, <2>5
<1>12. Nat \subseteq S
  <2> HIDE DEF S
  <2>1. QED
    BY <1>10, <1>11, NatSetInduction
<1>13. After(n)
  BY <1>1, <1>9, <1>12
<1>14. QED
  BY <1>1, <1>6, <1>13

-----------------------------------------------------------------------------
(***************************************************************************)
(* Bytes in memory.  A number stored and loaded again is the number, and   *)
(* bytes that are loaded and stored are the bytes.                         *)
(***************************************************************************)
LEMMA DivUnique ==
    ASSUME NEW M \in Nat \ {0}, NEW q \in Int, NEW r \in 0..(M - 1), NEW x \in Int, x = q * M + r
    PROVE  x \div M = q
  OBVIOUS

LEMMA Times ==
    ASSUME NEW A \in Nat, NEW e \in Nat, NEW n \in Nat, e <= n
    PROVE  A * e \in Nat /\ A * n \in Nat /\ A * e <= A * n
<1>1. PICK d \in Nat : n = e + d
  BY n - e \in Nat
<1>2. A * n = A * e + A * d
  BY <1>1
<1>3. A * e \in Nat /\ A * d \in Nat
  OBVIOUS
<1>4. QED
  BY <1>2, <1>3

(* The digit above A is the next one of the remainder.                     *)
LEMMA NextDigit ==
    ASSUME NEW A \in Nat \ {0}, NEW N \in Nat \ {0}, NEW v \in Int
    PROVE  v % (A * N) = (v % A) + ((v \div A) % N) * A
<1> DEFINE q == v \div A  r == v % A  p == q \div N  e == q % N
           x == r + e * A
<1>1. v = A * q + r /\ q \in Int /\ r \in 0..(A - 1)
  BY SplitMod, Wraps
<1>2. q = N * p + e /\ p \in Int /\ e \in 0..(N - 1)
  BY <1>1, SplitMod, Wraps
<1> HIDE DEF q, r, p, e
<1>3. A * e \in Nat /\ A * (N - 1) \in Nat /\ A * e <= A * (N - 1)
  BY <1>2, Times
<1>4. A * (N - 1) = A * N - A /\ A * N \in Nat \ {0}
  OBVIOUS
<1>5. x \in 0..(A * N - 1)
  <2> DEFINE s == A * e  t == A * N  z == A * (N - 1)
  <2>1. s \in Nat /\ z \in Nat /\ s <= z /\ z = t - A /\ t \in Nat
    BY <1>3, <1>4
  <2>2. x = r + s
    BY <1>1, <1>2
  <2> HIDE DEF s, t, z, x
  <2>3. x \in 0..(t - 1)
    BY <1>1, <2>1, <2>2
  <2>4. QED
    BY <2>3 DEF t
<1>6. A * q = A * (N * p) + A * e
  BY <1>2
<1>7. v = p * (A * N) + x
  BY <1>1, <1>2, <1>6
<1> HIDE DEF x
<1> DEFINE M == A * N
<1> HIDE DEF M
<1>8. v % M = x
  BY <1>2, <1>4, <1>5, <1>7, ModUnique DEF M
<1>9. QED
  BY <1>8 DEF M, x, r, e, q

(* The digit at A of a number in base N, which what is added above it      *)
(* leaves alone.                                                           *)
Digit(x, A, N) == (x \div A) % N
Above(z, x, A, N) == \E k \in Nat : z = x + k * N * A
LEMMA DigitStays ==
    ASSUME NEW A \in Nat \ {0}, NEW N \in Nat \ {0}, NEW x \in Nat, NEW z, Above(z, x, A, N)
    PROVE  Digit(z, A, N) = Digit(x, A, N)
<1>1. PICK k \in Nat : z = x + k * N * A
  BY DEF Above
<1> DEFINE q == x \div A  r == x % A  p == q \div N  e == q % N
<1>2. x \in Int
  OBVIOUS
<1>3. x = A * q + r /\ q \in Int
  BY <1>2, SplitMod
<1>4. r \in 0..(A - 1)
  BY <1>2, Wraps
<1>5. q = N * p + e /\ p \in Int
  BY <1>3, SplitMod
<1>6. e \in 0..(N - 1)
  BY <1>3, Wraps
<1> HIDE DEF q, r, p, e
<1> DEFINE y == x + k * N * A  t == q + k * N
<1>7. t \in Int /\ y = t * A + r /\ y \in Int
  BY <1>3, <1>4
<1>8. t = (p + k) * N + e /\ p + k \in Int
  BY <1>5, <1>6
<1> HIDE DEF y, t
<1>9. y \div A = t
  BY <1>4, <1>7, DivUnique
<1> DEFINE u == p + k
<1>10. u \in Int /\ t = u * N + e
  BY <1>8
<1> HIDE DEF u
<1>11. t % N = e
  BY <1>6, <1>7, <1>10, ModUnique
<1>12. QED
  BY <1>1, <1>9, <1>11 DEF y, q, e, Digit

-----------------------------------------------------------------------------
(* The partial sums of leToU64, which exist: the function is recursive.    *)
LeSum(b) == LET sum[k \in 0..Len(b)] ==
                    IF k = 0 THEN 0 ELSE sum[k - 1] + b[k] * 2^Bits(k - 1)
            IN sum

LEMMA LeSumExists ==
    ASSUME NEW b, NEW n \in Nat
    PROVE  \E f : f = [k \in 0..n |-> IF k = 0 THEN 0 ELSE f[k - 1] + b[k] * 2^Bits(k - 1)]
<1> DEFINE D(f, k) == IF k = 0 THEN 0 ELSE f[k - 1] + b[k] * 2^Bits(k - 1)
           S == {j \in Nat : \E f : f = [k \in 0..j |-> D(f, k)]}
<1>1. 0 \in S
  <2> DEFINE f == [k \in 0..0 |-> 0]
  <2>1. f = [k \in 0..0 |-> D(f, k)]
    OBVIOUS
  <2>2. QED
    BY <2>1
<1>2. ASSUME NEW j \in Nat, j \in S PROVE j + 1 \in S
  <2>1. PICK f : f = [k \in 0..j |-> D(f, k)]
    BY <1>2
  <2> DEFINE g == [k \in 0..(j + 1) |-> IF k \in 0..j THEN f[k] ELSE f[j] + b[k] * 2^Bits(k - 1)]
  <2>2. ASSUME NEW k \in 0..(j + 1) PROVE g[k] = D(g, k)
    <3>1. CASE k = 0
      BY <2>1, <3>1
    <3>2. CASE k \in 1..j
      <4>1. k - 1 \in 0..j /\ k - 1 \in 0..(j + 1) /\ k \in 0..j /\ k # 0
        BY <3>2
      <4>2. g[k] = f[k] /\ g[k - 1] = f[k - 1]
        BY <4>1
      <4>3. QED
        BY <2>1, <4>1, <4>2
    <3>3. CASE k = j + 1
      <4>1. j \in 0..j /\ j \in 0..(j + 1) /\ k \notin 0..j /\ k # 0 /\ k - 1 = j
        BY <3>3
      <4>2. g[k] = f[j] + b[k] * 2^Bits(k - 1) /\ g[k - 1] = f[j]
        BY <4>1
      <4>3. QED
        BY <4>1, <4>2
    <3>4. QED
      BY <3>1, <3>2, <3>3
  <2>3. g = [k \in 0..(j + 1) |-> D(g, k)]
    BY <2>2
  <2> HIDE DEF g
  <2>4. \E h : h = [k \in 0..(j + 1) |-> D(h, k)]
    BY <2>3
  <2>5. QED
    BY <2>4
<1>3. QED
  BY <1>1, <1>2, NatSetInduction

(* leToU64, byte after byte.                                               *)
LEMMA LeSumRec ==
    ASSUME NEW b, NEW w \in Nat, Len(b) = w
    PROVE  /\ leToU64(b) = LeSum(b)[w]
           /\ LeSum(b)[0] = 0
           /\ \A k \in 1..w : LeSum(b)[k] = LeSum(b)[k - 1] + b[k] * Modulus(k - 1)
<1> DEFINE f == LeSum(b)
<1>1. f = [k \in 0..w |-> IF k = 0 THEN 0 ELSE f[k - 1] + b[k] * 2^Bits(k - 1)]
  BY LeSumExists DEF LeSum
<1>2. leToU64(b) = LeSum(b)[w]
  BY DEF leToU64, LeSum
<1> HIDE DEF f
<1>3. \A k \in 0..w : f[k] = IF k = 0 THEN 0 ELSE f[k - 1] + b[k] * 2^Bits(k - 1)
  BY <1>1
<1>4. f[0] = 0 /\ \A k \in 1..w : f[k] = f[k - 1] + b[k] * 2^Bits(k - 1)
  BY <1>3
<1>5. QED
  BY <1>2, <1>4 DEF f, Modulus

LEMMA Widths == \A w \in {1, 2, 4, 8} : w \in 0..8 /\ w \in 0..w /\ w \in Nat
  OBVIOUS

LEMMA PowerOne == Modulus(0) = 1
  BY BytesAssumption

LEMMA PowerType == \A k \in 0..8 : Modulus(k) \in Nat \ {0}
  BY BytesAssumption

LEMMA PowerSum == \A i, k \in 0..8 : i + k <= 8 => Modulus(i + k) = Modulus(i) * Modulus(k)
  BY Zenon, BytesAssumption

(* Theorem.  A number that u64ToLE stores in w bytes and leToU64 loads     *)
(* again is the number, modulo the width.                                  *)
THEOREM LoadStored ==
    ASSUME NEW w \in {1, 2, 4, 8}, NEW v \in Int
    PROVE  leToU64(u64ToLE(v, w)) = Trunc(v, w)
<1> DEFINE b == u64ToLE(v, w)
           S == {k \in Nat : k \in 0..w => LeSum(b)[k] = v % Modulus(k)}
<1>1. Len(b) = w /\ \A k \in 1..w : b[k] = (v \div Modulus(k - 1)) % Modulus(1)
  BY DEF u64ToLE, Modulus
<1>2. /\ leToU64(b) = LeSum(b)[w]
      /\ LeSum(b)[0] = 0
      /\ \A k \in 1..w : LeSum(b)[k] = LeSum(b)[k - 1] + b[k] * Modulus(k - 1)
  BY <1>1, LeSumRec
<1> HIDE DEF b
<1>3. 0 \in S
  <2>1. Modulus(0) = 1
    BY PowerOne, PowerType
  <2>2. v % 1 = 0
    OBVIOUS
  <2>3. QED
    BY <1>2, <2>1, <2>2
<1>4. ASSUME NEW j \in Nat, j \in S PROVE j + 1 \in S
  <2> SUFFICES ASSUME j + 1 \in 0..w PROVE LeSum(b)[j + 1] = v % Modulus(j + 1)
    OBVIOUS
  <2>1. j \in 0..7 /\ j \in 0..w /\ j + 1 \in 1..w /\ (j + 1) - 1 = j
    OBVIOUS
  <2>2. /\ Modulus(j) \in Nat \ {0} /\ Modulus(1) \in Nat \ {0}
        /\ Modulus(j + 1) = Modulus(j) * Modulus(1)
    <3>1. j \in 0..8 /\ 1 \in 0..8 /\ j + 1 <= 8
      BY <2>1
    <3>2. QED
      BY Zenon, <3>1, PowerType, PowerSum
  <2>3. LeSum(b)[j] = v % Modulus(j)
    BY <1>4, <2>1
  <2>4. b[j + 1] = (v \div Modulus(j)) % Modulus(1)
    BY <1>1, <2>1
  <2>5. LeSum(b)[j + 1] = (v % Modulus(j)) + ((v \div Modulus(j)) % Modulus(1)) * Modulus(j)
    BY <1>2, <2>1, <2>3, <2>4
  <2>6. QED
    BY <2>2, <2>5, NextDigit
<1>5. w \in S
  <2> HIDE DEF S
  <2>1. QED
    BY <1>3, <1>4, NatSetInduction
<1>6. QED
  BY <1>2, <1>5 DEF Trunc, b

(* Theorem.  Bytes that leToU64 loads as a number and u64ToLE stores again *)
(* are the bytes.                                                          *)
THEOREM StoredLoad ==
    ASSUME NEW w \in {1, 2, 4, 8}, NEW b \in [1..w -> 0..(Modulus(1) - 1)]
    PROVE  leToU64(b) \in 0..(Modulus(w) - 1) /\ u64ToLE(leToU64(b), w) = b
<1> DEFINE N == Modulus(1)
           f == LeSum(b)
           Good(k) == /\ f[k] \in 0..(Modulus(k) - 1)
                      /\ \A j \in 1..k : (f[k] \div Modulus(j - 1)) % N = b[j]
           S == {k \in Nat : k \in 0..w => Good(k)}
<1>1. Len(b) = w
  OBVIOUS
<1>2. /\ leToU64(b) = f[w] /\ f[0] = 0
      /\ \A k \in 1..w : f[k] = f[k - 1] + b[k] * Modulus(k - 1)
  BY <1>1, LeSumRec
<1>3. N \in Nat \ {0}
  BY PowerType
<1> HIDE DEF f, N
<1>4. 0 \in S
  <2>1. Modulus(0) \in Nat \ {0}
    BY PowerOne, PowerType
  <2>2. QED
    BY <1>2, <2>1
<1>5. ASSUME NEW k \in Nat, k \in S PROVE k + 1 \in S
  <2> SUFFICES ASSUME k + 1 \in 0..w PROVE Good(k + 1)
    OBVIOUS
  <2> DEFINE c == b[k + 1]  x == f[k]  K == Modulus(k)
  <2>1. k \in 0..7 /\ k \in 0..w /\ k + 1 \in 1..w /\ (k + 1) - 1 = k
    OBVIOUS
  <2>2. K \in Nat \ {0} /\ Modulus(k + 1) = K * N
    <3>1. k \in 0..8 /\ 1 \in 0..8 /\ k + 1 <= 8
      BY <2>1
    <3>2. QED
      BY Zenon, <3>1, PowerType, PowerSum DEF K, N
  <2>3. f[k + 1] = x + c * K
    BY <1>2, <2>1
  <2>4. c \in 0..(N - 1)
    BY <2>1 DEF N
  <2>5. x \in 0..(K - 1) /\ \A j \in 1..k : (x \div Modulus(j - 1)) % N = b[j]
    BY <1>5, <2>1
  <2> HIDE DEF c, x, K
  <2>6. f[k + 1] \in 0..(K * N - 1)
    <3>1. K * c \in Nat /\ K * (N - 1) \in Nat /\ K * c <= K * (N - 1)
      BY <1>3, <2>2, <2>4, Times
    <3>2. K * (N - 1) = K * N - K
      BY <1>3, <2>2
    <3> DEFINE s == K * c  t == K * N  z == K * (N - 1)
    <3>3. s \in Nat /\ z \in Nat /\ s <= z /\ z = t - K /\ t \in Nat
      BY <1>3, <2>2, <3>1, <3>2
    <3>4. f[k + 1] = x + s
      BY <2>2, <2>3, <2>4, <1>3
    <3> HIDE DEF s, t, z
    <3>5. f[k + 1] \in 0..(t - 1)
      BY <2>2, <2>5, <3>3, <3>4
    <3>6. QED
      BY <3>5 DEF t
  <2>7. ASSUME NEW j \in 1..k PROVE (f[k + 1] \div Modulus(j - 1)) % N = b[j]
    <3> DEFINE A == Modulus(j - 1)  B == Modulus(k - j)
    <3>1. /\ j - 1 \in 0..8 /\ k - j \in 0..8 /\ j \in 0..8 /\ 1 \in 0..8
          /\ (j - 1) + 1 = j /\ j + (k - j) = k /\ (j - 1) + 1 <= 8 /\ j + (k - j) <= 8
      BY <2>1
    <3>2. A \in Nat \ {0} /\ B \in Nat /\ Modulus(j) = A * N /\ K = Modulus(j) * B
      <4>1. A \in Nat \ {0} /\ B \in Nat
        BY Zenon, <3>1, PowerType
      <4>2. Modulus((j - 1) + 1) = A * N /\ Modulus(j + (k - j)) = Modulus(j) * B
        BY Zenon, <3>1, PowerSum DEF N
      <4>3. QED
        BY Zenon, <3>1, <4>1, <4>2 DEF K
    <3>3. K = A * N * B
      BY <3>2
    <3> HIDE DEF A, B
    <3>4. x \in Nat /\ c \in Nat
      BY <2>2, <2>4, <2>5, <1>3
    <3>5. Above(f[k + 1], x, A, N)
      <4>1. c * B \in Nat /\ f[k + 1] = x + (c * B) * N * A
        BY <1>3, <2>3, <3>2, <3>3, <3>4
      <4>2. QED
        BY <4>1 DEF Above
    <3>6. Digit(f[k + 1], A, N) = Digit(x, A, N)
      BY <1>3, <3>2, <3>4, <3>5, DigitStays
    <3>7. QED
      BY <2>5, <3>6 DEF A, Digit
  <2>8. (f[k + 1] \div K) % N = c
    <3>1. f[k + 1] \in Int /\ f[k + 1] = c * K + x /\ c \in Int
      BY <1>3, <2>2, <2>3, <2>4, <2>5
    <3>2. f[k + 1] \div K = c
      BY <2>2, <2>5, <3>1, DivUnique
    <3>3. c % N = c
      BY <1>3, <2>4
    <3>4. QED
      BY <3>2, <3>3
  <2>9. \A j \in 1..(k + 1) : (f[k + 1] \div Modulus(j - 1)) % N = b[j]
    <3>1. \A j \in 1..(k + 1) : j \in 1..k \/ j = k + 1
      OBVIOUS
    <3>2. QED
      BY <2>1, <2>7, <2>8, <3>1 DEF c, K
  <2>10. QED
    BY <2>2, <2>6, <2>9
<1>6. w \in S
  <2> HIDE DEF S
  <2>1. QED
    BY <1>4, <1>5, NatSetInduction
<1>7. w \in 0..w /\ Modulus(w) \in Nat
  BY Widths, PowerType
<1>8. Good(w)
  BY <1>6, <1>7
<1>9. \A j \in 1..w : (f[w] \div 2^Bits(j - 1)) % N = b[j]
  BY <1>8 DEF Modulus
<1>10. QED
  BY <1>2, <1>7, <1>8, <1>9 DEF u64ToLE, N

-----------------------------------------------------------------------------
(* The bytes of one access are apart, and a store that does not fault      *)
(* writes all of them and nothing else.                                    *)
LEMMA AddressSize == Modulus(8) \in Nat \ {0} /\ 8 < Modulus(8)
<1>1. /\ Modulus(1) \in Nat \ {0, 1} /\ Modulus(2) \in Nat \ {0, 1} /\ Modulus(4) \in Nat \ {0}
      /\ Modulus(8) \in Nat \ {0}
  BY PowersAssumption
<1>2. Modulus(1) >= 4
  BY PowersAssumption
<1>3. Modulus(2) >= 4 * 4
  <2> DEFINE c == Modulus(1)  d == Modulus(2)
  <2>1. d = c * c
    <3>1. Modulus(1 + 1) = c * c
      BY PowerSum
    <3>2. QED
      BY <3>1
  <2>2. c \in Nat /\ c >= 4
    BY <1>1, <1>2
  <2> HIDE DEF c, d
  <2>3. c * 4 <= c * c
    BY <2>2, Times
  <2>4. d >= 16
    BY <2>1, <2>2, <2>3
  <2>5. QED
    BY <2>4 DEF d
<1>4. Modulus(4) >= 16
  <2>1. Modulus(2 + 2) = Modulus(2) * Modulus(2)
    BY PowerSum
  <2>2. Modulus(2) * 1 <= Modulus(2) * Modulus(2)
    BY <1>1, <1>3, Times
  <2>3. QED
    BY <1>1, <1>3, <2>1, <2>2
<1>5. QED
  <2>1. Modulus(4 + 4) = Modulus(4) * Modulus(4)
    BY PowerSum
  <2>2. Modulus(4) * 1 <= Modulus(4) * Modulus(4)
    BY <1>1, <1>4, Times
  <2>3. QED
    BY <1>1, <1>4, <2>1, <2>2

LEMMA BytesApart ==
    ASSUME NEW a \in Int, NEW j \in 0..(Modulus(8) - 1), NEW k \in 0..(Modulus(8) - 1), At(a, j) = At(a, k)
    PROVE  j = k
<1> DEFINE M == Modulus(8)  p == (a + j) \div M  q == (a + k) \div M  r == (a + k) % M
<1>1. M \in Nat \ {0}
  BY AddressSize
<1>2. j \in 0..(M - 1) /\ k \in 0..(M - 1) /\ (a + j) % M = r
  BY DEF At
<1> HIDE DEF M
<1>3. a + j \in Int /\ a + k \in Int
  BY <1>1, <1>2
<1>4. a + j = M * p + r /\ a + k = M * q + r /\ p \in Int /\ q \in Int /\ r \in 0..(M - 1)
  <2>1. a + j = M * p + ((a + j) % M) /\ p \in Int
    BY <1>1, <1>3, SplitMod
  <2>2. a + k = M * q + r /\ q \in Int
    BY <1>1, <1>3, SplitMod
  <2>3. r \in 0..(M - 1)
    BY <1>1, <1>3, Wraps
  <2> HIDE DEF p, q, r
  <2>4. QED
    BY <1>2, <2>1, <2>2, <2>3
<1> HIDE DEF p, q, r
<1>5. j - k = M * (p - q)
  BY <1>1, <1>2, <1>4
<1>6. CASE p = q
  BY <1>1, <1>2, <1>4, <1>6
<1>7. CASE p > q
  <2>1. p - q \in Nat /\ 1 <= p - q
    BY <1>4, <1>7
  <2> DEFINE d == p - q
  <2> HIDE DEF d
  <2>2. M * 1 <= M * d
    BY <1>1, <2>1, Times DEF d
  <2>3. QED
    BY <1>1, <1>2, <1>5, <2>2 DEF d
<1>8. CASE p < q
  <2>1. q - p \in Nat /\ 1 <= q - p
    BY <1>4, <1>8
  <2> DEFINE d == q - p
  <2>2. k - j = M * d
    BY <1>1, <1>2, <1>4
  <2> HIDE DEF d
  <2>3. M * 1 <= M * d
    BY <1>1, <2>1, Times DEF d
  <2>4. QED
    BY <1>1, <1>2, <2>2, <2>3
<1>9. QED
  BY <1>4, <1>6, <1>7, <1>8

(* n is s with the bytes b at a, and nothing else changed.                 *)
BytesStored(s, n, a, b) ==
    /\ s.err = "ok" /\ CanAccess(s, a, Len(b), "w")
    /\ n = [s EXCEPT !.mem = n.mem]
    /\ n.mem = [x \in DOMAIN s.mem |-> n.mem[x]]
    /\ \A k \in 1..Len(b) : At(a, k - 1) \in DOMAIN s.mem /\ n.mem[At(a, k - 1)] = b[k]
    /\ \A x \in DOMAIN s.mem : (\A k \in 1..Len(b) : x # At(a, k - 1)) => n.mem[x] = s.mem[x]

LEMMA StoreWrites ==
    ASSUME NEW s, Shape(s), s.mem \in [0..(MemBytes - 1) -> 0..(Modulus(1) - 1)],
           NEW a \in Int, NEW b, Len(b) \in 1..8, writeChecked(s, a, b).err = "ok"
    PROVE  BytesStored(s, writeChecked(s, a, b), a, b)
<1> DEFINE w == Len(b)
           done == {k \in 1..w : CanAccess(s, a, k, "w")}
           mem == [x \in DOMAIN s.mem |->
                     IF \E k \in done : At(a, k - 1) = x
                     THEN b[CHOOSE k \in done : At(a, k - 1) = x] ELSE s.mem[x]]
           err == IF done = 1..w THEN s.err ELSE "fault"
           n == writeChecked(s, a, b)
<1>0. w \in 1..8 /\ w \in 1..w /\ w <= Modulus(8) /\ Modulus(8) \in Nat \ {0}
  <2>1. w \in 1..8
    OBVIOUS
  <2> HIDE DEF w
  <2>2. QED
    BY <2>1, AddressSize
<1>1. n = [s EXCEPT !.mem = mem, !.err = err]
  BY DEF writeChecked
<1>2. n.err = err /\ n.mem = mem
  BY <1>1 DEF Shape, Fields
<1>3. done = 1..w /\ s.err = "ok" /\ err = s.err
  BY <1>2
<1>4. w \in done /\ CanAccess(s, a, w, "w")
  <2>1. w \in done
    BY <1>0, <1>3
  <2>2. QED
    BY <2>1
<1> HIDE DEF mem, err
<1>5. n = [s EXCEPT !.mem = n.mem]
  BY <1>1, <1>2, <1>3 DEF Shape, Fields
<1>6. \A k \in 1..w : At(a, k - 1) \in DOMAIN s.mem
  <2> SUFFICES ASSUME NEW k \in 1..w PROVE At(a, k - 1) \in DOMAIN s.mem
    OBVIOUS
  <2>1. k - 1 \in 0..(w - 1)
    OBVIOUS
  <2>2. At(a, k - 1) < MemBytes
    BY <1>4, <2>1 DEF CanAccess, Allowed
  <2>3. At(a, k - 1) \in Nat
    <3>1. a + (k - 1) \in Int
      OBVIOUS
    <3>2. (a + (k - 1)) % Modulus(8) \in 0..(Modulus(8) - 1)
      BY <1>0, <3>1, Wraps
    <3>3. QED
      BY <1>0, <3>2 DEF At
  <2>4. QED
    BY <2>2, <2>3, PagesAssumption DEF MemBytes
<1>7. \A j, k \in 1..w : At(a, j - 1) = At(a, k - 1) => j = k
  <2> SUFFICES ASSUME NEW j \in 1..w, NEW k \in 1..w, At(a, j - 1) = At(a, k - 1) PROVE j = k
    OBVIOUS
  <2>1. j - 1 \in 0..(Modulus(8) - 1) /\ k - 1 \in 0..(Modulus(8) - 1)
    BY <1>0
  <2>2. j - 1 = k - 1
    BY <2>1, BytesApart
  <2>3. QED
    BY <2>2
<1>8. \A k \in 1..w : n.mem[At(a, k - 1)] = b[k]
  <2> SUFFICES ASSUME NEW k \in 1..w PROVE mem[At(a, k - 1)] = b[k]
    BY <1>2
  <2> DEFINE x == At(a, k - 1)  c == CHOOSE i \in done : At(a, i - 1) = x
  <2>1. c \in done /\ At(a, c - 1) = x
    BY <1>3
  <2> HIDE DEF c
  <2>2. c = k
    BY <1>3, <1>7, <2>1
  <2>3. x \in DOMAIN s.mem /\ \E i \in done : At(a, i - 1) = x
    BY <1>3, <1>6
  <2>4. QED
    BY <2>2, <2>3 DEF mem, c
<1>9. \A x \in DOMAIN s.mem : (\A k \in 1..w : x # At(a, k - 1)) => n.mem[x] = s.mem[x]
  BY <1>2, <1>3 DEF mem
<1>10. n.mem = [x \in DOMAIN s.mem |-> n.mem[x]]
  <2>1. mem = [x \in DOMAIN s.mem |-> mem[x]]
    BY DEF mem
  <2>2. QED
    BY <1>2, <2>1
<1>11. QED
  BY <1>3, <1>4, <1>5, <1>6, <1>8, <1>9, <1>10 DEF BytesStored

(* What is stored at an address is loaded from it.                         *)
LEMMA LoadedBack ==
    ASSUME NEW s, Shape(s), s.mem \in [0..(MemBytes - 1) -> 0..(Modulus(1) - 1)],
           NEW a \in Int, NEW w \in {1, 2, 4, 8}, NEW v \in Int,
           writeChecked(s, a, u64ToLE(v, w)).err = "ok"
    PROVE  leToU64(readChecked(writeChecked(s, a, u64ToLE(v, w)), a, w)) = Trunc(v, w)
<1> DEFINE b == u64ToLE(v, w)  n == writeChecked(s, a, b)
<1>1. Len(b) = w /\ b = [k \in 1..w |-> b[k]] /\ w \in 1..8
  BY DEF u64ToLE
<1> HIDE DEF b
<1>2. n.err = "ok" /\ Len(b) \in 1..8
  BY <1>1 DEF b
<1>3. \A k \in 1..Len(b) : n.mem[At(a, k - 1)] = b[k]
  <2>1. BytesStored(s, n, a, b)
    BY <1>2, StoreWrites
  <2>2. QED
    BY <2>1 DEF BytesStored
<1>4. readChecked(n, a, w) = b
  BY <1>1, <1>3 DEF readChecked
<1>5. QED
  BY <1>4, LoadStored DEF b

-----------------------------------------------------------------------------
(* Registers: the part of one that a write replaces, and what it leaves.   *)
LEMMA InsertInt ==
    ASSUME NEW f \in {0, 1}, NEW w \in {1, 2}, NEW g \in Int, NEW v \in Int
    PROVE  Insert(g, f, w, v) \in Int
<1> DEFINE P == Modulus(f)  W == Modulus(w)  d == (g \div P) % W  t == v % W
<1>1. P \in Nat \ {0} /\ W \in Nat \ {0}
  BY PowerType
<1>2. d \in Int /\ t \in Int
  <2> HIDE DEF P, W
  <2>1. g \div P \in Int
    BY <1>1
  <2>2. QED
    BY <1>1, <2>1
<1>3. Insert(g, f, w, v) = g - d * P + t * P
  BY DEF Insert, Trunc
<1> HIDE DEF P, W, d, t
<1>4. QED
  BY <1>1, <1>2, <1>3

(* The register that idx names, and the byte of it at which the write      *)
(* starts: 1 for AH, CH, DH and BH.                                        *)
Place(idx, w, rex) == IF w = 1 /\ ~rex /\ idx \in 4..7 THEN [reg |-> idx - 4, from |-> 1]
                                                       ELSE [reg |-> idx, from |-> 0]
(* n is s with v in w bytes of that register, the rest of it as it was, or *)
(* 0 for a 32-bit write.                                                   *)
RegisterHolds(s, n, idx, w, rex, v) ==
    LET r == Place(idx, w, rex).reg  P == Modulus(Place(idx, w, rex).from)
    IN /\ n = [s EXCEPT !.gpr = n.gpr] /\ n.gpr \in [Reg -> Int]
       /\ readWidth(n, idx, w, rex) = Trunc(v, w)
       /\ \A x \in Reg \ {r} : n.gpr[x] = s.gpr[x]
       /\ w \in {4, 8} => n.gpr[r] = Trunc(v, w)
       /\ w \in {1, 2} => /\ n.gpr[r] % P = s.gpr[r] % P
                          /\ (n.gpr[r] \div P) \div Modulus(w) = (s.gpr[r] \div P) \div Modulus(w)
(* Theorem.  A register that is written at a width reads back, at that     *)
(* width, as what was written; no other register changes; AH, CH, DH and   *)
(* BH leave the byte below them alone, an 8- or 16-bit write leaves what   *)
(* is above it alone, and a 32-bit write clears it.                        *)
THEOREM RegisterParts ==
    ASSUME NEW s, Shape(s), s.gpr \in [Reg -> 0..(Modulus(8) - 1)],
           NEW idx \in Reg, NEW w \in {1, 2, 4, 8}, NEW rex \in BOOLEAN, NEW v \in Int
    PROVE  RegisterHolds(s, writeWidth(s, idx, w, rex, v), idx, w, rex, v)
<1> DEFINE n == writeWidth(s, idx, w, rex, v)
           r == Place(idx, w, rex).reg  from == Place(idx, w, rex).from  P == Modulus(from)
           g == s.gpr[r]
           e == IF w \in {1, 2} THEN Insert(g, from, w, v) ELSE Trunc(v, w)
<1>1. r \in Reg /\ from \in {0, 1} /\ g \in Int
  <2>1. Modulus(8) \in Nat
    BY AddressSize
  <2>2. r \in Reg /\ from \in {0, 1}
    BY DEF Place, Reg
  <2> HIDE DEF r, from
  <2>3. QED
    BY <2>1, <2>2
<1>2. n = [s EXCEPT !.gpr[r] = e]
  <2>1. CASE w = 1
    BY <2>1 DEF writeWidth, write8, Place
  <2>2. CASE w = 2
    BY <2>2 DEF writeWidth, Place
  <2>3. CASE w \in {4, 8}
    BY <2>3 DEF writeWidth, Place
  <2>4. QED
    BY <2>1, <2>2, <2>3
<1>3. readWidth(n, idx, w, rex) = IF w \in {1, 2} THEN (n.gpr[r] \div P) % Modulus(w) ELSE Trunc(n.gpr[r], w)
  <2>1. Modulus(0) = 1 /\ \A x \in Int : x \div 1 = x
    BY PowerOne
  <2>2. n.gpr[r] \in Int
    <3>1. e \in Int
      <4>1. CASE w \in {1, 2}
        <5> HIDE DEF r, from
        <5>1. QED
          BY <4>1, <1>1, InsertInt DEF g
      <4>2. CASE w \in {4, 8}
        BY <4>2, WordRange
      <4>3. QED
        BY <4>1, <4>2
    <3> HIDE DEF e, r
    <3>2. n.gpr = [s.gpr EXCEPT ![r] = e]
      BY <1>2 DEF Shape, Fields
    <3>3. QED
      BY <1>1, <3>1, <3>2
  <2> DEFINE gn == n.gpr
  <2>3. \A x : x.gpr = gn => TRUE
    OBVIOUS
  <2> HIDE DEF n
  <2>4. CASE w = 1 /\ ~rex /\ idx \in 4..7
    BY <2>4 DEF readWidth, read8, Place
  <2>5. CASE w = 1 /\ ~(~rex /\ idx \in 4..7)
    BY <2>1, <2>2, <2>5 DEF readWidth, read8, Place, Trunc
  <2>6. CASE w = 2
    BY <2>1, <2>2, <2>6 DEF readWidth, Place, Trunc
  <2>7. CASE w \in {4, 8}
    BY <2>7 DEF readWidth, Place
  <2>8. QED
    BY <2>4, <2>5, <2>6, <2>7
<1> HIDE DEF n, r, from
<1>4. CASE w \in {1, 2}
  <2>1. /\ e \in Int /\ (e \div P) % Modulus(w) = Trunc(v, w) /\ e % P = g % P
        /\ (e \div P) \div Modulus(w) = (g \div P) \div Modulus(w)
    <3> DEFINE W == Modulus(w)  q == g \div P  l == g % P
               h == q \div W  d == q % W  t == v % W  p == h * W + t
    <3>1. P \in Nat \ {0} /\ W \in Nat \ {0}
      BY <1>1, <1>4, PowerType
    <3>2. e = g - d * P + t * P
      BY <1>4 DEF Insert, Trunc
    <3> HIDE DEF P, W, g, e
    <3>3. g = P * q + l /\ q \in Int /\ l \in 0..(P - 1)
      BY <1>1, <3>1, SplitMod, Wraps
    <3>4. q = W * h + d /\ h \in Int /\ d \in 0..(W - 1) /\ t \in 0..(W - 1)
      BY <3>1, <3>3, SplitMod, Wraps
    <3> HIDE DEF q, l, h, d, t
    <3>5. e = p * P + l /\ p \in Int /\ e \in Int
      BY <3>1, <3>2, <3>3, <3>4
    <3>6. p % W = t /\ p \div W = h
      BY <3>1, <3>4, <3>5, DivUnique, ModUnique
    <3> HIDE DEF p
    <3>7. e \div P = p /\ e % P = l
      BY <3>1, <3>3, <3>5, DivUnique, ModUnique
    <3>8. QED
      BY <3>5, <3>6, <3>7 DEF W, l, h, q, t, Trunc
  <2> HIDE DEF e, P
  <2>2. n.gpr = [s.gpr EXCEPT ![r] = e]
    BY <1>2 DEF Shape, Fields
  <2>3. n = [s EXCEPT !.gpr = n.gpr]
    BY <1>2, <2>2 DEF Shape, Fields
  <2>4. n.gpr[r] = e /\ (\A x \in Reg \ {r} : n.gpr[x] = s.gpr[x]) /\ n.gpr \in [Reg -> Int]
    BY <1>1, <2>1, <2>2, AddressSize
  <2>5. QED
    BY <1>3, <1>4, <2>1, <2>3, <2>4 DEF n, r, P, from, g, RegisterHolds
<1>5. CASE w \in {4, 8}
  <2>1. e = Trunc(v, w) /\ e \in Int /\ Trunc(e, w) = e
    BY <1>5, WordRange
  <2> HIDE DEF e, P
  <2>2. n.gpr = [s.gpr EXCEPT ![r] = e]
    BY <1>2 DEF Shape, Fields
  <2>3. n = [s EXCEPT !.gpr = n.gpr]
    BY <1>2, <2>2 DEF Shape, Fields
  <2>4. n.gpr[r] = e /\ (\A x \in Reg \ {r} : n.gpr[x] = s.gpr[x]) /\ n.gpr \in [Reg -> Int]
    BY <1>1, <2>1, <2>2, AddressSize
  <2>5. QED
    BY <1>3, <1>5, <2>1, <2>3, <2>4 DEF n, r, P, from, g, RegisterHolds
<1>6. QED
  BY <1>4, <1>5

-----------------------------------------------------------------------------
(* Operands that are written and read back.                                *)
Operands ==
    [kind : {"reg"}, reg : Reg, rex : BOOLEAN] \cup
    [kind : {"mem"}, rip : BOOLEAN, baseIndex : BOOLEAN, base : Reg \cup {NoReg},
     index : Reg \cup {NoReg}, scale : {1, 2, 4, 8}, disp : Int, addr : Int, seg : {"none", "fs", "gs"}]

LEMMA MachineParts ==
    ASSUME NEW s \in Machine
    PROVE  /\ Shape(s) /\ s.gpr \in [Reg -> 0..(Modulus(8) - 1)] /\ s.gpr \in [Reg -> Int]
           /\ s.mem \in [0..(MemBytes - 1) -> 0..(Modulus(1) - 1)]
           /\ s.end \in Int /\ s.fs \in Int /\ s.gs \in Int
<1>1. 0..(Modulus(8) - 1) \subseteq Int
  BY AddressSize
<1>2. Shape(s)
  BY DEF Machine, Shape, Fields
<1>3. /\ s.gpr \in [Reg -> 0..(Modulus(8) - 1)] /\ s.mem \in [0..(MemBytes - 1) -> 0..(Modulus(1) - 1)]
      /\ s.end \in 0..(Modulus(8) - 1) /\ s.fs \in 0..(Modulus(8) - 1) /\ s.gs \in 0..(Modulus(8) - 1)
  BY DEF Machine
<1>4. QED
  BY <1>1, <1>2, <1>3

LEMMA AddressInt == ASSUME NEW s \in Machine, NEW o \in Operands PROVE effAddr(s, o) \in Int
<1>1. CASE o.kind = "reg"
  BY <1>1 DEF effAddr
<1>2. CASE o.kind = "mem"
  <2> DEFINE Content(r) == IF r = NoReg THEN 0 ELSE s.gpr[r]
             addr == CASE o.rip -> s.end + o.disp
                       [] o.baseIndex -> Content(o.base) + Content(o.index) * o.scale + o.disp
                       [] OTHER -> o.addr
             segBase == CASE o.seg = "fs" -> s.fs [] o.seg = "gs" -> s.gs [] OTHER -> 0
  <2>1. /\ o.rip \in BOOLEAN /\ o.baseIndex \in BOOLEAN /\ o.base \in Reg \cup {NoReg}
        /\ o.index \in Reg \cup {NoReg} /\ o.scale \in Int /\ o.disp \in Int /\ o.addr \in Int
    BY <1>2 DEF Operands
  <2>2. \A r \in Reg \cup {NoReg} : Content(r) \in Int
    BY MachineParts
  <2>3. segBase \in Int
    BY MachineParts
  <2>4. addr \in Int
    <3> HIDE DEF Content
    <3>1. Content(o.base) \in Int /\ Content(o.index) * o.scale \in Int
      BY <2>1, <2>2
    <3>2. QED
      BY <2>1, <3>1, MachineParts
  <2>5. effAddr(s, o) = (addr + segBase) % Modulus(8)
    BY <1>2 DEF effAddr
  <2> HIDE DEF addr, segBase
  <2>6. QED
    BY <2>3, <2>4, <2>5, AddressSize
<1>3. QED
  BY <1>1, <1>2 DEF Operands

(* Theorem.  An operand that is written and read back at the same width,   *)
(* in a register or in memory that may be written, gives what was written. *)
THEOREM WrittenIsRead ==
    ASSUME NEW s \in Machine, NEW o \in Operands, NEW w \in {1, 2, 4, 8}, NEW v \in Int,
           writeOperand(s, o, w, v).err = "ok"
    PROVE  readOperand(writeOperand(s, o, w, v), o, w) = Trunc(v, w)
<1> DEFINE n == writeOperand(s, o, w, v)
<1>1. CASE o.kind = "reg"
  <2>1. o.reg \in Reg /\ o.rex \in BOOLEAN
    BY <1>1 DEF Operands
  <2>2. n = writeWidth(s, o.reg, w, o.rex, v) /\ readOperand(n, o, w) = readWidth(n, o.reg, w, o.rex)
    BY <1>1 DEF readOperand, writeOperand
  <2>3. readWidth(writeWidth(s, o.reg, w, o.rex, v), o.reg, w, o.rex) = Trunc(v, w)
    <3>1. Shape(s) /\ s.gpr \in [Reg -> 0..(Modulus(8) - 1)]
      BY MachineParts
    <3>2. RegisterHolds(s, writeWidth(s, o.reg, w, o.rex, v), o.reg, w, o.rex, v)
      BY <2>1, <3>1, RegisterParts
    <3>3. QED
      BY <3>2 DEF RegisterHolds
  <2>4. QED
    BY <2>2, <2>3
<1>2. CASE o.kind = "mem"
  <2> DEFINE a == effAddr(s, o)
  <2>1. n = writeChecked(s, a, u64ToLE(v, w)) /\ n.err = "ok"
    BY <1>2 DEF writeOperand
  <2>2. Only(s, n, {"mem", "err"})
    BY <2>1, MachineParts, CheckedOnly
  <2>3. n.gpr = s.gpr /\ n.end = s.end /\ n.fs = s.fs /\ n.gs = s.gs
    BY <2>2 DEF Only, Fields
  <2> HIDE DEF n
  <2>4. effAddr(n, o) = a
    BY <2>3 DEF effAddr
  <2>5. readOperand(n, o, w) = leToU64(readChecked(n, a, w))
    BY <1>2, <2>4 DEF readOperand
  <2>6. a \in Int
    BY AddressInt
  <2> HIDE DEF a
  <2>7. QED
    BY <2>1, <2>5, <2>6, MachineParts, LoadedBack DEF n
<1>3. QED
  BY <1>1, <1>2 DEF Operands

(* Theorem.  POP takes what push64 pushed (PUSH, or the address of a CALL) *)
(* and leaves the stack pointer where it was, unless it is the register    *)
(* that is popped.                                                         *)
THEOREM PushedIsPopped ==
    ASSUME NEW s \in Machine, NEW v \in 0..(Modulus(8) - 1), push64(s, v).err = "ok",
           CanAccess(push64(s, v), push64(s, v).gpr[RSP], 8, "r"),
           NEW i, Extended(i, "rexB", i.reg) \in Reg
    PROVE  LET q == Pop(push64(s, v), i)
               r == Extended(i, "rexB", i.reg)
           IN q.gpr = [s.gpr EXCEPT ![r] = v]
<1> DEFINE x == s.gpr[RSP]  sp == At(x, -8)  c == writeChecked(s, sp, u64ToLE(v, 8))
           n == push64(s, v)  r == Extended(i, "rexB", i.reg)
<1>1. /\ Shape(s) /\ s.gpr = [y \in Reg |-> s.gpr[y]] /\ x \in 0..(Modulus(8) - 1) /\ RSP \in Reg
      /\ s.mem \in [0..(MemBytes - 1) -> 0..(Modulus(1) - 1)]
  <2>1. /\ Shape(s) /\ s.gpr \in [Reg -> 0..(Modulus(8) - 1)]
        /\ s.mem \in [0..(MemBytes - 1) -> 0..(Modulus(1) - 1)]
    BY MachineParts
  <2>2. RSP \in Reg
    BY DEF RSP, Reg
  <2>3. QED
    BY <2>1, <2>2
<1>2. sp \in Int /\ At(sp, 8) = x /\ v \in Int
  <2> DEFINE M == Modulus(8)
  <2>1. M \in Nat \ {0} /\ x \in 0..(M - 1) /\ v \in 0..(M - 1)
    BY <1>1, AddressSize
  <2> HIDE DEF M, x
  <2>2. x \in Int /\ x + (-8) \in Int /\ (x + (-8)) + 8 = x /\ 8 \in Int
    BY <2>1
  <2>3. ((x + (-8)) % M) + 8 \in Int
    BY <2>1, <2>2
  <2>4. (((x + (-8)) % M) + 8) % M = ((x + (-8)) + 8) % M
    BY <2>1, <2>2, ModAdd
  <2>5. x % M = x
    BY <2>1, <2>2, Wraps
  <2>6. QED
    BY <2>1, <2>2, <2>4, <2>5 DEF At, M
<1> HIDE DEF sp
<1>3. Only(s, c, {"mem", "err"})
  BY <1>1, CheckedOnly
<1>4. c.gpr = s.gpr /\ Shape(c)
  BY <1>3 DEF Only, Fields
<1>5. n = IF c.err = "ok" THEN [c EXCEPT !.gpr[RSP] = sp] ELSE c
  BY DEF push64, sp
<1> HIDE DEF c
<1>6. c.err = "ok"
  BY <1>5
<1>7. n.mem = c.mem /\ n.gpr = [s.gpr EXCEPT ![RSP] = sp] /\ n.gpr[RSP] = sp /\ Shape(n)
  BY <1>1, <1>4, <1>5, <1>6 DEF Shape, Fields
<1>8. leToU64(readChecked(n, sp, 8)) = v
  <2>1. readChecked(n, sp, 8) = readChecked(c, sp, 8)
    BY <1>7 DEF readChecked
  <2>2. leToU64(readChecked(c, sp, 8)) = Trunc(v, 8)
    BY <1>1, <1>2, <1>6, LoadedBack DEF c
  <2>3. Trunc(v, 8) = v
    BY <1>2, AddressSize, Wraps DEF Trunc
  <2>4. QED
    BY <2>1, <2>2, <2>3
<1> DEFINE u == [n EXCEPT !.gpr[RSP] = At(sp, 8)]
<1>9. Pop(n, i) = [u EXCEPT !.gpr[r] = v]
  <2>1. CanAccess(n, sp, 8, "r")
    BY <1>7
  <2> HIDE DEF n
  <2>2. QED
    BY <1>7, <1>8, <2>1 DEF Pop, Popping
<1>10. u.gpr = s.gpr
  BY <1>1, <1>2, <1>7 DEF Shape, Fields
<1>11. Pop(n, i).gpr = [u.gpr EXCEPT ![r] = v]
  BY <1>7, <1>9 DEF Shape, Fields
<1>12. QED
  BY <1>10, <1>11

-----------------------------------------------------------------------------
(* Theorem.  BSWAP twice, whatever the order in which its loop takes the   *)
(* bytes, is the identity at 64 bits and clears the upper half at 32.      *)
THEOREM SwappedTwice ==
    ASSUME NEW s \in Machine, NEW i, Extended(i, "rexB", i.reg) \in Reg
    PROVE  LET r == Extended(i, "rexB", i.reg)
           IN Bswap(Bswap(s, i), i) =
                [s EXCEPT !.gpr[r] = Trunc(s.gpr[r], IF "rexW" \in i.pfx THEN 8 ELSE 4)]
<1> DEFINE r == Extended(i, "rexB", i.reg)  w == IF "rexW" \in i.pfx THEN 8 ELSE 4
           Bytes(x) == u64ToLE(Trunc(x, w), w)
           Reversed(b) == [k \in 1..w |-> b[w + 1 - k]]
           Swapped(x) == leToU64(Reversed(Bytes(x)))
           N == 0..(Modulus(1) - 1)
<1>1. w \in {4, 8} /\ w \in {1, 2, 4, 8} /\ w # 1 /\ w # 2 /\ w \in Nat
  OBVIOUS
<1>2. \A t : Bswap(t, i) = [t EXCEPT !.gpr[r] = Trunc(Swapped(t.gpr[r]), w)]
  BY DEF Bswap, readOperand, writeOperand, regOperand, readWidth, writeWidth
<1> HIDE DEF w, r
<1>3. \A x \in Int : Trunc(x, w) \in Int /\ Bytes(x) \in [1..w -> N]
  <2> SUFFICES ASSUME NEW x \in Int PROVE Trunc(x, w) \in Int /\ Bytes(x) \in [1..w -> N]
    OBVIOUS
  <2>1. Trunc(x, w) \in Int
    BY <1>1, WordRange
  <2> DEFINE y == Trunc(x, w)
  <2> HIDE DEF y
  <2>2. ASSUME NEW k \in 1..w PROVE (y \div Modulus(k - 1)) % Modulus(1) \in N
    <3>1. k - 1 \in 0..8
      BY <1>1
    <3>2. Modulus(k - 1) \in Nat \ {0} /\ Modulus(1) \in Nat \ {0}
      BY <3>1, PowerType
    <3> DEFINE P == Modulus(k - 1)  Q == Modulus(1)
    <3>3. y \in Int /\ P \in Nat \ {0} /\ Q \in Nat \ {0}
      BY <2>1, <3>2 DEF y
    <3> HIDE DEF P, Q
    <3>4. y \div P \in Int
      BY <3>3
    <3>5. (y \div P) % Q \in 0..(Q - 1)
      BY <3>3, <3>4, Wraps
    <3>6. QED
      BY <3>5 DEF P, Q
  <2>3. Bytes(x) = [k \in 1..w |-> (y \div Modulus(k - 1)) % Modulus(1)]
    BY DEF u64ToLE, Modulus, y
  <2>4. QED
    BY <2>1, <2>2, <2>3
<1>4. \A b \in [1..w -> N] : /\ Reversed(b) \in [1..w -> N] /\ Reversed(Reversed(b)) = b
                             /\ leToU64(b) \in 0..(Modulus(w) - 1) /\ u64ToLE(leToU64(b), w) = b
  <2> SUFFICES ASSUME NEW b \in [1..w -> N]
               PROVE  /\ Reversed(b) \in [1..w -> N] /\ Reversed(Reversed(b)) = b
                      /\ leToU64(b) \in 0..(Modulus(w) - 1) /\ u64ToLE(leToU64(b), w) = b
    OBVIOUS
  <2>1. leToU64(b) \in 0..(Modulus(w) - 1) /\ u64ToLE(leToU64(b), w) = b
    BY <1>1, StoredLoad
  <2>2. \A k \in 1..w : w + 1 - k \in 1..w /\ w + 1 - (w + 1 - k) = k
    BY <1>1
  <2> HIDE DEF N
  <2>3. QED
    BY <2>1, <2>2
<1>5. \A b \in [1..w -> N] : Trunc(leToU64(b), w) = leToU64(b) /\ leToU64(b) \in Int
  <2> SUFFICES ASSUME NEW b \in [1..w -> N] PROVE Trunc(leToU64(b), w) = leToU64(b) /\ leToU64(b) \in Int
    OBVIOUS
  <2>1. leToU64(b) \in 0..(Modulus(w) - 1)
    BY <1>4
  <2>2. Modulus(w) \in Nat
    BY <1>1, PowersAssumption
  <2>3. QED
    BY <1>1, <2>1, <2>2, WordSigned
<1>6. \A x \in Int : /\ Trunc(Swapped(x), w) = Swapped(x) /\ Swapped(x) \in Int
                     /\ Bytes(Swapped(x)) = Reversed(Bytes(x))
  <2> SUFFICES ASSUME NEW x \in Int
               PROVE  /\ Trunc(Swapped(x), w) = Swapped(x) /\ Swapped(x) \in Int
                      /\ Bytes(Swapped(x)) = Reversed(Bytes(x))
    OBVIOUS
  <2> DEFINE b == Reversed(Bytes(x))
  <2>1. b \in [1..w -> N]
    BY <1>3, <1>4
  <2> HIDE DEF b
  <2>2. Trunc(leToU64(b), w) = leToU64(b) /\ leToU64(b) \in Int /\ u64ToLE(leToU64(b), w) = b
    BY <1>4, <1>5, <2>1
  <2>3. QED
    BY <2>2 DEF b
<1>7. \A x \in Int : Swapped(Swapped(x)) = Trunc(x, w)
  <2> SUFFICES ASSUME NEW x \in Int PROVE Swapped(Swapped(x)) = Trunc(x, w)
    OBVIOUS
  <2>1. Swapped(Swapped(x)) = leToU64(Reversed(Reversed(Bytes(x))))
    BY <1>6
  <2>2. Reversed(Reversed(Bytes(x))) = Bytes(x)
    BY <1>3, <1>4
  <2>3. leToU64(Bytes(x)) = Trunc(Trunc(x, w), w)
    BY <1>1, <1>3, LoadStored
  <2>4. QED
    BY <1>1, <2>1, <2>2, <2>3, WordRange
<1> HIDE DEF Swapped
<1>8. Shape(s) /\ s.gpr \in [Reg -> Int] /\ r \in Reg
  BY MachineParts DEF r
<1> DEFINE n == Bswap(s, i)  x == s.gpr[r]
<1>9. x \in Int
  BY <1>8
<1>10. n = [s EXCEPT !.gpr[r] = Swapped(x)]
  BY <1>2, <1>6, <1>9
<1>11. n.gpr[r] = Swapped(x)
  BY <1>8, <1>10 DEF Shape, Fields
<1> HIDE DEF n, x
<1>12. Bswap(n, i) = [n EXCEPT !.gpr[r] = Trunc(x, w)]
  BY <1>2, <1>6, <1>7, <1>9, <1>11
<1>13. [n EXCEPT !.gpr[r] = Trunc(x, w)] = [s EXCEPT !.gpr[r] = Trunc(x, w)]
  <2>1. \A c, d : [[s EXCEPT !.gpr[r] = c] EXCEPT !.gpr[r] = d] = [s EXCEPT !.gpr[r] = d]
    BY <1>8 DEF Shape, Fields
  <2>2. QED
    BY <1>10, <2>1
<1>14. QED
  BY <1>12, <1>13 DEF n, x, r, w

-----------------------------------------------------------------------------
(* REP MOVS.                                                               *)
Memory == [0..(MemBytes - 1) -> 0..(Modulus(1) - 1)]

(* What a read that does not fault loads are bytes.                        *)
LEMMA LoadedBytes ==
    ASSUME NEW s, s.mem \in Memory, NEW a \in Int, NEW w \in {1, 2, 4, 8}, CanAccess(s, a, w, "r")
    PROVE  /\ readChecked(s, a, w) \in [1..w -> 0..(Modulus(1) - 1)]
           /\ \A k \in 1..w : At(a, k - 1) \in DOMAIN s.mem
<1>1. \A k \in 1..w : At(a, k - 1) \in DOMAIN s.mem
  <2> SUFFICES ASSUME NEW k \in 1..w PROVE At(a, k - 1) \in DOMAIN s.mem
    OBVIOUS
  <2>1. k - 1 \in 0..(w - 1) /\ a + (k - 1) \in Int
    OBVIOUS
  <2>2. At(a, k - 1) < MemBytes
    BY <2>1 DEF CanAccess, Allowed
  <2>3. (a + (k - 1)) % Modulus(8) \in 0..(Modulus(8) - 1)
    BY <2>1, AddressSize, Wraps
  <2>4. At(a, k - 1) \in Nat
    BY <2>3, AddressSize DEF At
  <2>5. QED
    BY <2>2, <2>4, PagesAssumption DEF Memory, MemBytes
<1>2. QED
  BY <1>1 DEF readChecked, Memory

(* One element: the bytes at d are those that were at a.                   *)
LEMMA ElementCopied ==
    ASSUME NEW t, Shape(t), t.gpr = [r \in Reg |-> t.gpr[r]], t.mem \in Memory,
           NEW a \in Nat, t.gpr[RSI] = a, NEW d \in Nat, t.gpr[RDI] = d,
           NEW i, i.op = "movs", a + Width(i) <= Modulus(8), d + Width(i) <= Modulus(8),
           Iteration(t, i).err = "ok"
    PROVE  /\ Iteration(t, i).mem \in Memory
           /\ \A x \in 0..(MemBytes - 1) :
                Iteration(t, i).mem[x] = IF x \in d..(d + Width(i) - 1) THEN t.mem[a + (x - d)] ELSE t.mem[x]
           /\ \A x \in d..(d + Width(i) - 1) : x \in 0..(MemBytes - 1) /\ a + (x - d) \in 0..(MemBytes - 1)
<1> DEFINE w == Width(i)  b == readChecked(t, a, w)  v == leToU64(b)
           u == writeChecked(t, d, u64ToLE(v, w))  n == Iteration(t, i)
<1>1. w \in {1, 2, 4, 8} /\ w \in 1..8
  BY DEF Width
<1>2. CanAccess(t, a, w, "r") /\ n = Advance(u, {RSI, RDI}, w)
  BY DEF Iteration, strMovs, ReadThen, Fault, Shape, Fields
<1> HIDE DEF w
<1>3. b \in [1..w -> 0..(Modulus(1) - 1)] /\ \A k \in 1..w : At(a, k - 1) \in DOMAIN t.mem
  <2>1. a \in Int
    OBVIOUS
  <2>2. readChecked(t, a, w) \in [1..w -> 0..(Modulus(1) - 1)] /\ \A k \in 1..w : At(a, k - 1) \in DOMAIN t.mem
    BY <1>1, <1>2, <2>1, LoadedBytes
  <2>3. QED
    BY <2>2
<1>4. u64ToLE(v, w) = b /\ Len(b) = w
  <2> HIDE DEF b
  <2>1. u64ToLE(v, w) = b
    BY <1>1, <1>3, StoredLoad
  <2>2. QED
    BY <1>1, <1>3, <2>1
<1>5. Shape(u) /\ u.err = "ok" /\ n.mem = u.mem
  <2>1. Only(t, u, {"mem", "err"})
    BY CheckedOnly
  <2>2. Shape(u)
    BY <2>1 DEF Only
  <2> HIDE DEF u, n
  <2>3. CASE u.err = "ok"
    BY <1>2, <2>2, <2>3 DEF Advance, Shape, Fields
  <2>4. CASE u.err # "ok"
    BY <1>2, <2>4 DEF Advance, n
  <2>5. QED
    BY <2>2, <2>3, <2>4
<1>6. u = writeChecked(t, d, b)
  BY <1>4
<1> HIDE DEF u, n, v
<1>7. /\ u.mem = [x \in DOMAIN t.mem |-> u.mem[x]]
      /\ \A k \in 1..w : At(d, k - 1) \in DOMAIN t.mem /\ u.mem[At(d, k - 1)] = b[k]
      /\ \A x \in DOMAIN t.mem : (\A k \in 1..w : x # At(d, k - 1)) => u.mem[x] = t.mem[x]
  <2> HIDE DEF b
  <2>1. Len(b) \in 1..8 /\ writeChecked(t, d, b).err = "ok" /\ d \in Int /\ t.mem \in [0..(MemBytes - 1) -> 0..(Modulus(1) - 1)]
    BY <1>1, <1>4, <1>5, <1>6 DEF Memory
  <2>2. BytesStored(t, u, d, b)
    BY <1>6, <2>1, StoreWrites
  <2>3. QED
    BY <1>4, <2>2 DEF BytesStored
(* No address wraps.                                                       *)
<1>8. \A k \in 1..w : At(a, k - 1) = a + (k - 1) /\ At(d, k - 1) = d + (k - 1)
  <2> DEFINE M == Modulus(8)
  <2>1. M \in Nat \ {0} /\ a + w <= M /\ d + w <= M
    BY AddressSize DEF w
  <2> SUFFICES ASSUME NEW k \in 1..w PROVE At(a, k - 1) = a + (k - 1) /\ At(d, k - 1) = d + (k - 1)
    OBVIOUS
  <2> HIDE DEF M
  <2>2. a + (k - 1) \in 0..(M - 1) /\ d + (k - 1) \in 0..(M - 1)
    BY <1>1, <2>1
  <2>3. (a + (k - 1)) % M = a + (k - 1) /\ (d + (k - 1)) % M = d + (k - 1)
    <3>1. \A p \in 0..(M - 1) : p % M = p
      BY <2>1
    <3>2. QED
      BY <2>2, <3>1
  <2>4. QED
    BY <2>3 DEF At, M
<1>9. \A k \in 1..w : b[k] = t.mem[a + (k - 1)]
  BY <1>8 DEF readChecked
<1> HIDE DEF b
<1>10. ASSUME NEW x \in d..(d + w - 1)
       PROVE  /\ x \in 0..(MemBytes - 1) /\ a + (x - d) \in 0..(MemBytes - 1)
              /\ u.mem[x] = t.mem[a + (x - d)] /\ t.mem[a + (x - d)] \in 0..(Modulus(1) - 1)
  <2> DEFINE k == x - d + 1
  <2>1. k \in 1..w /\ d + (k - 1) = x /\ a + (k - 1) = a + (x - d)
    BY <1>1
  <2> HIDE DEF k
  <2>2. At(d, k - 1) = x /\ At(a, k - 1) = a + (x - d) /\ b[k] = t.mem[a + (x - d)]
    BY <1>8, <1>9, <2>1
  <2>3. x \in DOMAIN t.mem /\ a + (x - d) \in DOMAIN t.mem /\ u.mem[x] = b[k]
    BY <1>3, <1>7, <2>1, <2>2
  <2>4. QED
    BY <2>2, <2>3 DEF Memory
<1>11. ASSUME NEW x \in 0..(MemBytes - 1), x \notin d..(d + w - 1) PROVE u.mem[x] = t.mem[x]
  <2>1. x \in Int
    BY PagesAssumption DEF MemBytes
  <2>2. \A k \in 1..w : x # d + (k - 1)
    BY <1>1, <1>11, <2>1
  <2>3. x \in DOMAIN t.mem
    BY DEF Memory
  <2>4. QED
    BY <1>7, <1>8, <2>2, <2>3
<1>12. u.mem \in Memory
  <2>1. u.mem = [x \in 0..(MemBytes - 1) |-> u.mem[x]]
    BY <1>7 DEF Memory
  <2>2. \A x \in 0..(MemBytes - 1) : u.mem[x] \in 0..(Modulus(1) - 1)
    BY <1>10, <1>11 DEF Memory
  <2>3. QED
    BY <2>1, <2>2 DEF Memory
<1>13. QED
  BY <1>5, <1>10, <1>11, <1>12 DEF n, w

(* Theorem.  REP MOVS upward is a copy: when it does not fault, the bytes  *)
(* at the destination are those that were at the source and every other    *)
(* byte is as it was, also when the destination overlaps the source from   *)
(* below, as in memmove.                                                   *)
THEOREM CopiesForward ==
    ASSUME NEW s \in Machine, s.err = "ok", "DF" \notin s.flags,
           NEW i, i.op = "movs", RepOf(i) # "none", s.gpr[RCX] \in 0..MemBytes,
           s.gpr[RSI] + s.gpr[RCX] * Width(i) <= Modulus(8),
           s.gpr[RDI] + s.gpr[RCX] * Width(i) <= Modulus(8),
           s.gpr[RDI] <= s.gpr[RSI] \/ s.gpr[RSI] + s.gpr[RCX] * Width(i) <= s.gpr[RDI],
           String(s, i).err = "ok"
    PROVE  \A x \in 0..(MemBytes - 1) :
               String(s, i).mem[x] =
                   IF x \in s.gpr[RDI]..(s.gpr[RDI] + s.gpr[RCX] * Width(i) - 1)
                   THEN s.mem[s.gpr[RSI] + (x - s.gpr[RDI])] ELSE s.mem[x]
<1> DEFINE n == s.gpr[RCX]  w == Width(i)  a == s.gpr[RSI]  d == s.gpr[RDI]  M == Modulus(8)
           f == RepStates(s, i)
           Mem(t, l) == /\ t.mem \in Memory
                        /\ \A x \in 0..(MemBytes - 1) :
                              t.mem[x] = IF x \in d..(d + l - 1) THEN s.mem[a + (x - d)] ELSE s.mem[x]
           Copied(t, k) == /\ Shape(t) /\ t.gpr = [r \in Reg |-> t.gpr[r]] /\ "DF" \notin t.flags
                           /\ t.gpr[RSI] = At(a, k * w) /\ t.gpr[RDI] = At(d, k * w)
                           /\ Mem(t, k * w)
           S == {k \in Nat : k \in 0..n => (f[k].err = "ok" => Copied(f[k], k))}
<1>1. /\ Shape(s) /\ s.gpr \in [Reg -> 0..(M - 1)] /\ s.mem \in Memory /\ M \in Nat \ {0}
  BY MachineParts, AddressSize DEF Memory
<1>2. n \in Nat /\ a \in 0..(M - 1) /\ d \in 0..(M - 1) /\ s.gpr = [r \in Reg |-> s.gpr[r]]
  BY <1>1, PagesAssumption DEF RCX, RSI, RDI, Reg, MemBytes
<1>3. w \in {1, 2, 4, 8} /\ w \in Nat
  BY DEF Width
<1>4. repIterations(s, i) = n
  BY DEF repIterations
<1>5. \A k \in 0..n : f[k] = IF k = 0 THEN s ELSE RepStep(f[k - 1], i, k)
  BY <1>4, RepStatesRec
<1>6. String(s, i) = f[n]
  BY <1>4 DEF String, RepLoop
<1>7. /\ a + n * w <= M /\ d + n * w <= M
      /\ d <= a \/ a + n * w <= d
  OBVIOUS
<1> HIDE DEF n, w, a, d, M, f
<1>8. 0 \in S
  <2>1. f[0] = s
    BY <1>2, <1>5
  <2>2. 0 * w = 0 /\ a + 0 = a /\ d + 0 = d /\ a % M = a /\ d % M = d
    BY <1>1, <1>2, <1>3
  <2>3. At(a, 0 * w) = a /\ At(d, 0 * w) = d
    BY <2>2 DEF At, M
  <2>4. \A x \in 0..(MemBytes - 1) : x \notin d..(d + 0 * w - 1)
    BY <1>1, <1>2, <2>2
  <2>5. Copied(s, 0)
    BY <1>1, <1>2, <2>3, <2>4 DEF a, d
  <2> HIDE DEF Copied
  <2>6. QED
    BY <2>1, <2>5
<1>9. ASSUME NEW k \in Nat, k \in S PROVE k + 1 \in S
  <2> SUFFICES ASSUME k + 1 \in 0..n, f[k + 1].err = "ok" PROVE Copied(f[k + 1], k + 1)
    OBVIOUS
  <2> DEFINE t == f[k]  u == Iteration(t, i)  l == k * w
  <2>1. k \in 0..n /\ k + 1 # 0 /\ (k + 1) - 1 = k /\ k + 1 <= n
    BY <1>2
  <2>2. f[k + 1] = RepStep(t, i, k + 1)
    BY <1>5, <2>1
  <2>3. t.err = "ok"
    <3>1. CASE k = 0
      BY <1>5, <2>1, <3>1
    <3>2. CASE k # 0 /\ t.err # "ok"
      BY <2>2, <3>2 DEF RepStep, Stops
    <3>3. QED
      BY <3>1, <3>2
  <2> HIDE DEF S, Copied
  <2>4. Copied(t, k)
    <3>1. k \in S /\ k \in 0..n
      BY <1>9, <2>1
    <3>2. QED
      BY <2>3, <3>1 DEF S
  <2> HIDE DEF t, u
  <2>5. ~Stops(t, i)
    BY <2>3 DEF Stops
  <2>6. f[k + 1] = CountDown(u, i)
    BY <2>2, <2>5 DEF RepStep, u
  <2>7. u.err = "ok" /\ f[k + 1] = [u EXCEPT !.gpr[RCX] = At(u.gpr[RCX], -1)]
    <3>1. u.err = "ok"
      BY <2>6 DEF CountDown
    <3>2. QED
      BY <2>6, <3>1 DEF CountDown
  <2>8. OneOn(t, u, {RSI, RDI}, w)
    <3>1. Shape(t) /\ t.gpr = [r \in Reg |-> t.gpr[r]] /\ i.op \in StringOps
      BY <2>4 DEF Copied, StringOps
    <3>2. OneOn(t, u, Pointers(i.op), w)
      BY <3>1, IterationOn DEF u, w
    <3>3. QED
      BY <3>2 DEF Pointers
  <2>9. l + w = (k + 1) * w /\ l \in Nat /\ l + w <= n * w
    <3>1. w * (k + 1) <= w * n
      BY <1>2, <1>3, <2>1, Times
    <3>2. QED
      BY <1>2, <1>3, <3>1
  <2> HIDE DEF l
  <2>10. a + l + w <= M /\ d + l + w <= M /\ (d <= a \/ a + l + w <= d)
    <3> DEFINE z == n * w
    <3>1. z \in Nat /\ l + w <= z /\ a + z <= M /\ d + z <= M /\ (d <= a \/ a + z <= d)
      BY <1>2, <1>3, <1>7, <2>9
    <3> HIDE DEF z
    <3>2. QED
      BY <1>1, <1>2, <1>3, <2>9, <3>1
  <2>11. t.gpr[RSI] = a + l /\ t.gpr[RDI] = d + l
    <3>1. a + l \in 0..(M - 1) /\ d + l \in 0..(M - 1)
      BY <1>1, <1>2, <1>3, <2>9, <2>10
    <3>2. \A p \in 0..(M - 1) : p % M = p
      BY <1>1
    <3>3. QED
      BY <2>4, <3>1, <3>2 DEF Copied, At, M, l
  <2>12. Mem(t, l)
    BY <2>4 DEF Copied, l
  <2>13. /\ u.mem \in Memory
         /\ \A x \in 0..(MemBytes - 1) :
              u.mem[x] = IF x \in (d + l)..(d + l + w - 1) THEN t.mem[(a + l) + (x - (d + l))] ELSE t.mem[x]
         /\ \A x \in (d + l)..(d + l + w - 1) : (a + l) + (x - (d + l)) \in 0..(MemBytes - 1)
    <3>1. a + l \in Nat /\ d + l \in Nat
      BY <1>1, <1>2, <2>9
    <3>2. Shape(t) /\ t.gpr = [r \in Reg |-> t.gpr[r]] /\ t.mem \in Memory
      BY <2>4 DEF Copied
    <3>3. QED
      BY <2>7, <2>10, <2>11, <3>1, <3>2, ElementCopied DEF u, w, M
  <2>14. Mem(u, l + w)
    <3> SUFFICES ASSUME NEW x \in 0..(MemBytes - 1)
                 PROVE  u.mem[x] = IF x \in d..(d + (l + w) - 1) THEN s.mem[a + (x - d)] ELSE s.mem[x]
      BY <2>13
    <3>0. x \in Nat /\ a \in Nat /\ d \in Nat
      BY <1>1, <1>2, PagesAssumption DEF MemBytes
    <3>1. CASE x \in (d + l)..(d + l + w - 1)
      <4> DEFINE y == (a + l) + (x - (d + l))
      <4>1. y = a + (x - d) /\ y \in 0..(MemBytes - 1) /\ u.mem[x] = t.mem[y]
        BY <2>9, <2>13, <3>0, <3>1
      <4>2. y \notin d..(d + l - 1)
        BY <1>3, <2>9, <2>10, <3>0, <3>1
      <4>3. x \in d..(d + (l + w) - 1)
        BY <1>3, <2>9, <3>0, <3>1
      <4> HIDE DEF y
      <4>4. t.mem[y] = s.mem[y]
        BY <2>12, <4>1, <4>2
      <4>5. QED
        BY <4>1, <4>3, <4>4
    <3>2. CASE x \notin (d + l)..(d + l + w - 1)
      <4>1. u.mem[x] = t.mem[x]
        BY <2>13, <3>2
      <4>2. x \in d..(d + (l + w) - 1) <=> x \in d..(d + l - 1)
        BY <1>3, <2>9, <3>0, <3>2
      <4>3. QED
        BY <2>12, <4>1, <4>2
    <3>3. QED
      BY <3>1, <3>2
  <2> DEFINE q == f[k + 1]
  <2>15. Only(u, q, {"gpr"}) /\ q.gpr = [u.gpr EXCEPT ![RCX] = At(u.gpr[RCX], -1)]
    BY <2>7, <2>8, GprOnly DEF OneOn, Shape, Fields
  <2>16. Shape(q) /\ q.mem = u.mem /\ q.flags = u.flags
    BY <2>15 DEF Only, Fields
  <2> HIDE DEF q
  <2>17. "DF" \notin t.flags /\ strIndexDelta(t, w) = w
    BY <2>4 DEF Copied, strIndexDelta
  <2>18. q.gpr = [r \in Reg |-> q.gpr[r]] /\ q.gpr[RSI] = At(t.gpr[RSI], w) /\ q.gpr[RDI] = At(t.gpr[RDI], w)
    <3>1. u.gpr = [r \in Reg |-> u.gpr[r]] /\ u.gpr[RSI] = At(t.gpr[RSI], w) /\ u.gpr[RDI] = At(t.gpr[RDI], w)
      BY <2>7, <2>8, <2>17 DEF OneOn
    <3>2. RSI \in Reg /\ RDI \in Reg /\ RSI # RCX /\ RDI # RCX
      BY DEF RSI, RDI, RCX, Reg
    <3>3. QED
      BY <2>15, <3>1, <3>2
  <2>19. q.gpr[RSI] = At(a, (k + 1) * w) /\ q.gpr[RDI] = At(d, (k + 1) * w)
    <3>1. a \in Int /\ d \in Int /\ w \in Int
      BY <1>1, <1>2, <1>3
    <3>2. At(At(a, k * w), w) = At(a, (k + 1) * w) /\ At(At(d, k * w), w) = At(d, (k + 1) * w)
      BY <3>1, OneMore
    <3>3. t.gpr[RSI] = At(a, k * w) /\ t.gpr[RDI] = At(d, k * w)
      BY <2>4 DEF Copied
    <3>4. QED
      BY <2>18, <3>2, <3>3
  <2>20. Mem(q, (k + 1) * w)
    BY <2>9, <2>14, <2>16
  <2>21. "DF" \notin q.flags
    BY <2>8, <2>16, <2>17 DEF OneOn
  <2>22. QED
    BY <2>16, <2>18, <2>19, <2>20, <2>21 DEF Copied, q
<1>10. n \in S
  <2> HIDE DEF S
  <2>1. QED
    BY <1>2, <1>8, <1>9, NatSetInduction
<1>11. Copied(f[n], n)
  <2> HIDE DEF Copied
  <2>1. n \in 0..n
    BY <1>2
  <2>2. f[n].err = "ok"
    BY <1>6
  <2>3. QED
    BY <1>10, <2>1, <2>2
<1>12. QED
  BY <1>6, <1>11 DEF n, w, a, d

=============================================================================
