------------------------------- MODULE SseCpu -------------------------------
(***************************************************************************)
(* The SSE half of internal/cpu/twobyte.go (decodeSSE0F, decodeThreeByte38 *)
(* and decodeThreeByte3A) with the operand helpers of sse.go: what an SSE  *)
(* instruction does to a machine.  The mandatory prefix (F3, F2, 66 or     *)
(* none) selects the variant of an opcode; i.op names the opcode.          *)
(* An SSE instruction never touches the upper halves yhi (zu is false).    *)
(***************************************************************************)
EXTENDS IntegerCpu, VectorOps

(* readXMMOp: 16 bytes whatever the instruction uses of them; the zeros of *)
(* a failed read where the handler drops the error.                        *)
readXMMOp(m, o) ==
    IF o.kind = "mem" THEN readChecked(m, effAddr(m, o), 16) ELSE m.xmm[o.reg]
ReadOrZeros(m, o) == IF CanRead(m, o, 16) THEN readXMMOp(m, o) ELSE Zeros(16)
writeXMMOp(m, o, v, zu) ==
    CASE o.kind = "mem" -> writeChecked(m, effAddr(m, o), v)
      [] o.kind # "mem" /\ zu -> writeXMMVex(m, o.reg, v)
      [] OTHER -> writeXMM(m, o.reg, v)

(* execXMM reads the destination too, so a store needs it readable.        *)
execXMM(m, dst, src, zu, F(_, _)) ==
    IF CanRead(m, dst, 16) /\ CanRead(m, src, 16)
    THEN writeXMMOp(m, dst, F(readXMMOp(m, dst), readXMMOp(m, src)), zu)
    ELSE Fault(m)
(* The shape of most handlers: dst is the register of the ModRM byte, src  *)
(* its r/m, and a fault of src is the instruction's.                       *)
XmmOp(m, i, F(_, _)) == execXMM(m, RegOf(i), RmOf(i), FALSE, F)

IsPD(i) == "66" \in i.pfx
Kind(i) == CASE "f3" \in i.pfx -> "ss"
             [] "f2" \in i.pfx -> "sd"
             [] i.pfx \cap {"f2", "f3"} = {} /\ IsPD(i) -> "pd"
             [] OTHER -> "ps"
LaneBytes(kind) == IF kind \in {"ss", "ps"} THEN 4 ELSE 8
GprWidth(i) == IF "rexW" \in i.pfx THEN 8 ELSE 4
Merge(n, d, s) == [j \in 1..16 |-> IF j <= n THEN s[j] ELSE d[j]]

-----------------------------------------------------------------------------
(* Moves.  0x10: a MOVSS load clears the second lane only and keeps the    *)
(* upper half; a MOVSD load keeps the upper half.                          *)
MoveLoad(m, i) ==
    LET mem == RmOf(i).kind = "mem"
    IN XmmOp(m, i, LAMBDA d, s :
        CASE Kind(i) = "ss" /\ mem -> Merge(4, Merge(8, d, Zeros(16)), s)
          [] Kind(i) = "ss" /\ ~mem -> Merge(4, d, s)
          [] Kind(i) = "sd" -> Merge(8, d, s)
          [] OTHER -> s)
(* 0x11, the stores: a scalar one writes its lane only.                    *)
MoveStore(m, i) ==
    LET n == LaneBytes(Kind(i))  rm == RmOf(i)  src == m.xmm[RegOf(i).reg]
    IN CASE Kind(i) \in {"ss", "sd"} /\ rm.kind = "mem" ->
                writeChecked(m, effAddr(m, rm), SubSeq(src, 1, n))
         [] Kind(i) \in {"ss", "sd"} /\ rm.kind # "mem" ->
                writeXMM(m, rm.reg, Merge(n, m.xmm[rm.reg], src))
         [] OTHER -> execXMM(m, rm, RegOf(i), FALSE, LAMBDA d, s : s)
(* 0x28, 0x29 and 0x2B (aligned, and non-temporal), 0x6F and 0x7F (the     *)
(* integer ones, with a mandatory prefix).                                 *)
FullMove(m, i) ==
    CASE i.op = "movdq" /\ i.pfx \cap {"66", "f3"} = {} -> Fail(m, "error")
      [] i.toReg -> XmmOp(m, i, LAMBDA d, s : s)
      [] OTHER -> execXMM(m, RmOf(i), RegOf(i), FALSE, LAMBDA d, s : s)
(* 0x12, 0x13, 0x16 and 0x17: eight bytes of memory and one half of a      *)
(* register; a register operand is taken for the address 0.                *)
HalfMove(m, i) ==
    LET a == effAddr(m, RmOf(i))  x == RegOf(i).reg
    IN IF i.toReg
       THEN IF ~CanAccess(m, a, 8, "r") THEN Fault(m)
            ELSE writeXMM(m, x, IF i.high THEN Lo(m.xmm[x]) \o readChecked(m, a, 8)
                                          ELSE readChecked(m, a, 8) \o Hi(m.xmm[x]))
       ELSE writeChecked(m, a, IF i.high THEN Hi(m.xmm[x]) ELSE Lo(m.xmm[x]))
(* 0x14 and 0x15, UNPCKL and UNPCKH: a fault of the source is dropped.     *)
UnpackFloat(m, i) ==
    LET d == m.xmm[RegOf(i).reg]  s == ReadOrZeros(m, RmOf(i))
    IN writeXMM(m, RegOf(i).reg,
                PackedUnpack(IF i.high THEN "punpckh" ELSE "punpckl", IF IsPD(i) THEN 8 ELSE 4, d, s))
(* 0x6E, 0x7E and 0xD6: between a general register or memory and a lane.   *)
MovdQ(m, i) ==
    LET rm == RmOf(i)  x == RegOf(i).reg  low == Qword(m.xmm[x])
    IN CASE i.op = "movq" /\ Kind(i) = "ss" ->                       \* F3 0F 7E
                XmmOp(m, i, LAMBDA d, s : Lo(s) \o Zeros(8))
         [] i.op # "movq" /\ ~IsPD(i) -> Fail(m, "error")
         [] i.op = "movdLoad" /\ IsPD(i) ->                          \* 0x6E
                Reading(m, rm, GprWidth(i), LAMBDA v : writeXMM(m, x, FromQword(v) \o Zeros(8)))
         [] i.op = "movdStore" /\ IsPD(i) -> writeOperand(m, rm, GprWidth(i), low)
         [] i.op = "movqStore" /\ IsPD(i) ->                         \* 0xD6
                IF rm.kind = "mem" THEN writeChecked(m, effAddr(m, rm), Lo(m.xmm[x]))
                                   ELSE writeXMM(m, rm.reg, Lo(m.xmm[x]) \o Zeros(8))
(* 0xE7: MOVNTDQ stores at the address of its operand.                     *)
Movntdq(m, i) == IF IsPD(i) THEN writeChecked(m, effAddr(m, RmOf(i)), m.xmm[RegOf(i).reg])
                            ELSE Fail(m, "error")

-----------------------------------------------------------------------------
(* Conversions to and from a general register, 0x2A, 0x2C and 0x2D; F3 is  *)
(* the single one, anything else the double one.                           *)
FloatBytes(i) == IF Kind(i) = "ss" THEN 4 ELSE 8
(* Mutation: the destination is cleared before the source is read.         *)
ConvertIntClears(m, i) ==
    LET w == GprWidth(i)  n == FloatBytes(i)  x == RegOf(i).reg
    IN Reading([m EXCEPT !.xmm[x] = Zeros(16)], RmOf(i), w, LAMBDA v :
           writeXMM(m, x, SetLow(n, m.xmm[x], ToFloat(2 * Signed(v, w), n))))
ConvertInt(m, i) ==
    LET w == GprWidth(i)  n == FloatBytes(i)  x == RegOf(i).reg
    IN Reading(m, RmOf(i), w, LAMBDA v :
           writeXMM(m, x, SetLow(n, m.xmm[x], ToFloat(2 * Signed(v, w), n))))
ConvertToInt(m, i) ==
    LET n == FloatBytes(i)
        mode == IF i.op = "cvtt" THEN "trunc" ELSE "even"
    IN IF CanRead(m, RmOf(i), 16)
       THEN writeOperand(m, RegOf(i), GprWidth(i),
                         ToInt(mode, n, Low(n, readXMMOp(m, RmOf(i)))) % Modulus(8))
       ELSE Fault(m)
(* 0x5A and 0x5B: between the float formats, between dwords and singles.   *)
ConvertFloat(m, i) ==
    XmmOp(m, i, LAMBDA d, s :
        CASE Kind(i) = "ss" -> SetLow(8, d, FConvert(4, 8, Low(4, s)))
          [] Kind(i) = "sd" -> SetLow(4, d, FConvert(8, 4, Low(8, s)))
          [] Kind(i) = "pd" -> PackedConvert("cvtpd2ps", s)
          [] Kind(i) = "ps" -> PackedConvert("cvtps2pd", s))
ConvertDq(m, i) ==
    XmmOp(m, i, LAMBDA d, s :
        PackedConvert(CASE Kind(i) = "ss" -> "cvttps2dq"
                        [] Kind(i) # "ss" /\ IsPD(i) -> "cvtps2dq"
                        [] OTHER -> "cvtdq2ps", s))
(* 0xE6: between doubles and dwords.                                       *)
ConvertPd(m, i) ==
    XmmOp(m, i, LAMBDA d, s :
        PackedConvert(CASE Kind(i) = "ss" -> "cvtdq2pd"
                        [] Kind(i) = "sd" -> "cvtpd2dq"
                        [] OTHER -> "cvttpd2dq", s))
(* 0x2E and 0x2F: UCOMIS and COMIS set every flag of ArithFlags.           *)
Comis(m, i) ==
    LET n == IF IsPD(i) THEN 8 ELSE 4
    IN IF CanRead(m, RmOf(i), 16)
       THEN setFlags(m, ArithFlags,
                     comisFlags(n, Low(n, m.xmm[RegOf(i).reg]), Low(n, readXMMOp(m, RmOf(i)))))
       ELSE Fault(m)
(* 0x50: MOVMSK, which drops a fault of its source.                        *)
Movmsk(m, i) ==
    writeOperand(m, RegOf(i), 4, SignMask(ReadOrZeros(m, RmOf(i)), IF IsPD(i) THEN 8 ELSE 4))

-----------------------------------------------------------------------------
(* Floating-point arithmetic: 0x58, 0x59, 0x5C to 0x5F.                    *)
FloatArith(kind, op, d, s) ==
    IF kind \in {"ss", "sd"} THEN ScalarFloat(op, LaneBytes(kind), d, s)
                             ELSE PackedFloat(op, LaneBytes(kind), d, s)
SseArith(m, i) == XmmOp(m, i, LAMBDA d, s : FloatArith(Kind(i), i.op, d, s))
(* 0x51 to 0x53: RSQRT and RCP know only single lanes.  The single scalar  *)
(* ones take their argument from d; SQRTSD takes it from the source.       *)
SseUnary(m, i) ==
    LET k == CASE i.op = "sqrt" -> Kind(i)
               [] i.op # "sqrt" /\ Kind(i) = "ss" -> "ss"
               [] OTHER -> "ps"
    IN XmmOp(m, i, LAMBDA d, s :
        CASE k = "ss" -> ScalarUnary(i.op, 4, d)
          [] k = "sd" -> SetLow(8, d, FSqrt(8, Low(8, s)))
          [] OTHER -> PackedUnary(i.op, LaneBytes(k), s))
(* 0x54 to 0x57: AND, ANDN, OR and XOR of the whole registers.             *)
SseLogic(m, i) == XmmOp(m, i, LAMBDA d, s : PackedLogic(i.op, d, s))
(* 0x7C: HADD; 0xC2: CMP; 0xC6: SHUF.                                      *)
SseHadd(m, i) == XmmOp(m, i, LAMBDA d, s : Hadd(IF IsPD(i) THEN 8 ELSE 4, d, s))
SseCmp(m, i) ==
    LET n == LaneBytes(Kind(i))
    IN XmmOp(m, i, LAMBDA d, s :
        IF Kind(i) \in {"ss", "sd"} THEN ScalarCompare(i.imm, n, d, s)
                                    ELSE PackedFloatCompare(i.imm, n, d, s))
SseShuf(m, i) == XmmOp(m, i, LAMBDA d, s : IF IsPD(i) THEN Shufpd(d, s, i.imm) ELSE Shufps(d, s, i.imm))
(* 0x70: PSHUFHW, PSHUFLW and PSHUFD.                                      *)
Pshuf(m, i) ==
    XmmOp(m, i, LAMBDA d, s :
        PackedShuffle(CASE Kind(i) = "ss" -> "pshufhw"
                        [] Kind(i) = "sd" -> "pshuflw"
                        [] OTHER -> "pshufd", s, i.imm))

-----------------------------------------------------------------------------
(* The integer instructions whose handler is execXMM and a helper of       *)
(* sse.go, in the order of their opcodes: the operation and its lane.      *)
Packed60 == [punpcklbw |-> <<"punpckl", 1>>, punpcklwd |-> <<"punpckl", 2>>,
             punpckldq |-> <<"punpckl", 4>>, packsswb |-> <<"packss", 2>>,
             pcmpgtb |-> <<"pcmpgt", 1>>, pcmpgtw |-> <<"pcmpgt", 2>>,
             pcmpgtd |-> <<"pcmpgt", 4>>, packuswb |-> <<"packus", 2>>]
Packed68 == [punpckhbw |-> <<"punpckh", 1>>, punpckhwd |-> <<"punpckh", 2>>,
             punpckhdq |-> <<"punpckh", 4>>, packssdw |-> <<"packss", 4>>,
             punpcklqdq |-> <<"punpckl", 8>>, punpckhqdq |-> <<"punpckh", 8>>]
Packed74 == [pcmpeqb |-> <<"pcmpeq", 1>>, pcmpeqw |-> <<"pcmpeq", 2>>, pcmpeqd |-> <<"pcmpeq", 4>>]
PackedD4 == [paddq |-> <<"padd", 8>>, pmullw |-> <<"pmull", 2>>]
PackedD8 == [psubusb |-> <<"psubus", 1>>, psubusw |-> <<"psubus", 2>>, pminub |-> <<"pminu", 1>>,
             pand |-> <<"pand", 1>>, paddusb |-> <<"paddus", 1>>, paddusw |-> <<"paddus", 2>>,
             pmaxub |-> <<"pmaxu", 1>>, pandn |-> <<"pandn", 1>>, pavgb |-> <<"pavg", 1>>]
PackedE3 == [pavgw |-> <<"pavg", 2>>, pmulhuw |-> <<"pmulhu", 2>>, pmulhw |-> <<"pmulh", 2>>]
PackedE8 == [psubsb |-> <<"psubs", 1>>, psubsw |-> <<"psubs", 2>>, pminsw |-> <<"pmins", 2>>,
             por |-> <<"por", 1>>, paddsb |-> <<"padds", 1>>, paddsw |-> <<"padds", 2>>,
             pmaxsw |-> <<"pmaxs", 2>>, pxor |-> <<"pxor", 1>>]
PackedF4 == [pmuludq |-> <<"pmuludq", 8>>, pmaddwd |-> <<"pmaddwd", 4>>, psadbw |-> <<"psadbw", 8>>,
             psubb |-> <<"psub", 1>>, psubw |-> <<"psub", 2>>, psubd |-> <<"psub", 4>>,
             psubq |-> <<"psub", 8>>, paddb |-> <<"padd", 1>>, paddw |-> <<"padd", 2>>,
             paddd |-> <<"padd", 4>>]
(* The 0F 38 ones, which ask for no prefix.                                *)
Packed38 == [pmuldq |-> <<"pmuldq", 8>>, pcmpeqq |-> <<"pcmpeq", 8>>, pcmpgtq |-> <<"pcmpgt", 8>>,
             pminsb |-> <<"pmins", 1>>, pminsd |-> <<"pmins", 4>>, pminuw |-> <<"pminu", 2>>,
             pminud |-> <<"pminu", 4>>, pmaxsb |-> <<"pmaxs", 1>>, pmaxsd |-> <<"pmaxs", 4>>,
             pmaxuw |-> <<"pmaxu", 2>>, pmaxud |-> <<"pmaxu", 4>>, pmulld |-> <<"pmull", 4>>]

Packed(op, n, d, s) ==
    CASE op \in {"padd", "psub", "padds", "psubs", "paddus", "psubus"} -> PackedAdd(op, n, d, s)
      [] op \in {"pand", "pandn", "por", "pxor"} -> PackedLogic(op, d, s)
      [] op \in {"pmull", "pmulh", "pmulhu", "pmuludq", "pmuldq", "pmaddwd", "psadbw"} ->
            PackedMul(op, n, d, s)
      [] op \in {"pavg", "pminu", "pmaxu", "pmins", "pmaxs"} -> PackedMinMax(op, n, d, s)
      [] op \in {"pcmpeq", "pcmpgt"} -> PackedCompare(op, n, d, s)
      [] op \in {"punpckl", "punpckh"} -> PackedUnpack(op, n, d, s)
      [] op \in {"packss", "packus"} -> PackedPack(op, n, d, s)
SsePacked(m, i, table) ==
    LET row == table[i.op]
    IN IF table # Packed38 /\ ~IsPD(i) THEN Fail(m, "error")
       ELSE XmmOp(m, i, LAMBDA d, s : Packed(row[1], row[2], d, s))

(* 0x71 to 0x73: shifts by an immediate, of the register whose number is   *)
(* in the r/m operand (register 0 when that is memory).                    *)
ShiftImm(m, i) ==
    LET rm == decodeModRM(i)
        x == IF rm.kind = "reg" THEN rm.reg ELSE 0
        idx == i.mr.reg
    IN CASE ~IsPD(i) -> Fail(m, "error")
         [] IsPD(i) /\ (idx \in {2, 6} \/ (idx = 4 /\ i.lane # 8)) ->
               writeXMM(m, x, PackedShift(CASE idx = 2 -> "psrl" [] idx = 4 -> "psra" [] idx = 6 -> "psll",
                                          i.lane, m.xmm[x], i.imm))
         [] IsPD(i) /\ idx \in {3, 7} /\ i.lane = 8 ->
               writeXMM(m, x, ByteShift(IF idx = 3 THEN "psrldq" ELSE "pslldq", m.xmm[x], i.imm))
         [] OTHER -> Fail(m, "error")
(* 0xD1 to 0xD3, 0xE1, 0xE2, 0xF1 to 0xF3: by the low byte of the source.  *)
ShiftReg(m, i) ==
    IF ~IsPD(i) THEN Fail(m, "error")
    ELSE XmmOp(m, i, LAMBDA d, s : PackedShift(i.op, i.lane, d, Low(1, s)))

(* 0xC4, 0xC5 and 0F 3A 14 to 16, 20, 22: one lane in and out.  PEXTRB and *)
(* PEXTRW write four bytes, PINSRB reads four.                             *)
InsertWidth(i) == CASE i.lane = 1 -> 4 [] i.lane = 2 -> 2 [] OTHER -> i.lane
InsertLane(m, i) ==
    LET x == RegOf(i).reg
    IN IF i.lane = 2 /\ ~IsPD(i) THEN Fail(m, "error")
       ELSE Reading(m, RmOf(i), InsertWidth(i), LAMBDA v : writeXMM(m, x, Pinsr(i.lane, m.xmm[x], v, i.imm)))
ExtractWord(m, i) ==
    IF ~IsPD(i) THEN Fail(m, "error")
    ELSE writeOperand(m, RegOf(i), 4, Pextr(2, ReadOrZeros(m, RmOf(i)), i.imm))
ExtractLane(m, i) ==
    writeOperand(m, RmOf(i), IF i.lane = 8 THEN 8 ELSE 4, Pextr(i.lane, m.xmm[RegOf(i).reg], i.imm))
(* 0xD7: PMOVMSKB.                                                         *)
Pmovmskb(m, i) ==
    IF ~IsPD(i) THEN Fail(m, "error")
    ELSE writeOperand(m, RegOf(i), 4, SignMask(ReadOrZeros(m, RmOf(i)), 1))

(* 0xAE: LDMXCSR, STMXCSR and the fences.                                  *)
Mxcsr(m, i) ==
    CASE i.mr.reg = 2 -> Reading(m, RmOf(i), 4, LAMBDA v : [m EXCEPT !.mxcsr = v])
      [] i.mr.reg = 3 -> writeOperand(m, RmOf(i), 4, m.mxcsr)
      [] i.mr.reg \in {5, 6, 7} -> m
      [] OTHER -> Fail(m, "error")

-----------------------------------------------------------------------------
(* 0F 38: PSHUFB, PMADDUBSW (the source's bytes signed, the destination's  *)
(* not) and PTEST.                                                         *)
Pmaddubsw(d, s) ==
    FromLanes([k \in 1..8 |-> SatS(PairSum(LAMBDA x, y : x * Signed(y, 1), 1, 2, k, d, s), 2)], 2)
ptestFlags(d, s) ==
    When(PackedLogic("pand", s, d) = Zeros(16), "ZF") \cup When(PackedLogic("pandn", d, s) = Zeros(16), "CF")
Ptest(m, i) ==
    IF CanRead(m, RmOf(i), 16)
    THEN setFlags(m, ArithFlags, ptestFlags(m.xmm[RegOf(i).reg], readXMMOp(m, RmOf(i))))
    ELSE Fault(m)
ByteShuffle(m, i) ==
    XmmOp(m, i, LAMBDA d, s : IF i.op = "pshufb" THEN Pshufb(d, s) ELSE Pmaddubsw(d, s))

(* 0F 3A: the roundings.  ROUNDSS keeps the second lane of the source.     *)
Round(m, i) ==
    XmmOp(m, i, LAMBDA d, s :
        CASE i.op = "roundps" -> PackedRound(4, s, i.imm)
          [] i.op = "roundpd" -> PackedRound(8, s, i.imm)
          [] i.op = "roundss" -> SetLow(4, Merge(8, d, s), RoundLane(4, Low(4, s), i.imm))
          [] i.op = "roundsd" -> SetLow(8, d, RoundLane(8, Low(8, s), i.imm)))
(* PALIGNR, INSERTPS, DPPS and DPPD.                                       *)
AlignRight(m, i) ==
    IF CanRead(m, RmOf(i), 16) /\ PalignrPanics(i.imm) THEN Fail(m, "panic")
    ELSE XmmOp(m, i, LAMBDA d, s : Palignr(d, s, i.imm))
InsertSingle(m, i) ==
    XmmOp(m, i, LAMBDA d, s : Insertps(d, Lanes(s, 4)[Ctl(i.imm, 4)], i.imm))
Dot(m, i) == XmmOp(m, i, LAMBDA d, s : DotProduct(i.lane, d, s, i.imm))
=============================================================================
