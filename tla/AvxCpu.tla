------------------------------- MODULE AvxCpu -------------------------------
(***************************************************************************)
(* internal/cpu/vex.go and the VEX half of twobyte.go (decodeVexInsn and   *)
(* vexBinop).  A VEX instruction has a third register vvvv and a length    *)
(* bit L.  A 128-bit result clears the upper half of its register; few of  *)
(* the instructions look at L, and for the others it changes nothing.      *)
(* An operator of a group is the closure that decodeVexInsn builds for it. *)
(* VexInsn has the tag of the decoded record, which makes EmuStart run the *)
(* hook of SYSCALL in place of that closure (see Cpu).                     *)
(***************************************************************************)
EXTENDS SseCpu

(* decodeVEXPrefix and the part of decodeOne that lets the prefix replace  *)
(* the legacy ones, all but the segment overrides.  v holds the fields as  *)
(* they are stored: R, X, B and vvvv complemented.                         *)
(* Mutation: vvvv is used as it is stored.                                 *)
decodeVEXPrefixRaw(v) ==
    LET long == v.lead = "C4"
    IN [pfx |-> {"rex"} \cup When(v.R = 0, "rexR") \cup When(long /\ v.X = 0, "rexX")
                \cup When(long /\ v.B = 0, "rexB") \cup When(long /\ v.W = 1, "rexW")
                \cup <<{}, {"66"}, {"f3"}, {"f2"}>>[1 + v.pp],
        vvvv |-> v.vvvv, L |-> v.L = 1, map |-> IF long THEN v.map ELSE 1]
decodeVEXPrefix(v) ==
    LET long == v.lead = "C4"
    IN [pfx |-> {"rex"} \cup When(v.R = 0, "rexR") \cup When(long /\ v.X = 0, "rexX")
                \cup When(long /\ v.B = 0, "rexB") \cup When(long /\ v.W = 1, "rexW")
                \cup <<{}, {"66"}, {"f3"}, {"f2"}>>[1 + v.pp],
        vvvv |-> 15 - v.vvvv, L |-> v.L = 1, map |-> IF long THEN v.map ELSE 1]
(* The record that decodeVexInsn returns is made by vexFinish, which sets  *)
(* its length and its closure and leaves insnID the zero value, InsSyscall.*)
VexInsn(v, i) ==
    LET p == decodeVEXPrefix(v)
    IN [i EXCEPT !.pfx = (@ \cap {"fs", "gs"}) \cup p.pfx, !.vvvv = p.vvvv, !.L = p.L,
                 !.insnID = InsSyscall]

(* readYMMOp and writeYMMOp: the pair of the halves, 32 bytes of memory.   *)
readYMMOp(m, o) ==
    IF o.kind = "mem"
    THEN LET b == readChecked(m, effAddr(m, o), 32) IN <<SubSeq(b, 1, 16), SubSeq(b, 17, 32)>>
    ELSE <<m.xmm[o.reg], m.yhi[o.reg]>>
writeYMMOp(m, o, v) ==
    IF o.kind = "mem" THEN writeChecked(m, effAddr(m, o), v[1] \o v[2])
                      ELSE writeYMM(m, o.reg, v[1], v[2])
execXMM3(m, i, F(_, _)) ==
    IF CanRead(m, RmOf(i), 16)
    THEN writeXMMOp(m, RegOf(i), F(m.xmm[i.vvvv], readXMMOp(m, RmOf(i))), TRUE) ELSE Fault(m)
execYMM(m, dst, src, F(_, _)) ==
    IF CanRead(m, dst, 32) /\ CanRead(m, src, 32)
    THEN writeYMMOp(m, dst, F(readYMMOp(m, dst), readYMMOp(m, src))) ELSE Fault(m)
(* f is applied to the halves of the register and of the operand.          *)
execYMM3(m, i, F(_, _)) ==
    IF CanRead(m, RmOf(i), 32)
    THEN LET b == readYMMOp(m, RmOf(i))
         IN writeYMMOp(m, RegOf(i), <<F(m.xmm[i.vvvv], b[1]), F(m.yhi[i.vvvv], b[2])>>)
    ELSE Fault(m)
(* Two operands, VEX: the source and the destination's old value.          *)
Xmm2(m, i, F(_, _)) == execXMM(m, RegOf(i), RmOf(i), TRUE, F)

-----------------------------------------------------------------------------
(* 0x10, 0x11, 0x28, 0x29, 0x6F and 0x7F: whole registers, the scalar      *)
(* forms of 0x10 and 0x11 too.                                             *)
VexMove(m, i) ==
    LET dst == IF i.toReg THEN RegOf(i) ELSE RmOf(i)
        src == IF i.toReg THEN RmOf(i) ELSE RegOf(i)
    IN IF i.L THEN execYMM(m, dst, src, LAMBDA d, s : s)
              ELSE execXMM(m, dst, src, TRUE, LAMBDA d, s : s)
(* 0x2A, 0x2C and 0x2D: the other lanes of a conversion come from vvvv.    *)
VexConvertInt(m, i) ==
    LET w == Width(i)  n == FloatBytes(i)
    IN Reading(m, RmOf(i), w, LAMBDA v :
           writeXMMVex(m, RegOf(i).reg, SetLow(n, m.xmm[i.vvvv], ToFloat(2 * Signed(v, w), n))))
VexConvertToInt(m, i) ==
    LET n == FloatBytes(i)
        mode == IF i.op = "cvtt" THEN "trunc" ELSE "even"
    IN IF CanRead(m, RmOf(i), 16)
       THEN writeOperand(m, RegOf(i), Width(i), ToInt(mode, n, Low(n, readXMMOp(m, RmOf(i)))) % Modulus(8))
       ELSE Fault(m)
(* 0x2E and 0x2F.                                                          *)
VexComis(m, i) == Comis(m, i)
(* 0x5A.                                                                   *)
VexConvertFloat(m, i) ==
    execXMM3(m, i, LAMBDA a, s :
        CASE Kind(i) = "ss" -> SetLow(8, a, FConvert(4, 8, Low(4, s)))
          [] Kind(i) = "sd" -> SetLow(4, a, FConvert(8, 4, Low(8, s)))
          [] Kind(i) = "pd" -> PackedConvert("cvtpd2ps", s)
          [] Kind(i) = "ps" -> PackedConvert("cvtps2pd", s))
(* 0x51: VSQRT.  The 256-bit forms write the roots of the low half to both *)
(* halves; the double one reads 16 bytes.                                  *)
VexSqrt(m, i) ==
    LET k == Kind(i)  n == LaneBytes(k)
        root == PackedUnary("sqrt", n, readXMMOp(m, RmOf(i)))
    IN CASE k = "ss" -> Xmm2(m, i, LAMBDA d, s : ScalarUnary("sqrt", 4, d))
         [] k = "sd" -> Xmm2(m, i, LAMBDA d, s : SetLow(8, d, FSqrt(8, Low(8, s))))
         [] k \in {"pd", "ps"} /\ ~i.L -> Xmm2(m, i, LAMBDA d, s : PackedUnary("sqrt", n, s))
         [] k \in {"pd", "ps"} /\ i.L ->
               IF CanRead(m, RmOf(i), IF k = "pd" THEN 16 ELSE 32)
               THEN writeYMMOp(m, RegOf(i), <<root, root>>) ELSE Fault(m)
(* 0x54 to 0x57.                                                           *)
VexLogic(m, i) ==
    IF i.L THEN execYMM3(m, i, LAMBDA a, b : PackedLogic(i.op, a, b))
           ELSE execXMM3(m, i, LAMBDA a, b : PackedLogic(i.op, a, b))
(* 0x58: VADD, whose 256-bit forms add the low halves twice.               *)
VexAdd(m, i) ==
    LET k == Kind(i)
        sum == PackedFloat("add", LaneBytes(k), m.xmm[i.vvvv], readXMMOp(m, RmOf(i)))
    IN IF k \in {"pd", "ps"} /\ i.L
       THEN IF CanRead(m, RmOf(i), 32) THEN writeYMMOp(m, RegOf(i), <<sum, sum>>) ELSE Fault(m)
       ELSE execXMM3(m, i, LAMBDA a, b : FloatArith(k, "add", a, b))
(* 0x59 and 0x5C to 0x5F.                                                  *)
vexBinop(m, i) ==
    IF Kind(i) \in {"pd", "ps"} /\ i.L
    THEN execYMM3(m, i, LAMBDA a, b : FloatArith(Kind(i), i.op, a, b))
    ELSE execXMM3(m, i, LAMBDA a, b : FloatArith(Kind(i), i.op, a, b))

-----------------------------------------------------------------------------
(* 0x6E and 0x7E; 0x70.                                                    *)
VexMovdQ(m, i) ==
    CASE i.op = "movdLoad" ->
            Reading(m, RmOf(i), GprWidth(i), LAMBDA v :
                writeXMMVex(m, RegOf(i).reg, FromQword(v) \o Zeros(8)))
      [] i.op = "movq" /\ Kind(i) = "ss" -> Xmm2(m, i, LAMBDA d, s : Lo(s) \o Zeros(8))
      [] i.op = "movdStore" -> writeOperand(m, RmOf(i), GprWidth(i), Qword(m.xmm[RegOf(i).reg]))
VexPshuf(m, i) ==
    Xmm2(m, i, LAMBDA d, s :
        PackedShuffle(CASE Kind(i) = "ss" -> "pshufhw"
                        [] Kind(i) = "sd" -> "pshuflw"
                        [] OTHER -> "pshufd", s, i.imm))
(* 0xD4, 0xDB, 0xDF, 0xEB, 0xEF and 0xF8 to 0xFE, at any L.                *)
VexPackedD4 == [vpaddq |-> <<"padd", 8>>, vpand |-> <<"pand", 1>>, vpandn |-> <<"pandn", 1>>,
                vpor |-> <<"por", 1>>, vpxor |-> <<"pxor", 1>>, vpsubb |-> <<"psub", 1>>,
                vpsubw |-> <<"psub", 2>>, vpsubd |-> <<"psub", 4>>, vpsubq |-> <<"psub", 8>>,
                vpaddb |-> <<"padd", 1>>, vpaddw |-> <<"padd", 2>>, vpaddd |-> <<"padd", 4>>]
(* Map 2, 0x28, 0x29, 0x37 and 0x40.                                       *)
VexPacked28 == [vpmuldq |-> <<"pmuldq", 8>>, vpcmpeqq |-> <<"pcmpeq", 8>>,
                vpcmpgtq |-> <<"pcmpgt", 8>>, vpmulld |-> <<"pmull", 4>>]
VexPacked(m, i, table) ==
    LET row == table[i.op] IN execXMM3(m, i, LAMBDA a, b : Packed(row[1], row[2], a, b))
(* Map 2, 0x00 and 0x17.                                                   *)
VexPshufb(m, i) == execXMM3(m, i, LAMBDA a, b : Pshufb(a, b))
VexPtest(m, i) == Ptest(m, i)
(* Map 2, 0x18 and 0x19: VBROADCASTSS and VBROADCASTSD.                    *)
VexBroadcast(m, i) ==
    LET v == Broadcast(i.lane, Low(i.lane, readXMMOp(m, RmOf(i))))
    IN CASE ~CanRead(m, RmOf(i), 16) -> Fault(m)
         [] CanRead(m, RmOf(i), 16) /\ i.L -> writeYMMOp(m, RegOf(i), <<v, v>>)
         [] OTHER -> writeXMMVex(m, RegOf(i).reg, v)

(* Map 3: VPERMILPS; VPERM2F128; VINSERT and VEXTRACT of 128 bits.         *)
VexPermil(m, i) == Xmm2(m, i, LAMBDA d, s : PackedShuffle("pshufd", s, i.imm))
Ymm1(m, i) == <<m.xmm[i.vvvv], m.yhi[i.vvvv]>>
VexPerm128(m, i) ==
    IF CanRead(m, RmOf(i), 32)
    THEN writeYMMOp(m, RegOf(i), Vperm2f128(Ymm1(m, i), readYMMOp(m, RmOf(i)), i.imm)) ELSE Fault(m)
VexInsert128(m, i) ==
    IF CanRead(m, RmOf(i), 16)
    THEN writeYMMOp(m, RegOf(i), Vinsertf128(Ymm1(m, i), readXMMOp(m, RmOf(i)), i.imm)) ELSE Fault(m)
VexExtract128(m, i) ==
    writeXMMOp(m, RmOf(i), Vextractf128(readYMMOp(m, RegOf(i)), i.imm), TRUE)
(* VPALIGNR, VPINSR and VINSERTPS.                                         *)
VexAlignRight(m, i) ==
    IF CanRead(m, RmOf(i), 16) /\ PalignrPanics(i.imm) THEN Fail(m, "panic")
    ELSE execXMM3(m, i, LAMBDA a, b : Palignr(a, b, i.imm))
VexInsertLane(m, i) ==
    Reading(m, RmOf(i), InsertWidth(i), LAMBDA v :
        writeXMMVex(m, RegOf(i).reg, Pinsr(i.lane, m.xmm[i.vvvv], v, i.imm)))
VexInsertSingle(m, i) ==
    execXMM3(m, i, LAMBDA a, s : Insertps(a, Lanes(s, 4)[Ctl(i.imm, 4)], i.imm))
-----------------------------------------------------------------------------
(* The groups of decodeVexInsn, and exec of the record it returns.         *)
VexGroups == {"VexMove", "VexConvertInt", "VexConvertToInt", "VexComis", "VexConvertFloat",
    "VexSqrt", "VexLogic", "VexAdd", "vexBinop", "VexMovdQ", "VexPshuf", "VexPshufb",
    "VexPtest", "VexBroadcast", "VexPermil", "VexPerm128", "VexInsert128", "VexExtract128",
    "VexAlignRight", "VexInsertLane", "VexInsertSingle", "VexPackedD4", "VexPacked28"}
VexExec(m, i) ==
    CASE i.group = "VexMove" -> VexMove(m, i)
      [] i.group = "VexConvertInt" -> VexConvertInt(m, i)
      [] i.group = "VexConvertToInt" -> VexConvertToInt(m, i)
      [] i.group = "VexComis" -> VexComis(m, i)
      [] i.group = "VexConvertFloat" -> VexConvertFloat(m, i)
      [] i.group = "VexSqrt" -> VexSqrt(m, i)
      [] i.group = "VexLogic" -> VexLogic(m, i)
      [] i.group = "VexAdd" -> VexAdd(m, i)
      [] i.group = "vexBinop" -> vexBinop(m, i)
      [] i.group = "VexMovdQ" -> VexMovdQ(m, i)
      [] i.group = "VexPshuf" -> VexPshuf(m, i)
      [] i.group = "VexPshufb" -> VexPshufb(m, i)
      [] i.group = "VexPtest" -> VexPtest(m, i)
      [] i.group = "VexBroadcast" -> VexBroadcast(m, i)
      [] i.group = "VexPermil" -> VexPermil(m, i)
      [] i.group = "VexPerm128" -> VexPerm128(m, i)
      [] i.group = "VexInsert128" -> VexInsert128(m, i)
      [] i.group = "VexExtract128" -> VexExtract128(m, i)
      [] i.group = "VexAlignRight" -> VexAlignRight(m, i)
      [] i.group = "VexInsertLane" -> VexInsertLane(m, i)
      [] i.group = "VexInsertSingle" -> VexInsertSingle(m, i)
      [] i.group = "VexPackedD4" -> VexPacked(m, i, VexPackedD4)
      [] i.group = "VexPacked28" -> VexPacked(m, i, VexPacked28)
=============================================================================
