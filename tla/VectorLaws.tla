----------------------------- MODULE VectorLaws -----------------------------
(***************************************************************************)
(* Programs of SSE and AVX instructions and what they must compute.  Their *)
(* operands a and b are in registers 1 and 2.  The engine never calls the  *)
(* closure of an AVX instruction (see Cpu), so the laws of those closures  *)
(* apply them, with VexExec, to a state that an execution reaches.         *)
(***************************************************************************)
EXTENDS GuestCode
Seqs == INSTANCE SequencesExt

(* An instruction of two vector registers, or of one and memory; by its    *)
(* mnemonic when it is one of the tables of SseCpu.                        *)
Xx(group, op, pfx, d, s) ==
    I(group, [op |-> op, pfx |-> pfx \cup (IF d > 7 THEN {"rexR"} ELSE {}) \cup (IF s > 7 THEN {"rexB"} ELSE {})]
             @@ RegReg(d % 8, s % 8))
TableOf(name) ==
    CASE name \in DOMAIN Packed60 -> "Packed60" [] name \in DOMAIN Packed68 -> "Packed68"
      [] name \in DOMAIN Packed74 -> "Packed74" [] name \in DOMAIN PackedD4 -> "PackedD4"
      [] name \in DOMAIN PackedD8 -> "PackedD8" [] name \in DOMAIN PackedE3 -> "PackedE3"
      [] name \in DOMAIN PackedE8 -> "PackedE8" [] name \in DOMAIN PackedF4 -> "PackedF4"
      [] name \in DOMAIN Packed38 -> "Packed38"
Sse(name, d, s) == Xx(TableOf(name), name, {"66"}, d, s)
MovX(d, s) == Xx("FullMove", "movaps", {}, d, s)
(* d := s op t.                                                            *)
To(d, s, name, t) == <<MovX(d, s), Sse(name, d, t)>>
Imm(i, imm) == [i EXCEPT !.imm = imm]
(* Shifts by an immediate: of lanes of n bytes, of the whole register.     *)
ShiftBy(idx, n, x, k) ==
    I("ShiftImm", [lane |-> n, imm |-> k, pfx |-> {"66"} \cup (IF x > 7 THEN {"rexB"} ELSE {})]
                  @@ RegReg(idx, x % 8))
Srl(n, x, k) == ShiftBy(2, n, x, k)
Sra(n, x, k) == ShiftBy(4, n, x, k)
Sll(n, x, k) == ShiftBy(6, n, x, k)
Srldq(x, k) == ShiftBy(3, 8, x, k)
Slldq(x, k) == ShiftBy(7, 8, x, k)
(* A VEX instruction d := s op t.                                          *)
PrefixCode(pfx) == CASE "66" \in pfx -> 1 [] "f3" \in pfx -> 2 [] "f2" \in pfx -> 3 [] OTHER -> 0
Vex(i, s, L, W) ==
    VexInsn([lead |-> "C4", R |-> IF "rexR" \in i.pfx THEN 0 ELSE 1, X |-> 1,
             B |-> IF "rexB" \in i.pfx THEN 0 ELSE 1, W |-> W, pp |-> PrefixCode(i.pfx),
             vvvv |-> 15 - s, L |-> L, map |-> 1], i)
SetCc(cc, r) == I("Setcc", [cc |-> cc] @@ Pfx({"rex"}) @@ RegReg(0, r))

(* Operands: lanes at their edges, the least (the NaN of floats) and the   *)
(* greatest dwords among them.                                             *)
Ones == [j \in 1..16 |-> Modulus(1) - 1]
Ramp == [j \in 1..16 |-> (j + j \div 4) % Modulus(1)]
Mixed == [j \in 1..16 |-> (3 * j + j \div 2) % Modulus(1)]
Least == [j \in 1..16 |-> IF j % 4 = 0 THEN signBit(1) ELSE 0]
Greatest == [j \in 1..16 |-> IF j % 4 = 0 THEN signBit(1) - 1 ELSE Modulus(1) - 1]
Units == [j \in 1..16 |-> IF j % 4 = 1 THEN 1 ELSE 0]
Some == {Zeros(16), Ones, Ramp, Mixed, Least, Greatest}
Two == Some \X Some
V(ab) == [Fresh EXCEPT !.xmm[1] = ab[1], !.xmm[2] = ab[2]]
Px(ab, c) == [w |-> 4, va |-> ab[1], vb |-> ab[2], c |-> c]
Pn(n, a, k) == [w |-> n, va |-> a, vb |-> a, c |-> k]
X(r) == m.xmm[r]
Suffix(n) == CASE n = 1 -> 1 [] n = 2 -> 2 [] n = 4 -> 3

-----------------------------------------------------------------------------
(* Comparisons as masks, minima and maxima.                                *)
MaskRuns ==
    LET gt == <<"pcmpgtb", "pcmpgtw", "pcmpgtd">>     eq == <<"pcmpeqb", "pcmpeqw", "pcmpeqd">>
        max == <<"pmaxsb", "pmaxsw", "pmaxsd">>       min == <<"pminsb", "pminsw", "pminsd">>
        add == <<"paddb", "paddw", "paddd">>
    IN {Program("mask",
            To(3, 1, gt[k], 2) \o To(4, 2, gt[k], 1) \o To(5, 1, eq[k], 2)
            \o To(6, 1, "pand", 3) \o To(7, 3, "pandn", 2) \o <<Sse("por", 7, 6)>>
            \o To(8, 1, max[k], 2) \o To(9, 1, min[k], 2) \o To(10, 8, add[k], 9) \o To(11, 1, add[k], 2),
            V(ab), Px(ab, k)) : ab \in Two, k \in 1..3}
(* Of a > b, b > a and a = b exactly one mask is set in each lane, the     *)
(* mask selects the maximum, and minimum and maximum add up to the sum.    *)
MasksSelect ==
    Done("mask") =>
        /\ \A j \in 1..16 : {X(3)[j], X(4)[j], X(5)[j]} = {0, Modulus(1) - 1}
                            /\ X(3)[j] + X(4)[j] + X(5)[j] = Modulus(1) - 1
        /\ X(7) = X(8) /\ X(10) = X(11)

(* Saturating sums and differences, averages.                              *)
SaturateRuns ==
    LET subus == <<"psubusb", "psubusw">>  addus == <<"paddusb", "paddusw">>
        min == <<"pminub", "pminuw">>      max == <<"pmaxub", "pmaxuw">>
        subs == <<"psubsb", "psubsw">>     adds == <<"paddsb", "paddsw">>
        add == <<"paddb", "paddw">>        sub == <<"psubb", "psubw">>
        avg == <<"pavgb", "pavgw">>
    IN {Program("saturate",
            To(3, 1, subus[k], 2) \o To(4, 1, min[k], 2) \o <<Sse(add[k], 4, 3), Sse(addus[k], 3, 2)>>
            \o To(5, 1, max[k], 2) \o <<Sse("pcmpeqd", 7, 7)>> \o To(8, 1, "pxor", 7)
            \o To(9, 8, subs[k], 2) \o <<Sse("pxor", 9, 7)>> \o To(10, 1, adds[k], 2)
            \o To(11, 8, avg[k], 2) \o To(12, 2, "pxor", 7) \o <<Sse(avg[k], 12, 1)>>
            \o To(13, 11, add[k], 12), V(ab), Px(ab, k)) : ab \in Two, k \in 1..2}
(* a -' b + min(a, b) = a and (a -' b) +' b = max(a, b) for the unsigned   *)
(* saturating operations; NOT (NOT a -' b) = a +' b for the signed ones;   *)
(* and the averages of (NOT a, b) and (a, NOT b) add up to all ones or one *)
(* more, as each of them rounds up.                                        *)
SaturationBalances ==
    Done("saturate") =>
        LET n == run.p.c
        IN /\ X(4) = run.p.va /\ X(3) = X(5) /\ X(9) = X(10)
           /\ \A k \in DOMAIN Lanes(X(13), n) :
                  LET odd == (Lanes(run.p.va, n)[k] + Lanes(run.p.vb, n)[k]) % 2
                  IN Lanes(X(13), n)[k] = (Modulus(n) - odd) % Modulus(n)

-----------------------------------------------------------------------------
(* Unpack with the signs and pack again; pack and unpack again.            *)
PackRuns ==
    LET gt == <<"pcmpgtb", "pcmpgtw">>         low == <<"punpcklbw", "punpcklwd">>
        high == <<"punpckhbw", "punpckhwd">>   pack == <<"packsswb", "packssdw">>
        wider == <<"pcmpgtw", "pcmpgtd">>      max == <<"pmaxsw", "pmaxsd">>
        min == <<"pminsw", "pminsd">>
    IN {Program("pack",
            <<Sse("pxor", 3, 3), Sse(gt[k], 3, 1)>> \o To(4, 1, low[k], 3) \o To(5, 1, high[k], 3)
            \o <<Sse(pack[k], 4, 5)>> \o To(6, 1, pack[k], 2)
            \o <<Sse("pxor", 7, 7), Sse(gt[k], 7, 6)>> \o To(8, 6, low[k], 7)
            \o <<Sse("pcmpeqd", 9, 9), Srl(2 * k, 9, Bits(k) + 1)>> \o To(10, 1, min[k], 9)
            \o <<Sse("pcmpeqd", 11, 11), Sse("pxor", 9, 11), Sse(max[k], 10, 9)>>
            \o <<Sse("pxor", 12, 12)>> \o To(13, 1, "punpcklbw", 12) \o To(14, 1, "punpckhbw", 12)
            \o <<Sse("packuswb", 13, 14)>>,
            V(ab), Px(ab, k)) : ab \in Two, k \in 1..2}
(* Packing undoes unpacking, signed and unsigned; a lane that does not fit *)
(* becomes the nearest that does.                                          *)
PacksUndo ==
    Done("pack") => X(4) = run.p.va /\ X(8) = X(10) /\ X(13) = run.p.va

(* Products of words, in halves, widened, and summed.                      *)
MultiplyRuns ==
    {Program("products",
        To(3, 1, "pmullw", 2) \o To(4, 1, "pmulhw", 2) \o To(5, 3, "punpcklwd", 4)
        \o <<Sse("pxor", 6, 6), Sse("pcmpgtw", 6, 1), Sse("pxor", 8, 8), Sse("pcmpgtw", 8, 2)>>
        \o To(7, 1, "punpcklwd", 6) \o To(9, 2, "punpcklwd", 8) \o <<Sse("pmulld", 7, 9)>>
        \o To(10, 1, "pmulhuw", 2) \o To(11, 6, "pand", 2) \o To(12, 8, "pand", 1)
        \o To(13, 4, "paddw", 11) \o <<Sse("paddw", 13, 12)>>, V(ab), Px(ab, 0)) : ab \in Two}
    \cup {Program("sums",
        <<Sse("pcmpeqd", 3, 3), Srl(4, 3, Bits(2))>> \o To(4, 1, "pand", 3) \o To(5, 3, "pandn", 1)
        \o <<Sse("pmaddwd", 4, 2), Sse("pmaddwd", 5, 2), Sse("paddd", 4, 5)>> \o To(5, 1, "pmaddwd", 2)
        \o To(6, 1, "psubusb", 2) \o To(7, 2, "psubusb", 1)
        \o <<Sse("por", 6, 7), Sse("pxor", 8, 8), Sse("psadbw", 6, 8)>> \o To(7, 1, "psadbw", 2)
        \o <<Sse("pcmpeqd", 9, 9), Srl(2, 9, Bits(1))>> \o To(10, 1, "pand", 9) \o To(11, 9, "pandn", 1)
        \o <<Xx("ByteShuffle", "pmaddubsw", {"66"}, 10, 2), Xx("ByteShuffle", "pmaddubsw", {"66"}, 11, 2),
             Sse("paddsw", 10, 11), MovX(11, 1), Xx("ByteShuffle", "pmaddubsw", {"66"}, 11, 2)>>,
        V(ab), Px(ab, 0)) : ab \in Two}
    \cup {Program("dwords",
        <<Xx("MovdQ", "movdStore", {"66"}, 1, RAX), Xx("MovdQ", "movdStore", {"66"}, 2, RCX),
          I("Movsxd", Sized(8) @@ RegReg(RSI, RAX)), I("Movsxd", Sized(8) @@ RegReg(RDI, RCX)),
          I("Imul", [form |-> "two"] @@ Sized(8) @@ RegReg(RAX, RCX)),
          I("Imul", [form |-> "two"] @@ Sized(8) @@ RegReg(RSI, RDI))>>
        \o To(3, 1, "pmuludq", 2) \o To(4, 1, "pmuldq", 2)
        \o <<Xx("MovdQ", "movdStore", {"66", "rexW"}, 3, RDX), Xx("MovdQ", "movdStore", {"66", "rexW"}, 4, RBX)>>,
        V(ab), Px(ab, 0)) : ab \in Two}
(* PMULLW and PMULHW are the halves of the product PMULLD gives of the     *)
(* widened words, and PMULHUW differs from PMULHW by the operands whose    *)
(* partner is negative; PMADDWD and PMADDUBSW are the sums of their even   *)
(* and odd products, the latter saturating once; PSADBW sums the distances;*)
(* PMULUDQ and PMULDQ agree with the IMUL of the same dwords.              *)
ProductsAgree ==
    /\ Done("products") => X(5) = X(7) /\ X(10) = X(13)
    /\ Done("sums") => X(4) = X(5) /\ X(6) = X(7) /\ X(10) = X(11)
    /\ Done("dwords") => m.gpr[RAX] = m.gpr[RDX] /\ m.gpr[RSI] = m.gpr[RBX]

-----------------------------------------------------------------------------
(* Shifts of lanes, by an immediate and by a register; byte shifts.        *)
CountIn(k) == [j \in 1..16 |-> IF j = 1 THEN k ELSE 0]
ShiftRuns ==
    LET gt == <<"pcmpgtb", "pcmpgtw", "pcmpgtd">>
        Reg1(op, n, d, s) == [Xx("ShiftReg", op, {"66"}, d, s) EXCEPT !.lane = n]
    IN UNION {{Program("shift",
            <<MovX(3, 1), Srl(n, 3, k), Sll(n, 3, k), MovX(4, 1), Sll(n, 4, k), Srl(n, 4, k)>>
            \o (IF n = 8 THEN <<>>
                ELSE <<Sse("pxor", 5, 5), Sse(gt[Suffix(n)], 5, 1)>> \o To(6, 1, "pxor", 5)
                     \o <<Srl(n, 6, k), Sse("pxor", 6, 5), MovX(7, 1), Sra(n, 7, k)>>)
            \o (IF k >= Modulus(1) THEN <<>>
                ELSE <<MovX(8, 1), Reg1("psll", n, 8, 2), Reg1("psrl", n, 8, 2)>>
                     \o (IF n = 8 THEN <<>> ELSE <<MovX(9, 1), Reg1("psra", n, 9, 2)>>)),
            V(<<a, CountIn(k % Modulus(1))>>), Pn(n, a, k)) :
            a \in Some, k \in {0, 1, Modulus(1) - 1} \cup ((Bits(n) - 1)..(Bits(n) + 1))} : n \in {2, 4, 8}}
(* Shifting right and back clears the low bits of each lane, left and back *)
(* the high ones, a count of the width or more clears all; PSRA is PSRL of *)
(* the complement where the lane is negative; a count in a register shifts *)
(* as an immediate does.                                                   *)
VectorShiftsCompose ==
    Done("shift") =>
        LET p == run.p  n == p.w  k == IF p.c > Bits(n) THEN Bits(n) ELSE p.c
            Each(F(_)) == FromLanes([j \in DOMAIN Lanes(p.va, n) |-> F(Lanes(p.va, n)[j])], n)
        IN /\ X(3) = Each(LAMBDA x : x - (x % 2^k))
           /\ X(4) = Each(LAMBDA x : x % 2^(Bits(n) - k))
           /\ n # 8 => X(6) = X(7)
           /\ p.c < Modulus(1) => X(8) = X(4) /\ (n # 8 => X(9) = X(7))

AlignRuns ==
    {Program("align",
        <<MovX(3, 1), Imm(Xx("AlignRight", "", {"66"}, 3, 2), k), MovX(4, 2), Srldq(4, k)>>
        \o (IF k > 16 THEN <<>> ELSE <<MovX(5, 1), Slldq(5, 16 - k), Sse("por", 4, 5)>>),
        V(<<Ramp, b>>), Px(<<Ramp, b>>, k)) : b \in {Mixed, Greatest}, k \in (0..16) \cup {32, 40}}
(* PALIGNR by k bytes is the low part of one register and the high part of *)
(* the other, as PSRLDQ and PSLLDQ cut them; from 32 on it is zero.        *)
AlignJoins == Done("align") => X(3) = X(4)

-----------------------------------------------------------------------------
(* Lanes in and out of general registers.                                  *)
LaneRuns ==
    UNION {{Program("lane",
        <<MovX(3, 1), [Xx("InsertLane", "", pfx, 3, RCX) EXCEPT !.lane = n, !.imm = k],
          [Xx("ExtractLane", "", pfx, 3, RAX) EXCEPT !.lane = n, !.imm = k],
          Imm(Xx("ExtractWord", "", {"66"}, RDX, 3), k)>>,
        V(<<Ramp, Mixed>>), Pn(n, Ramp, k)) :
        k \in {0, 1, 16 \div n - 1, 16 \div n, 16 \div n + 1},
        pfx \in {{"66"} \cup (IF n = 8 THEN {"rexW"} ELSE {})}} : n \in {1, 2, 4, 8}}
(* PINSR replaces the lane that PEXTR reads back and no other, with the    *)
(* lane number modulo the lanes there are.                                 *)
LanesInOut ==
    Done("lane") =>
        LET p == run.p  n == p.w  at == 1 + (p.c % (16 \div n))
        IN /\ m.gpr[RAX] = Trunc(m.gpr[RCX], n)
           /\ n = 2 => m.gpr[RDX] = m.gpr[RAX]
           /\ \A j \in 1..(16 \div n) :
                  Lanes(X(3), n)[j] = IF j = at THEN m.gpr[RAX] ELSE Lanes(p.va, n)[j]

(* Shuffles: reversal and the rotations, by the control byte of PSHUF.     *)
Inverse4(imm) == CASE imm = 57 -> 147 [] imm = 147 -> 57 [] OTHER -> imm
ShuffleRuns ==
    {Program("shuffle",
        <<Imm(Xx("Pshuf", "", {"66"}, 3, 1), imm), MovX(4, 1), Imm(Xx("SseShuf", "", {}, 4, 1), imm),
          Imm(Xx("Pshuf", "", {"66"}, 5, 3), Inverse4(imm)),
          Imm(Xx("Pshuf", "", {"f3"}, 6, 1), imm), Imm(Xx("Pshuf", "", {"f2"}, 6, 6), imm),
          Imm(Xx("Pshuf", "", {"f3"}, 6, 6), Inverse4(imm)), Imm(Xx("Pshuf", "", {"f2"}, 6, 6), Inverse4(imm)),
          MovX(8, 1), [Xx("UnpackFloat", "", {}, 8, 2) EXCEPT !.high = high]>>
        \o To(9, 1, IF high THEN "punpckhdq" ELSE "punpckldq", 2)
        \o <<MovX(10, 1), [Xx("UnpackFloat", "", {"66"}, 10, 2) EXCEPT !.high = high]>>
        \o To(11, 1, IF high THEN "punpckhqdq" ELSE "punpcklqdq", 2)
        \o <<MovX(12, 1), Imm(Xx("SseShuf", "", {"66"}, 12, 2), IF high THEN 3 ELSE 0),
             MovX(13, 1), Imm(Xx("InsertSingle", "", {"66"}, 13, 2), 64 + 16),
             [Xx("ExtractLane", "", {"66"}, 2, RAX) EXCEPT !.lane = 4, !.imm = 1],
             MovX(14, 1), [Xx("InsertLane", "", {"66"}, 14, RAX) EXCEPT !.lane = 4, !.imm = 1]>>,
        V(ab), Px(ab, 0)) : ab \in {<<Ramp, Mixed>>, <<Mixed, Greatest>>}, imm \in {27, 57, 78, 147},
                            high \in BOOLEAN}
    \cup {Program("select",
        <<MovX(3, 1), Xx("ByteShuffle", "pshufb", {"66"}, 3, 2), Sse("pxor", 4, 4), Sse("pcmpgtb", 4, 2)>>
        \o To(5, 3, "pand", 4) \o To(6, 1, "pxor", 2)
        \o <<Xx("ByteShuffle", "pshufb", {"66"}, 6, 2), MovX(7, 2), Xx("ByteShuffle", "pshufb", {"66"}, 7, 2),
             Sse("pxor", 6, 7)>>, V(ab), Px(ab, 0)) : ab \in Two}
(* PSHUFD and SHUFPS of a register with itself agree, a shuffle by the     *)
(* inverse control brings back what was there, the float unpacks           *)
(* and SHUFPD agree with the integer ones, INSERTPS with PEXTRD and PINSRD;*)
(* PSHUFB clears what its mask marks and distributes over XOR.             *)
ShufflesAgree ==
    /\ Done("shuffle") =>
        /\ X(3) = X(4) /\ X(5) = run.p.va /\ X(6) = run.p.va
        /\ X(8) = X(9) /\ X(10) = X(11) /\ X(12) = X(11) /\ X(13) = X(14)
    /\ Done("select") => X(5) = Zeros(16) /\ X(6) = X(3)

-----------------------------------------------------------------------------
(* PTEST, the logical instructions and the masks of signs.                 *)
TestRuns ==
    {Program("test",
        <<Xx("Ptest", "", {"66"}, 1, 2), SetCc(4, RBX), SetCc(2, RDX)>> \o To(3, 1, "pand", 2)
        \o <<Xx("Ptest", "", {"66"}, 3, 3), SetCc(4, RSI)>> \o To(4, 1, "pandn", 2)
        \o <<Xx("Ptest", "", {"66"}, 4, 4), SetCc(4, RDI), Sse("pxor", 5, 5), Sse("pcmpeqd", 5, 3),
             Xx("Movmsk", "", {}, RAX, 5), Xx("Pmovmskb", "", {"66"}, RCX, 5)>>,
        V(ab), Px(ab, 0)) :
        ab \in Two \cup {<<a, [j \in 1..16 |-> Modulus(1) - 1 - a[j]]>> : a \in Some}}
(* PTEST sets ZF exactly when PAND, and CF exactly when PANDN, gives zero; *)
(* comparing with zero and gathering the signs tells the same.             *)
TestsAgree ==
    Done("test") =>
        /\ R(RBX, 1) = R(RSI, 1) /\ R(RDX, 1) = R(RDI, 1)
        /\ (R(RBX, 1) = 1) = (m.gpr[RAX] = 15)
        /\ R(RBX, 1) = 1 => m.gpr[RCX] = Modulus(4) - 1

(* Floats of n bytes, compared by COMIS and by CMP.                        *)
ScalarPfx(n) == {IF n = 4 THEN "f3" ELSE "f2"}
PackedPfx(n) == IF n = 4 THEN {} ELSE {"66"}
Doubles == {[j \in 1..16 |-> IF j = 8 THEN signBit(1) ELSE 0], [j \in 1..16 |-> IF j = 8 THEN 1 ELSE 2]}
Floats == {Zeros(16), Ones, Mixed, Least, Greatest} \cup Doubles
FloatOrderRuns ==
    {Program("floatOrder",
        <<Xx("Comis", "", PackedPfx(n), 1, 2), SetCc(2, RBX), SetCc(4, RDX), SetCc(10, RSI),
          MovX(3, 1), Imm(Xx("SseCmp", "", ScalarPfx(n), 3, 2), k),
          MovX(4, 1), Imm(Xx("SseCmp", "", ScalarPfx(n), 4, 2), (k + 4) % 8),
          MovX(5, 1), Imm(Xx("SseCmp", "", PackedPfx(n), 5, 2), k)>>, V(ab),
        [w |-> n, va |-> ab[1], vb |-> ab[2], c |-> k]) : ab \in Floats \X Floats, k \in 0..7, n \in {4, 8}}
(* The flags of COMIS and the masks of CMP order floats alike, NaN         *)
(* included, and of a predicate and its negation exactly one holds; the    *)
(* scalar form compares the lowest lanes and keeps the others.             *)
FloatsOrdered ==
    Done("floatOrder") =>
        LET p == run.p  n == p.w
            cf == R(RBX, 1) = 1  zf == R(RDX, 1) = 1  un == R(RSI, 1) = 1
            holds == CASE p.c % 4 = 0 -> zf /\ ~un
                       [] p.c % 4 = 1 -> cf /\ ~un
                       [] p.c % 4 = 2 -> (cf \/ zf) /\ ~un
                       [] p.c % 4 = 3 -> un
            All(b) == IF b THEN Modulus(n) - 1 ELSE 0
        IN /\ Low(n, X(3)) = All(holds = (p.c < 4)) /\ Low(n, X(4)) = All(holds # (p.c < 4))
           /\ Low(n, X(5)) = Low(n, X(3))
           /\ Merge(n, X(3), p.va) = p.va

(* Float arithmetic, packed and scalar.                                    *)
ArithRuns ==
    {Program("arith",
        <<MovX(3, 1), Xx("SseArith", op, PackedPfx(n), 3, 2), MovX(4, 1), Xx("SseArith", op, ScalarPfx(n), 4, 2),
          MovX(5, 1), Xx("SseArith", "min", PackedPfx(n), 5, 2), MovX(6, 1), Xx("SseArith", "max", PackedPfx(n), 6, 2),
          Xx("SseArith", "add", PackedPfx(n), 5, 6), MovX(7, 1), Xx("SseArith", "add", PackedPfx(n), 7, 2),
          MovX(8, 1), Xx("SseHadd", "", PackedPfx(n), 8, 2),
          Imm(Xx("Pshuf", "", {"66"}, 9, 1), IF n = 4 THEN 177 ELSE 78), Xx("SseArith", "add", PackedPfx(n), 9, 1),
          MovX(10, 1), [Xx("Dot", "", {"66"}, 10, 2) EXCEPT !.lane = n, !.imm = 17],
          MovX(11, 1), Xx("SseArith", "mul", PackedPfx(n), 11, 2)>>, V(ab),
        [w |-> n, va |-> ab[1], vb |-> ab[2], c |-> 0]) :
        ab \in Floats \X Floats, op \in {"add", "sub", "mul", "div", "min", "max"}, n \in {4, 8}}
(* A scalar operation is the lowest lane of the packed one and keeps the   *)
(* other lanes; minimum and maximum add up to the sum, unless there is a   *)
(* NaN; HADD adds neighbours; DP of one selected lane is its product.      *)
ScalarIsLowLane ==
    Done("arith") =>
        LET n == run.p.w  a == Lanes(run.p.va, n)  b == Lanes(run.p.vb, n)
        IN /\ Low(n, X(4)) = Low(n, X(3)) /\ Merge(n, X(4), run.p.va) = run.p.va
           /\ \A k \in DOMAIN a :
                  ~IsNaN(a[k], n) /\ ~IsNaN(b[k], n) => Lanes(X(5), n)[k] = Lanes(X(7), n)[k]
           /\ Low(n, X(8)) = Low(n, X(9))
           /\ Low(n, X(10)) = (IF IsNaN(Low(n, X(11)), n) THEN NaN(n) ELSE Low(n, X(11)))
           /\ Merge(n, X(10), Zeros(16)) = Zeros(16)

-----------------------------------------------------------------------------
(* Conversions there and back, and roundings.                              *)
Gpr(w) == IF w = 8 THEN {"rexW"} ELSE {}
ConvertRuns ==
    UNION {{Program("fromInt",
        <<Xx("ConvertInt", "", ScalarPfx(n) \cup Gpr(w), 3, RAX),
          Xx("ConvertToInt", "cvtt", ScalarPfx(n) \cup Gpr(w), RBX, 3),
          Xx("ConvertToInt", "cvt", ScalarPfx(n) \cup Gpr(w), RDX, 3)>>,
        Set(Fresh, RAX, v), [w |-> w, a |-> v, b |-> n, c |-> 0]) :
        v \in {x \in Edges(w) \cup {5, Modulus(w) - 7} : 2 * Abs(Signed(x, w)) < signBit(n)}} :
        w \in {4, 8}, n \in {4, 8}}
    \cup {Program("convert",
        <<Xx("ConvertPd", "", {"f3"}, 3, 1), Xx("ConvertPd", "", {"f2"}, 3, 3),       \* dwords, doubles
          Xx("ConvertFloat", "", {}, 4, 1), Xx("ConvertFloat", "", {"66"}, 4, 4),     \* singles, doubles
          MovX(5, 2), Xx("ConvertFloat", "", {"f3"}, 5, 1), Xx("ConvertFloat", "", {"f2"}, 5, 5),
          Imm(Xx("Round", "roundps", {"66"}, 6, 1), 3), Xx("ConvertDq", "", {"66"}, 6, 6),
          Xx("ConvertDq", "", {"f3"}, 7, 1),
          Imm(Xx("Round", "roundps", {"66"}, 8, 1), 0), Xx("ConvertDq", "", {"66"}, 8, 8),
          Xx("ConvertDq", "", {"66"}, 9, 1),
          Imm(Xx("Round", "roundps", {"66"}, 10, 1), 1), Imm(Xx("SseCmp", "", {}, 10, 1), 6),
          Imm(Xx("Round", "roundps", {"66"}, 11, 1), 2), Imm(Xx("SseCmp", "", {}, 11, 1), 1),
          Xx("ConvertDq", "", {}, 12, 7), Xx("ConvertDq", "", {"66"}, 12, 12)>>,
        V(<<a, b>>), Px(<<a, b>>, 0)) : a \in Floats \cup {[j \in 1..16 |-> IF j % 4 = 1 THEN 3 ELSE 0]},
                                        b \in {Mixed}}
(* An integer converted to a float that holds it and back is the same, by  *)
(* truncation and by rounding; so are dwords by way of doubles and singles *)
(* by way of doubles; CVTT is CVT of what ROUND to zero gives; rounding    *)
(* down is never greater, rounding up never less.                          *)
ConversionsReturn ==
    /\ Done("fromInt") =>
        LET w == run.p.w IN /\ R(RBX, w) = run.p.a /\ R(RDX, w) = run.p.a
    /\ Done("convert") =>
        LET a == run.p.va  d == Lanes(a, 4)
        IN /\ Lo(X(3)) = Lo(a) /\ Hi(X(3)) = Zeros(8)
           /\ Lo(X(4)) = Lo(a) /\ Hi(X(4)) = Zeros(8)
           /\ Low(4, X(5)) = Low(4, a) /\ Hi(X(5)) = Hi(run.p.vb)
           /\ X(6) = X(7) /\ X(8) = X(9)
           /\ \A k \in 1..4 : ~IsNaN(d[k], 4) =>
                  /\ Lanes(X(10), 4)[k] = 0 /\ Lanes(X(11), 4)[k] = 0
                  /\ Lanes(X(12), 4)[k] = Lanes(X(7), 4)[k]

-----------------------------------------------------------------------------
(* The VEX closure of an operation beside its SSE form, which works on     *)
(* register 3 in place; the VEX one has the same operands and writes       *)
(* register 4.                                                             *)
VexNames == {<<"vpaddq", "paddq">>, <<"vpand", "pand">>, <<"vpandn", "pandn">>, <<"vpor", "por">>,
             <<"vpxor", "pxor">>, <<"vpsubb", "psubb">>, <<"vpsubw", "psubw">>, <<"vpsubd", "psubd">>,
             <<"vpsubq", "psubq">>, <<"vpaddb", "paddb">>, <<"vpaddw", "paddw">>, <<"vpaddd", "paddd">>}
VexNames2 == {<<"vpmuldq", "pmuldq">>, <<"vpcmpeqq", "pcmpeqq">>, <<"vpcmpgtq", "pcmpgtq">>,
              <<"vpmulld", "pmulld">>}
(* The pairs whose result is a vector register ...                         *)
VexForms ==
    {[sse |-> Sse(x[2], 3, 2), vex |-> Xx("VexPackedD4", x[1], {"66"}, 4, 2)] : x \in VexNames}
    \cup {[sse |-> Sse(x[2], 3, 2), vex |-> Xx("VexPacked28", x[1], {"66"}, 4, 2)] : x \in VexNames2}
    \cup {[sse |-> Xx(g[1][1], g[2], g[3], 3, 2), vex |-> Xx(g[1][2], g[2], g[3], 4, 2)] :
            g \in ({<<"SseLogic", "VexLogic">>} \X {"pand", "pandn", "por", "pxor"} \X {{}, {"66"}})
                  \cup ({<<"SseArith", "vexBinop">>} \X {"sub", "mul", "div", "min", "max"}
                        \X {{}, {"66"}, {"f3"}, {"f2"}})
                  \cup ({<<"SseArith", "VexAdd">>} \X {"add"} \X {{}, {"66"}, {"f3"}, {"f2"}})
                  \cup ({<<"ConvertFloat", "VexConvertFloat">>} \X {""} \X {{}, {"66"}, {"f3"}, {"f2"}})
                  \cup ({<<"ConvertInt", "VexConvertInt">>} \X {""}
                        \X {{"f3"}, {"f2"}, {"f3", "rexW"}, {"f2", "rexW"}})
                  \cup ({<<"ByteShuffle", "VexPshufb">>} \X {"pshufb"} \X {{"66"}})}
    \cup {[sse |-> Imm(Xx(g[1], "", g[3], 3, 2), g[4]), vex |-> Imm(Xx(g[2], "", g[3], 4, 2), g[4])] :
            g \in {<<"AlignRight", "VexAlignRight", {"66"}, 5>>, <<"AlignRight", "VexAlignRight", {"66"}, 16>>,
                   <<"InsertSingle", "VexInsertSingle", {"66"}, 77>>, <<"Pshuf", "VexPshuf", {"66"}, 57>>,
                   <<"Pshuf", "VexPshuf", {"f3"}, 27>>, <<"Pshuf", "VexPshuf", {"f2"}, 27>>,
                   <<"Pshuf", "VexPermil", {"66"}, 57>>, <<"FullMove", "VexMove", {}, 0>>}}
    \cup {LET Form(g, d) == [Xx(g, "", {"66"} \cup Gpr(n), d, RCX) EXCEPT !.lane = n, !.imm = k]
          IN [sse |-> Form("InsertLane", 3), vex |-> Form("VexInsertLane", 4)] :
            n \in {1, 2, 4, 8}, k \in {0, 1, 9}}
    \cup {[sse |-> Xx("MovdQ", op, pfx, 3, RAX), vex |-> Xx("VexMovdQ", op, pfx, 4, RAX)] :
            op \in {"movdLoad"}, pfx \in {{"66"}, {"66", "rexW"}}}
(* ... a general register, RBX and RSP, or the flags.                      *)
VexGprForms ==
    {[sse |-> Xx("ConvertToInt", op, pfx, RBX, 2), vex |-> Xx("VexConvertToInt", op, pfx, RSP, 2)] :
        op \in {"cvt", "cvtt"}, pfx \in {{"f3"}, {"f2"}, {"f3", "rexW"}, {"f2", "rexW"}}}
VexFlagForms ==
    {[sse |-> Xx("Ptest", "", {"66"}, 1, 2), vex |-> Xx("VexPtest", "", {"66"}, 1, 2)]}
    \cup {[sse |-> Xx("Comis", "", p, 1, 2), vex |-> Xx("VexComis", "", p, 1, 2)] : p \in {{}, {"66"}}}
VexRuns ==
    {Program("vex", <<MovX(3, 1), f.sse, Vex(f.vex, 1, 0, IF "rexW" \in f.vex.pfx THEN 1 ELSE 0)>>, V(ab),
        Px(ab, 0)) :
        f \in VexForms \cup VexGprForms \cup VexFlagForms,
        ab \in {<<Ramp, Mixed>>, <<Greatest, Units>>, <<Least, Ones>>}}
(* Where a VEX instruction is next, its 128-bit closure computes, into a   *)
(* register of its own, what the SSE instruction before it has computed in *)
(* place, with the same flags, clears the upper half of a vector register  *)
(* it writes, and leaves all else as it is.                                *)
VexAgrees ==
    run.law = "vex" /\ Running /\ Insn.group \in VexGroups =>
        VexExec([Begun EXCEPT !.flags = run.m.flags], Insn) =
            CASE Insn.group \in {"VexPtest", "VexComis"} -> Begun
              [] Insn.group = "VexConvertToInt" -> [Begun EXCEPT !.gpr[RSP] = m.gpr[RBX]]
              [] OTHER -> [Begun EXCEPT !.xmm[4] = X(3), !.yhi[4] = Zeros(16)]

(* 256-bit registers: halves out and in again, swapped, stored and loaded. *)
(* The programs are for the closures one after the other, and stop where   *)
(* the engine looks for a hook.                                            *)
Halves2(d, s) == Imm(Vex(Xx("VexPerm128", "", {"66"}, d, s), s, 1, 0), 1)
YmmRuns ==
    {Unhooked(Program("ymm",
        <<Halves2(3, 1), Halves2(4, 3),
          [Vex(Xx("VexExtract128", "", {"66"}, 1, 5), 0, 1, 0) EXCEPT !.imm = k],
          [Vex(Xx("VexInsert128", "", {"66"}, 6, 5), 1, 1, 0) EXCEPT !.imm = k],
          Vex([Xx("VexMove", "", {}, 1, 0) EXCEPT !.toReg = FALSE, !.mr = RegMem(1, RDI, 0).mr], 0, 1, 0),
          Vex([Xx("VexMove", "", {}, 7, 0) EXCEPT !.mr = RegMem(7, RDI, 0).mr], 0, 1, 0),
          Vex(Xx(op[1], op[2], {}, 8, 2), 1, 1, 0), Halves2(9, 2), Vex(Xx(op[1], op[2], {}, 10, 9), 3, 1, 0),
          Halves2(10, 10), [Vex(Xx("VexBroadcast", "", {"66"}, 11, 2), 0, 1, 0) EXCEPT !.lane = 4],
          Halves2(12, 11)>>, Set(V(<<Ramp, Mixed>>), RDI, PageBytes), Px(<<Ramp, Mixed>>, 0))) :
        op \in {<<"VexLogic", "pand">>, <<"VexLogic", "pxor">>, <<"vexBinop", "mul">>, <<"vexBinop", "sub">>,
                <<"vexBinop", "min">>}, k \in {0, 1}}
(* Swapping halves twice, taking a half out and putting it back, storing   *)
(* and loading change nothing, a broadcast has equal halves, and a 256-bit *)
(* operation treats the two halves alike: it commutes with the swap.       *)
HalvesCommute ==
    run.law = "ymm" /\ Running =>
        LET n == Seqs!FoldLeft(VexExec, m, run.code)
            Y(r) == <<n.xmm[r], n.yhi[r]>>
            a == <<m.xmm[1], m.yhi[1]>>
        IN n.err = "ok" /\ Y(4) = a /\ Y(6) = a /\ Y(7) = a /\ Y(10) = Y(8) /\ Y(12) = Y(11)

-----------------------------------------------------------------------------
(* Stores and the loads that read them back, at an address in the data     *)
(* pages, across the edge of the read-only page, in it, and unmapped.      *)
AtMem(i) == [i EXCEPT !.mr = RegMem(i.mr.reg, RDI, 0).mr]
Out(i) == AtMem([i EXCEPT !.toReg = FALSE])
StoreForms ==
    {[n |-> 4, hi |-> FALSE, st |-> Xx("MoveStore", "", {"f3"}, 1, 0), ld |-> Xx("MoveLoad", "", {"f3"}, 3, 0)],
     [n |-> 8, hi |-> FALSE, st |-> Xx("MoveStore", "", {"f2"}, 1, 0), ld |-> Xx("MoveLoad", "", {"f2"}, 3, 0)],
     [n |-> 4, hi |-> FALSE, st |-> Xx("MovdQ", "movdStore", {"66"}, 1, 0), ld |-> Xx("MovdQ", "movdLoad", {"66"}, 3, 0)],
     [n |-> 8, hi |-> FALSE, st |-> Xx("MovdQ", "movqStore", {"66"}, 1, 0), ld |-> Xx("MovdQ", "movq", {"f3"}, 3, 0)],
     [n |-> 16, hi |-> FALSE, st |-> Xx("Movntdq", "", {"66"}, 1, 0), ld |-> Xx("FullMove", "movdq", {"66"}, 3, 0)]}
    \cup {[n |-> 16, hi |-> FALSE, st |-> Xx("MoveStore", "", p, 1, 0), ld |-> Xx("MoveLoad", "", p, 3, 0)] :
            p \in {{}, {"66"}}}
    \cup {[n |-> 16, hi |-> FALSE, st |-> Xx("FullMove", "movdq", p, 1, 0), ld |-> Xx("FullMove", "movaps", {}, 3, 0)] :
            p \in {{"66"}, {"f3"}}}
    \cup {[n |-> 8, hi |-> h, st |-> [Xx("HalfMove", "", {}, 1, 0) EXCEPT !.high = h],
           ld |-> [Xx("HalfMove", "", {}, 3, 0) EXCEPT !.high = h]] : h \in BOOLEAN}
MoveRuns ==
    {Program("move", <<Out(f.st), AtMem(f.ld)>>, Set(V(<<x, x>>), RDI, a),
             [w |-> f.n, va |-> IF f.hi THEN Hi(x) \o Hi(x) ELSE x, vb |-> x, c |-> a]) :
        f \in StoreForms, x \in {Ramp, Ones}, a \in {3, PageBytes + 5, 3 * PageBytes - 8, 3 * PageBytes + 2}}
    \cup {Program("control",
            <<AtMem(I("Mxcsr", RegReg(3, 0))), I("IncDec", Sized(4) @@ RegMem(0, RDI, 0)),
              AtMem(I("Mxcsr", RegReg(2, 0))), I("Mxcsr", RegReg(7, 0))>>,
            Set(Fresh, RDI, PageBytes), Px(<<Ramp, Ramp>>, 0))}
(* A store changes the bytes it names and no other, also when it stops at  *)
(* a page it may not write, and the matching load brings them back.        *)
MovesKeepBytes ==
    /\ run.law = "move" =>
        LET p == run.p  b == SubSeq(p.va, 1, p.w)  old == run.m.mem
        IN /\ \A x \in DOMAIN m.mem :
                  m.mem[x] # old[x] => x - p.c \in 0..(p.w - 1) /\ m.mem[x] = b[x - p.c + 1]
           /\ Halted => /\ readChecked(m, p.c, p.w) = b
                        /\ SubSeq(IF run.code[2].high THEN Hi(X(3)) ELSE X(3), 1, p.w) = b
           /\ m.err # "ok" => m.rip = 1 /\ ~CanAccess(m, p.c, p.w, "w")
    /\ Done("control") => m.mxcsr = run.m.mxcsr + 1

(* Every vector instruction once, with a register operand, with memory it  *)
(* can read and write, with memory it can only read, and with memory whose *)
(* end or whose beginning is not mapped.                                   *)
Prefixes == {{}, {"66"}, {"f3"}, {"f2"}}
SseForms ==
    {Xx(g, op, p, 3, 2) : g \in {"MoveLoad", "MoveStore", "UnpackFloat", "ConvertInt", "ConvertFloat", "ConvertDq",
                                 "ConvertPd", "Comis", "Movmsk", "SseHadd", "Pshuf", "ExtractWord", "Pmovmskb",
                                 "Movntdq"}, op \in {"cvtt"}, p \in Prefixes}
    \cup {Xx("ConvertToInt", op, p, 3, 2) : op \in {"cvt", "cvtt"}, p \in Prefixes}
    \cup {Imm(Xx(g, "", p, 3, 2), k) : g \in {"SseCmp", "SseShuf"}, p \in Prefixes, k \in {1, 6}}
    \cup {Xx("SseArith", op, p, 3, 2) : op \in {"add", "div", "max"}, p \in Prefixes}
    \cup {Xx("SseUnary", op, p, 3, 2) : op \in {"sqrt", "rsqrt", "rcp"}, p \in Prefixes}
    \cup {Xx("SseLogic", "por", {}, 3, 2), Xx("Ptest", "", {"66"}, 3, 2), Xx("ByteShuffle", "pshufb", {"66"}, 3, 2)}
    \cup {Sse(n, 3, 2) : n \in {"punpcklbw", "packssdw", "pcmpeqb", "paddq", "psubusb", "pavgw", "por", "psubd", "pmulld"}}
    \cup {Xx("Packed60", "pcmpgtb", {}, 3, 2), Xx("MovdQ", "movq", {"f3"}, 3, 2)}
    \cup {Xx("MovdQ", op, p, 3, 2) : op \in {"movdLoad", "movdStore", "movqStore"}, p \in {{}, {"66"}}}
    \cup {[Xx(g, op, p, 3, 2) EXCEPT !.lane = n, !.imm = 9] :
            g \in {"ShiftReg", "ShiftImm", "InsertLane", "ExtractLane"}, op \in {"psra"}, p \in {{}, {"66"}}, n \in {2, 4}}
    \cup {[Xx("ShiftImm", "", {"66"}, idx, 2) EXCEPT !.lane = 8, !.imm = 3] : idx \in {2, 3, 4, 5, 7}}
    \cup {Imm(Xx(g, op, {"66"}, 3, 2), k) : g \in {"Round"}, op \in {"roundps", "roundpd", "roundss", "roundsd"}, k \in 0..3}
    \cup {Imm(Xx(g, "", {"66"}, 3, 2), k) : g \in {"AlignRight", "InsertSingle"}, k \in {4, 20, 33}}
    \cup {[Xx("Dot", "", {"66"}, 3, 2) EXCEPT !.lane = n, !.imm = 243] : n \in {4, 8}}
    \cup {[Xx(g, op, {"66"}, 3, 2) EXCEPT !.toReg = FALSE] : g \in {"FullMove", "HalfMove"}, op \in {"movdq"}}
    \cup {Xx(g, "movdq", {}, 3, 2) : g \in {"FullMove", "HalfMove"}}
    \cup {Xx("Mxcsr", "", {}, idx, 2) : idx \in {1, 2, 3}}
VexForms2 ==
    {[Xx("VexMove", "", p, 3, 2) EXCEPT !.toReg = t] : p \in {{}, {"f3"}}, t \in BOOLEAN}
    \cup {Xx(g, "cvtt", p, 3, 2) : g \in {"VexConvertInt", "VexConvertToInt", "VexComis", "VexConvertFloat", "VexSqrt",
                                          "VexPshuf"}, p \in Prefixes}
    \cup {Xx("VexAdd", "add", p, 3, 2) : p \in Prefixes} \cup {Xx("vexBinop", "mul", p, 3, 2) : p \in Prefixes}
    \cup {Xx("VexLogic", "pxor", {}, 3, 2), Xx("VexPackedD4", "vpaddw", {"66"}, 3, 2), Xx("VexPtest", "", {"66"}, 3, 2),
          Xx("VexPacked28", "vpmulld", {"66"}, 3, 2), Xx("VexPshufb", "", {"66"}, 3, 2), Xx("VexMovdQ", "movq", {"f3"}, 3, 2)}
    \cup {Xx("VexMovdQ", op, {"66"}, 3, 2) : op \in {"movdLoad", "movdStore"}}
    \cup {[Xx(g, "", {"66"}, 3, 2) EXCEPT !.lane = n, !.imm = k] :
            g \in {"VexBroadcast", "VexPermil", "VexAlignRight", "VexInsertLane", "VexInsertSingle"},
            n \in {4, 8}, k \in {0, 49}}
(* The ones between the halves of a register, whose length is 256.         *)
VexForms256 == {Imm(Xx(g, "", {"66"}, 3, 2), k) : g \in {"VexPerm128", "VexInsert128", "VexExtract128"}, k \in {0, 1, 49}}
AnyRuns ==
    {Unhooked(Program("any", <<IF a = 0 THEN i ELSE AtMem(i)>>, Set(Fresh, RDI, a), Px(<<Ramp, Ramp>>, a))) :
        i \in SseForms \cup {Vex(v, 5, L, 0) : v \in VexForms2 \cup VexForms256, L \in {0, 1}},
        a \in {0, 3, PageBytes + 3, 3 * PageBytes - 6, 4 * PageBytes - 6}}

(* Safety.  The integer vector instructions obey the algebra that compiled *)
(* code relies on, lane by lane and in every width, and a store and its    *)
(* load agree on their bytes.                                              *)
LanesAgree ==
    /\ MasksSelect /\ SaturationBalances /\ PacksUndo /\ ProductsAgree
    /\ VectorShiftsCompose /\ AlignJoins /\ LanesInOut /\ ShufflesAgree /\ TestsAgree
    /\ MovesKeepBytes
(* Safety.  Comparisons, scalar and packed arithmetic and conversions of   *)
(* floats agree with each other, NaN included.                             *)
FloatsAgree == FloatsOrdered /\ ScalarIsLowLane /\ ConversionsReturn
(* Safety.  The closures that decodeVexInsn builds would do what the SSE   *)
(* instructions do, to a register of their own, treat the two halves of a  *)
(* 256-bit register alike, and when they fail leave every register: on the *)
(* machine as it is when a VEX instruction is next.  EmuStart does not     *)
(* call them (VexExecuted).                                                *)
VexClosuresAgree ==
    /\ VexAgrees /\ HalvesCommute
    /\ Running /\ Insn.group \in VexGroups => VexLeaves(Begun, Insn)
=============================================================================
