----------------------------- MODULE VectorOps -----------------------------
(***************************************************************************)
(* internal/cpu/sse.go: what the vector instructions compute.  The source  *)
(* has one helper per mnemonic; here a mnemonic is an operation and the    *)
(* width n of its lanes in bytes, so that PADDB, PADDW, PADDD and PADDQ    *)
(* are "padd" with n = 1, 2, 4 and 8.  A vector is its 16 bytes, so dlo is *)
(* the first eight of them and dhi the rest.                               *)
(***************************************************************************)
EXTENDS Words

Lo(v) == SubSeq(v, 1, 8)
Hi(v) == SubSeq(v, 9, 16)
Vec(lo, hi) == lo \o hi
Qword(v) == leToU64(Lo(v))
FromQword(q) == u64ToLE(q, 8)

Clamp(x, low, high) == IF x < low THEN low ELSE IF x > high THEN high ELSE x
(* Mutation: the lowest value is taken for the negative of the highest.    *)
SatSEven(x, n) == Clamp(x, 1 - signBit(n), signBit(n) - 1) % Modulus(n)
SatS(x, n) == Clamp(x, -signBit(n), signBit(n) - 1) % Modulus(n)
SatU(x, n) == Clamp(x, 0, Modulus(n) - 1)

(* Additions and subtractions: wrapping, signed and unsigned saturating.   *)
PackedAdd(op, n, a, b) ==
    Map2(n, LAMBDA x, y :
        CASE op = "padd" -> x + y
          [] op = "psub" -> x - y
          [] op = "padds" -> SatS(Signed(x, n) + Signed(y, n), n)
          [] op = "psubs" -> SatS(Signed(x, n) - Signed(y, n), n)
          [] op = "paddus" -> SatU(x + y, n)
          [] op = "psubus" -> SatU(x - y, n), a, b)

PackedLogic(op, a, b) ==
    Map2(1, LAMBDA x, y :
        CASE op = "pand" -> And(x, y, 1)
          [] op = "pandn" -> And(Complement(x, 1), y, 1)
          [] op = "por" -> Or(x, y, 1)
          [] op = "pxor" -> Xor(x, y, 1), a, b)

(* The sum of what F gives for each pair of lanes of n bytes in group k of *)
(* m such lanes.                                                           *)
PairSum(F(_, _), n, m, k, a, b) ==
    LET x == Lanes(a, n)  y == Lanes(b, n)
        sum[j \in 0..m] == IF j = 0 THEN 0
                           ELSE sum[j - 1] + F(x[(k - 1) * m + j], y[(k - 1) * m + j])
    IN sum[m]
(* Multiplications: the low or high half of the product, the product of    *)
(* the even dwords, the sum of two products, and PSADBW.                   *)
PackedMul(op, n, a, b) ==
    LET Even(v, k) == Lanes(v, 4)[2 * k - 1]
    IN CASE op = "pmull" -> Map2(n, LAMBDA x, y : Signed(x, n) * Signed(y, n), a, b)
         [] op = "pmulh" -> Map2(n, LAMBDA x, y : (Signed(x, n) * Signed(y, n)) \div Modulus(n), a, b)
         [] op = "pmulhu" -> Map2(n, LAMBDA x, y : (x * y) \div Modulus(n), a, b)
         [] op = "pmuludq" -> FromLanes([k \in 1..2 |-> Even(a, k) * Even(b, k)], 8)
         [] op = "pmuldq" ->
               FromLanes([k \in 1..2 |-> Trunc(Signed(Even(a, k), 4) * Signed(Even(b, k), 4), 8)], 8)
         [] op = "pmaddwd" ->
               FromLanes([k \in 1..4 |-> Trunc(PairSum(LAMBDA x, y : Signed(x, 2) * Signed(y, 2),
                                                       2, 2, k, a, b), 4)], 4)
         [] op = "psadbw" ->
               FromLanes([k \in 1..2 |-> Trunc(PairSum(LAMBDA x, y : Abs(x - y), 1, 8, k, a, b), 2)], 8)

(* Rounded averages, minima and maxima.                                    *)
PackedMinMax(op, n, a, b) ==
    Map2(n, LAMBDA x, y :
        CASE op = "pavg" -> (x + y + 1) \div 2
          [] op = "pminu" -> IF x < y THEN x ELSE y
          [] op = "pmaxu" -> IF x > y THEN x ELSE y
          [] op = "pmins" -> IF Signed(x, n) < Signed(y, n) THEN x ELSE y
          [] op = "pmaxs" -> IF Signed(x, n) > Signed(y, n) THEN x ELSE y, a, b)

(* Comparisons: all ones or zero in each lane.                             *)
PackedCompare(op, n, a, b) ==
    Map2(n, LAMBDA x, y :
        IF \/ op = "pcmpeq" /\ x = y
           \/ op = "pcmpgt" /\ Signed(x, n) > Signed(y, n)
        THEN Modulus(n) - 1 ELSE 0, a, b)

(* The sign bits of the lanes, as a number.                                *)
SignMask(v, n) ==
    LET x == Lanes(v, n)
        sum[k \in 0..Len(x)] == IF k = 0 THEN 0
                                ELSE sum[k - 1] + (IF Negative(x[k], n) THEN 2^(k - 1) ELSE 0)
    IN sum[Len(x)]

-----------------------------------------------------------------------------
(* Shifts of each lane; a count past the width gives zero, or the sign.    *)
PackedShift(op, n, v, count) ==
    Map1(n, LAMBDA x : CASE op = "psll" -> Shl(x, count, n)
                         [] op = "psrl" -> Shr(x, count, n)
                         [] op = "psra" -> Sar(x, count, n), v)
(* PSLLDQ and PSRLDQ: the vector as a whole, by bytes.                     *)
ByteShift(op, v, n) ==
    [j \in 1..16 |->
        LET from == IF op = "pslldq" THEN j - n ELSE j + n
        IN IF from \in 1..16 THEN v[from] ELSE 0]

(* Unpack: the lanes of the low or the high halves, alternately.           *)
Interleave(n, d, s) ==
    LET x == Lanes(d, n)  y == Lanes(s, n)
    IN FromLanes([k \in 1..(2 * Len(x)) |-> IF k % 2 = 1 THEN x[(k + 1) \div 2] ELSE y[k \div 2]], n)
PackedUnpack(op, n, d, s) ==
    IF op = "punpckl" THEN Interleave(n, Lo(d), Lo(s)) ELSE Interleave(n, Hi(d), Hi(s))
(* Pack: lanes of n bytes, those of d before those of s, saturated to half *)
(* the width.                                                              *)
PackedPack(op, n, d, s) ==
    LET x == Lanes(d, n) \o Lanes(s, n)  h == n \div 2
    IN FromLanes([k \in DOMAIN x |-> IF op = "packss" THEN SatS(Signed(x[k], n), h)
                                                     ELSE SatU(Signed(x[k], n), h)], h)

(* The two control bits of imm for lane k.                                 *)
Ctl(imm, k) == 1 + ((imm \div 4^(k - 1)) % 4)
PshufW(half, imm) == LET x == Lanes(half, 2) IN FromLanes([k \in 1..4 |-> x[Ctl(imm, k)]], 2)
PackedShuffle(op, s, imm) ==
    CASE op = "pshufd" -> LET x == Lanes(s, 4) IN FromLanes([k \in 1..4 |-> x[Ctl(imm, k)]], 4)
      [] op = "pshufhw" -> Vec(Lo(s), PshufW(Hi(s), imm))
      [] op = "pshuflw" -> Vec(PshufW(Lo(s), imm), Hi(s))
Shufps(d, s, imm) ==
    LET x == Lanes(d, 4)  y == Lanes(s, 4)
    IN FromLanes([k \in 1..4 |-> IF k <= 2 THEN x[Ctl(imm, k)] ELSE y[Ctl(imm, k)]], 4)
Shufpd(d, s, imm) ==
    Vec(IF imm % 2 = 1 THEN Hi(d) ELSE Lo(d), IF (imm \div 2) % 2 = 1 THEN Hi(s) ELSE Lo(s))
Pshufb(d, mask) == [j \in 1..16 |-> IF Negative(mask[j], 1) THEN 0 ELSE d[1 + (mask[j] % 16)]]

(* PALIGNR slices a 32-byte array from n: for n past 16 the slice is out   *)
(* of its range and Go panics.                                             *)
PalignrPanics(imm) == imm \in 17..31
Palignr(d, s, imm) == IF imm >= 32 THEN Zeros(16) ELSE SubSeq(s \o d, imm + 1, imm + 16)

Pinsr(n, d, v, imm) ==
    LET x == Lanes(d, n) IN FromLanes([x EXCEPT ![1 + (imm % Len(x))] = Trunc(v, n)], n)
Pextr(n, s, imm) == LET x == Lanes(s, n) IN x[1 + (imm % Len(x))]

-----------------------------------------------------------------------------
(* Floating point.  Go's float32 and float64 are outside the program: here *)
(* a lane of n bytes is a number of halves in two's complement, and its    *)
(* most negative pattern is the one NaN.  Rounding, order, NaN and         *)
(* overflow can then be told apart; infinities, negative zero and the      *)
(* other NaN payloads cannot.                                              *)
NaN(n) == signBit(n)
IsNaN(v, n) == Trunc(v, n) = NaN(n)
Halves(v, n) == Signed(v, n)
ToFloat(h, n) == Clamp(h, 1 - signBit(n), signBit(n) - 1) % Modulus(n)
Root(x) == CHOOSE r \in 0..x : r * r <= x /\ (r + 1) * (r + 1) > x
FloatOf(n, a, b, h) == IF IsNaN(a, n) \/ IsNaN(b, n) THEN NaN(n) ELSE ToFloat(h, n)
FAdd(n, a, b) == FloatOf(n, a, b, Halves(a, n) + Halves(b, n))
FSub(n, a, b) == FloatOf(n, a, b, Halves(a, n) - Halves(b, n))
FMul(n, a, b) ==
    FloatOf(n, a, b, Quot(Clamp(Halves(a, n), -Modulus(4), Modulus(4))
                          * Clamp(Halves(b, n), -Modulus(4), Modulus(4)), 2))
FDiv(n, a, b) == IF Trunc(b, n) = 0 THEN NaN(n)
                 ELSE FloatOf(n, a, b, Quot(2 * Halves(a, n), Halves(b, n)))
FSqrt(n, a) == IF IsNaN(a, n) \/ Negative(a, n) THEN NaN(n) ELSE Root(2 * a)
FLess(n, a, b) == ~IsNaN(a, n) /\ ~IsNaN(b, n) /\ Halves(a, n) < Halves(b, n)
FEqual(n, a, b) == ~IsNaN(a, n) /\ a = b
(* math.RoundToEven, Floor, Ceil and Trunc, to an integer.                 *)
Rounded(mode, h) ==
    CASE h % 2 = 0 -> h \div 2
      [] h % 2 = 1 /\ mode = "even" -> IF (h \div 2) % 2 = 0 THEN h \div 2 ELSE h \div 2 + 1
      [] h % 2 = 1 /\ mode = "floor" -> h \div 2
      [] h % 2 = 1 /\ mode = "ceil" -> h \div 2 + 1
      [] h % 2 = 1 /\ mode = "trunc" -> Quot(h, 2)
(* float32(x) of a float64 and back.                                       *)
FConvert(from, to, v) == IF IsNaN(v, from) THEN NaN(to) ELSE ToFloat(Halves(v, from), to)
(* int64(x) of a float, whose value for NaN is the lowest integer.         *)
ToInt(mode, n, v) == IF IsNaN(v, n) THEN -signBit(8) ELSE Rounded(mode, Halves(v, n))

-----------------------------------------------------------------------------
(* The arithmetic of the float helpers; MIN and MAX return the second      *)
(* operand when it is a NaN, and the first when only that one is.          *)
FloatOp(op, n, a, b) ==
    CASE op = "add" -> FAdd(n, a, b)
      [] op = "sub" -> FSub(n, a, b)
      [] op = "mul" -> FMul(n, a, b)
      [] op = "div" -> FDiv(n, a, b)
      [] op = "min" -> IF IsNaN(b, n) \/ FLess(n, b, a) THEN b ELSE a
      [] op = "max" -> IF IsNaN(b, n) \/ FLess(n, a, b) THEN b ELSE a
PackedFloat(op, n, a, b) == Map2(n, LAMBDA x, y : FloatOp(op, n, x, y), a, b)
One(n) == ToFloat(2, n)
FloatUnary(op, n, a) ==
    CASE op = "sqrt" -> FSqrt(n, a)
      [] op = "rsqrt" -> FDiv(n, One(n), FSqrt(n, a))
      [] op = "rcp" -> FDiv(n, One(n), a)
PackedUnary(op, n, a) == Map1(n, LAMBDA x : FloatUnary(op, n, x), a)

(* Mutation: "not less" is taken for "greater or equal".                   *)
cmpFloatPredGe(imm, n, a, b) ==
    LET p == imm % 8
        Un == IsNaN(a, n) \/ IsNaN(b, n)
    IN CASE p = 0 -> FEqual(n, a, b)
         [] p = 1 -> FLess(n, a, b)
         [] p = 2 -> FLess(n, a, b) \/ FEqual(n, a, b)
         [] p = 3 -> Un
         [] p = 4 -> ~FEqual(n, a, b)
         [] p = 5 -> FLess(n, b, a) \/ FEqual(n, a, b)
         [] p = 6 -> FLess(n, b, a)
         [] p = 7 -> ~Un
cmpFloatPred(imm, n, a, b) ==
    LET p == imm % 8
        Un == IsNaN(a, n) \/ IsNaN(b, n)
    IN CASE p = 0 -> FEqual(n, a, b)
         [] p = 1 -> FLess(n, a, b)
         [] p = 2 -> FLess(n, a, b) \/ FEqual(n, a, b)
         [] p = 3 -> Un
         [] p = 4 -> ~FEqual(n, a, b)
         [] p = 5 -> ~FLess(n, a, b)
         [] p = 6 -> ~(FLess(n, a, b) \/ FEqual(n, a, b))
         [] p = 7 -> ~Un
FloatMask(imm, n, a, b) == IF cmpFloatPred(imm, n, a, b) THEN Modulus(n) - 1 ELSE 0
PackedFloatCompare(imm, n, a, b) == Map2(n, LAMBDA x, y : FloatMask(imm, n, x, y), a, b)

(* HADDPS and HADDPD: the sums of neighbours, those of d before those of s.*)
Hadd(n, d, s) ==
    LET x == Lanes(d, n) \o Lanes(s, n)
    IN FromLanes([k \in 1..(16 \div n) |-> FAdd(n, x[2 * k - 1], x[2 * k])], n)

(* A scalar operation replaces the lowest lane of d.                       *)
SetLow(n, d, v) == [j \in 1..16 |-> IF j <= n THEN u64ToLE(v, n)[j] ELSE d[j]]
Low(n, v) == leToU64(SubSeq(v, 1, n))
ScalarFloat(op, n, d, s) == SetLow(n, d, FloatOp(op, n, Low(n, d), Low(n, s)))
ScalarCompare(imm, n, d, s) == SetLow(n, d, FloatMask(imm, n, Low(n, d), Low(n, s)))
(* SQRTSS, RSQRTSS and RCPSS take their argument from d, not from the      *)
(* source, which their third parameter ignores.                            *)
ScalarUnary(op, n, d) == SetLow(n, d, FloatUnary(op, n, Low(n, d)))

(* The flags of COMISS and COMISD.                                         *)
comisFlags(n, a, b) ==
    IF IsNaN(a, n) \/ IsNaN(b, n) THEN {"ZF", "PF", "CF"}
    ELSE IF FLess(n, a, b) THEN {"CF"} ELSE IF FEqual(n, a, b) THEN {"ZF"} ELSE {}

(* The packed conversions.                                                 *)
ToDword(mode, n, v) ==
    LET x == ToInt(mode, n, v)
    IN IF IsNaN(v, n) \/ x >= signBit(4) \/ x < -signBit(4) THEN signBit(4) ELSE Trunc(x, 4)
PackedConvert(op, s) ==
    LET q == Lanes(s, 8)  d == Lanes(s, 4)
        Doubles(F(_)) == FromLanes(<<F(d[1]), F(d[2])>>, 8)
        Singles(F(_)) == FromLanes(<<F(q[1]), F(q[2]), 0, 0>>, 4)
    IN CASE op = "cvtdq2ps" -> Map1(4, LAMBDA x : ToFloat(2 * Signed(x, 4), 4), s)
         [] op = "cvttps2dq" -> Map1(4, LAMBDA x : ToDword("trunc", 4, x), s)
         [] op = "cvtps2dq" -> Map1(4, LAMBDA x : ToDword("even", 4, x), s)
         [] op = "cvtps2pd" -> Doubles(LAMBDA x : FConvert(4, 8, x))
         [] op = "cvtdq2pd" -> Doubles(LAMBDA x : ToFloat(2 * Signed(x, 4), 8))
         [] op = "cvtpd2ps" -> Singles(LAMBDA x : FConvert(8, 4, x))
         [] op = "cvtpd2dq" -> Singles(LAMBDA x : Trunc(ToInt("even", 8, x), 4))
         [] op = "cvttpd2dq" -> Singles(LAMBDA x : Trunc(ToInt("trunc", 8, x), 4))

-----------------------------------------------------------------------------
(* The 256-bit permutations: a YMM value is the pair of its halves.        *)
Vperm2f128(a, b, imm) ==
    LET srcs == <<a[1], a[2], b[1], b[2]>>
        Pick(c) == IF (c \div 8) % 2 = 1 THEN Zeros(16) ELSE srcs[1 + (c % 4)]
    IN <<Pick(imm % 16), Pick(imm \div 16)>>
Vinsertf128(a, s, imm) == IF imm % 2 = 0 THEN <<s, a[2]>> ELSE <<a[1], s>>
Vextractf128(a, imm) == a[1 + (imm % 2)]
Broadcast(n, v) == FromLanes([k \in 1..(16 \div n) |-> v], n)

(* INSERTPS: one lane placed, then those of the zero mask cleared.         *)
Insertps(d, v, imm) ==
    LET x == [Lanes(d, 4) EXCEPT ![1 + ((imm \div 16) % 4)] = v]
    IN FromLanes([k \in 1..4 |-> IF Bit(imm, k - 1) = 1 THEN 0 ELSE x[k]], 4)
(* DPPS and DPPD: the sum of the products that the high bits of imm        *)
(* select, in the lanes that the low bits select.                          *)
DotProduct(n, d, s, imm) ==
    LET x == Lanes(d, n)  y == Lanes(s, n)
        dp[k \in 0..Len(x)] ==
            IF k = 0 THEN 0
            ELSE IF Bit(imm, k + 3) = 1 THEN FAdd(n, dp[k - 1], FMul(n, x[k], y[k])) ELSE dp[k - 1]
    IN FromLanes([k \in DOMAIN x |-> IF Bit(imm, k - 1) = 1 THEN dp[Len(x)] ELSE 0], n)
roundMode(imm) == <<"even", "floor", "ceil", "trunc">>[1 + (imm % 4)]
RoundLane(n, v, imm) == IF IsNaN(v, n) THEN v ELSE ToFloat(2 * Rounded(roundMode(imm), Halves(v, n)), n)
PackedRound(n, s, imm) == Map1(n, LAMBDA x : RoundLane(n, x, imm), s)
=============================================================================
