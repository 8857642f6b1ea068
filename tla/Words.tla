------------------------------- MODULE Words -------------------------------
(***************************************************************************)
(* Fixed-width machine words: the arithmetic that internal/cpu takes from  *)
(* Go's unsigned integers, math/bits and its own flags.go and operand.go.  *)
(* A width is a number of bytes, 1, 2, 4 or 8, as in the source.  A byte   *)
(* has ByteBits bits (8 in the program): every width, mask, sign bit and   *)
(* count of bits below is derived from it, so that a small ByteBits keeps  *)
(* all the boundaries of the real widths and makes them reachable.         *)
(* A vector is the sequence of its bytes, the lowest first.                *)
(***************************************************************************)
EXTENDS Integers, Sequences

CONSTANT ByteBits
ASSUME ByteBitsAssumption == ByteBits \in {2, 4, 8}

Bits(w) == w * ByteBits
Modulus(w) == 2^Bits(w)

(* v & maskWidth(w), and ^v & maskWidth(w).                                *)
Trunc(v, w) == v % Modulus(w)
Complement(v, w) == Modulus(w) - 1 - Trunc(v, w)

signBit(w) == 2^(Bits(w) - 1)
(* What the powers are to each other, for the provers, which know          *)
(* nothing of exponentiation.                                              *)
ASSUME PowersAssumption ==
    \A w \in {1, 2, 4, 8} : signBit(w) \in Nat \ {0, 1} /\ Modulus(w) = 2 * signBit(w)
ASSUME BytesAssumption ==
    /\ Modulus(0) = 1
    /\ \A k \in 0..8 : Modulus(k) \in Nat \ {0}
    /\ \A j, k \in 0..8 : j + k <= 8 => Modulus(j + k) = Modulus(j) * Modulus(k)
Negative(v, w) == Trunc(v, w) >= signBit(w)

(* int64(signExtend(v, w*8)): a conversion to a signed integer, and back.  *)
Signed(v, w) == Trunc(v, w) - (IF Negative(v, w) THEN Modulus(w) ELSE 0)
signExtend(v, w) == Signed(v, w) % Modulus(8)

Bit(v, k) == (v \div 2^k) % 2
OnesCount(v, w) == LET ones[k \in 0..Bits(w)] ==
                           IF k = 0 THEN 0 ELSE ones[k - 1] + Bit(v, k - 1)
                   IN ones[Bits(w)]
parity8(v) == OnesCount(Trunc(v, 1), 1) % 2 = 0

(* Go's &, | and ^ on words of width w, bit by bit.                        *)
ByBits(Op(_, _), a, b, w) ==
    LET sum[k \in 0..Bits(w)] ==
            IF k = 0 THEN 0 ELSE sum[k - 1] + Op(Bit(a, k - 1), Bit(b, k - 1)) * 2^(k - 1)
    IN sum[Bits(w)]
And(a, b, w) == ByBits(LAMBDA x, y : x * y, a, b, w)
Or(a, b, w) == ByBits(LAMBDA x, y : x + y - x * y, a, b, w)
Xor(a, b, w) == ByBits(LAMBDA x, y : (x + y) % 2, a, b, w)

(* Go's << and >> on a word of width w: a count past the width gives 0.    *)
Shl(v, c, w) == IF c >= Bits(w) THEN 0 ELSE (v % 2^(Bits(w) - c)) * 2^c
Shr(v, c, w) == IF c >= Bits(w) THEN 0 ELSE Trunc(v, w) \div 2^c
(* int64(v) >> c: the sign fills the vacated bits.                         *)
Sar(v, c, w) == Trunc(Signed(v, w) \div 2^(IF c >= Bits(w) THEN Bits(w) ELSE c), w)

(* leToU64 and u64ToLE.                                                    *)
leToU64(b) == LET sum[k \in 0..Len(b)] ==
                      IF k = 0 THEN 0 ELSE sum[k - 1] + b[k] * 2^Bits(k - 1)
              IN sum[Len(b)]
u64ToLE(v, w) == [k \in 1..w |-> (v \div 2^Bits(k - 1)) % Modulus(1)]

(* bits.Mul64: the double-width product, from the four half products.      *)
Mul64(a, b) ==
    LET h == Modulus(4)
        low == (a % h) * (b % h)
        mid == (a \div h) * (b % h) + (a % h) * (b \div h) + low \div h
    IN [hi |-> (a \div h) * (b \div h) + mid \div h,
        lo |-> (mid % h) * h + (low % h)]

(* bits.Div64 for hi < y: one bit of the dividend at a time.               *)
Div64(hi, lo, y) ==
    LET n == Bits(8)
        step[k \in 0..n] ==
            IF k = 0 THEN [q |-> 0, r |-> hi]
            ELSE LET r == step[k - 1].r * 2 + Bit(lo, n - k)
                 IN [q |-> step[k - 1].q * 2 + (IF r >= y THEN 1 ELSE 0),
                     r |-> IF r >= y THEN r - y ELSE r]
    IN step[n]

(* Go's / and % on signed integers truncate toward zero.                   *)
Abs(x) == IF x < 0 THEN -x ELSE x
Quot(x, y) == IF (x < 0) = (y < 0) THEN Abs(x) \div Abs(y) ELSE -(Abs(x) \div Abs(y))
Rem(x, y) == x - y * Quot(x, y)

(* The lanes of n bytes of a vector, and the vector of the lanes.          *)
Lanes(v, n) == [k \in 1..(Len(v) \div n) |-> leToU64(SubSeq(v, (k - 1) * n + 1, k * n))]
FromLanes(ls, n) ==
    [j \in 1..(Len(ls) * n) |->
        (ls[(j - 1) \div n + 1] \div 2^Bits((j - 1) % n)) % Modulus(1)]
(* The loop of every packed helper: a lane of the result from a lane of    *)
(* each source.                                                            *)
Map2(n, Op(_, _), a, b) ==
    LET x == Lanes(a, n)  y == Lanes(b, n)
    IN FromLanes([k \in DOMAIN x |-> Trunc(Op(x[k], y[k]), n)], n)
Map1(n, Op(_), a) ==
    LET x == Lanes(a, n) IN FromLanes([k \in DOMAIN x |-> Trunc(Op(x[k]), n)], n)
Zeros(n) == [j \in 1..n |-> 0]
=============================================================================
