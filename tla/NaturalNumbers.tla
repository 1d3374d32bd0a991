---------------------------- MODULE NaturalNumbers ----------------------------
(***************************************************************************)
(* Natural numbers of many digits (soft/rsaref, nn.c).  A number is the    *)
(* sequence of its digits, the least significant first, and keeps its      *)
(* length; results wrap around as the code's do.                           *)
(***************************************************************************)
EXTENDS Integers, Sequences

-----------------------------------------------------------------------------
(* Arithmetic of single digits (soft/rsaref: digit.c, and the bodies of    *)
(* the loops of nn.c).  A digit has two halves; every result wraps around, *)
(* and carries are found by comparing what came out with what went in.     *)

CONSTANT Half           \* 2^16: the values of half a digit

HalfIsANumber == Half \in Nat /\ Half > 1

Base == Half * Half
MaxDigit == Base - 1
Digit == 0 .. MaxDigit

Wrap(x) == x % Base
LowHalf(x) == x % Half
HighHalf(x) == x \div Half
ToHighHalf(x) == Wrap(Half * x)

\* What a comparison tells of a carry or a borrow.
Bit(condition) == IF condition THEN 1 ELSE 0

\* A result of two digits, or a digit and what is carried or borrowed.
Pair(low, high) == [low |-> low, high |-> high]

-----------------------------------------------------------------------------
(* One step of an addition or a subtraction                                *)

\* Mutant: the carry of the second addition alone.
AddDigitOnce(b, c, carry) ==
    LET ai == Wrap(Wrap(b + carry) + c)
    IN Pair(ai, Bit(ai < c))

\* NN_Add: "ai = b[i] + carry" wraps only to zero, and the carry stays.
AddDigit(b, c, carry) ==
    LET ai == Wrap(b + carry)
    IN IF ai < carry THEN Pair(c, carry) ELSE Pair(Wrap(ai + c), Bit(Wrap(ai + c) < c))

\* NN_Sub: likewise.
SubDigit(b, c, borrow) ==
    LET ai == Wrap(b - borrow)
    IN IF ai > MaxDigit - borrow THEN Pair(MaxDigit - c, borrow)
       ELSE Pair(Wrap(ai - c), Bit(Wrap(ai - c) > MaxDigit - c))

-----------------------------------------------------------------------------
(* Products                                                                *)

\* NN_DigitMult: the product of the low halves and the crossed ones added up.
CrossAdded(low, t) == Pair(Wrap(low + ToHighHalf(t)), Bit(Wrap(low + ToHighHalf(t)) < ToHighHalf(t)))

JoinProducts(low, cross1, cross2, high) ==
    LET t == Wrap(cross1 + cross2)
        a == CrossAdded(low, t)
    IN Pair(a.low, Wrap(high + Bit(t < cross2) * Half + a.high + HighHalf(t)))

DigitMult(b, c) ==
    JoinProducts(LowHalf(b) * LowHalf(c), LowHalf(b) * HighHalf(c),
                 HighHalf(b) * LowHalf(c), HighHalf(b) * HighHalf(c))

\* One step of NN_AddDigitMult: b + c * d + carry, of the product t.
PlusProduct(once, t, carry) ==
    Pair(Wrap(once + t.low), Wrap(Bit(once < carry) + Bit(Wrap(once + t.low) < t.low) + t.high))
AddMultDigit(b, c, d, carry) == PlusProduct(Wrap(b + carry), DigitMult(c, d), carry)

\* Mutant: the borrow of the second subtraction alone.
LessProductOnce(once, t, borrow) ==
    Pair(Wrap(once - t.low), Wrap(Bit(Wrap(once - t.low) > MaxDigit - t.low) + t.high))

\* One step of NN_SubDigitMult: b - c * d - borrow, of the product t.
LessProduct(once, t, borrow) ==
    Pair(Wrap(once - t.low), Wrap(Bit(once > MaxDigit - borrow)
                                  + Bit(Wrap(once - t.low) > MaxDigit - t.low) + t.high))
SubMultDigit(b, c, d, borrow) == LessProduct(Wrap(b - borrow), DigitMult(c, d), borrow)

-----------------------------------------------------------------------------
(* NN_DigitDiv: b / c, where b.high < c and c has a high half              *)

\* What is left of the dividend.
Less(t, x) == Pair(Wrap(t.low - x), Wrap(t.high - Bit(Wrap(t.low - x) > MaxDigit - x)))
LessHigh(t, x) == Pair(t.low, Wrap(t.high - x))

\* Both estimates of half a quotient are one above what is divided by, so as to
\* be too low rather than too high; c's high half may be the largest there is.
EstimateHigh(b, c) ==
    LowHalf(IF HighHalf(c) = Half - 1 THEN HighHalf(b.high) ELSE b.high \div (HighHalf(c) + 1))
EstimateLow(t, c) ==
    LowHalf(IF HighHalf(c) = Half - 1 THEN LowHalf(t.high)
            ELSE Wrap(ToHighHalf(t.high) + HighHalf(t.low)) \div (HighHalf(c) + 1))

\* Mutant: the estimate is taken for the half of the quotient.
CorrectedHighNot(half, t, c) == [half |-> half, rest |-> t]

\* An estimate is corrected while the divisor goes into what it leaves.
CorrectedHigh(half, t, c) ==
    LET Correct[s \in [half : 0 .. Half - 1, rest : [low : Digit, high : Digit]]] ==
            IF \/ s.rest.high > HighHalf(c)
               \/ s.rest.high = HighHalf(c) /\ s.rest.low >= ToHighHalf(LowHalf(c))
            THEN Correct[[half |-> LowHalf(s.half + 1),
                          rest |-> LessHigh(Less(s.rest, ToHighHalf(LowHalf(c))), HighHalf(c))]]
            ELSE s
    IN Correct[[half |-> half, rest |-> t]]

CorrectedLow(half, t, c) ==
    LET Correct[s \in [half : 0 .. Half - 1, rest : [low : Digit, high : Digit]]] ==
            IF s.rest.high > 0 \/ s.rest.low >= c
            THEN Correct[[half |-> LowHalf(s.half + 1), rest |-> Less(s.rest, c)]]
            ELSE s
    IN Correct[[half |-> half, rest |-> t]]

\* A half of the quotient, and what is left of the dividend.
HighFrom(aHigh, b, c) ==
    CorrectedHigh(aHigh, LessHigh(Less(b, ToHighHalf(aHigh * LowHalf(c))),
                                  HighHalf(aHigh * LowHalf(c)) + aHigh * HighHalf(c)), c)
LowFrom(aLow, t, c) ==
    CorrectedLow(aLow, LessHigh(Less(Less(t, aLow * LowHalf(c)), ToHighHalf(aLow * HighHalf(c))),
                                HighHalf(aLow * HighHalf(c))), c)

WithHigh(high, c) ==
    Wrap(ToHighHalf(high.half) + LowFrom(EstimateLow(high.rest, c), high.rest, c).half)

DigitDiv(b, c) == WithHigh(HighFrom(EstimateHigh(b, c), b, c), c)

-----------------------------------------------------------------------------

CONSTANT DigitBits      \* 32: the bits of a digit

DigitHasBits == DigitBits \in Nat /\ 2 ^ DigitBits = Base /\ DigitBits % 2 = 0

Zero(n) == [i \in 1 .. n |-> 0]
OfDigit(d, n) == [i \in 1 .. n |-> IF i = 1 THEN d ELSE 0]

\* The first n digits of what is a, or a with zeros after it.
Fit(a, n) == [i \in 1 .. n |-> IF i <= Len(a) THEN a[i] ELSE 0]

Assign2Exp(b, n) ==
    [i \in 1 .. n |-> IF i = b \div DigitBits + 1 THEN 2 ^ (b % DigitBits) ELSE 0]

Digits(a) ==
    LET used == {i \in DOMAIN a : a[i] # 0}
    IN IF used = {} THEN 0 ELSE CHOOSE i \in used : \A j \in used : j <= i

IsZero(a) == \A i \in DOMAIN a : a[i] = 0

\* The sign of a - b.
Cmp(a, b) ==
    LET differ == {i \in DOMAIN a : a[i] # b[i]}
        top == CHOOSE i \in differ : \A j \in differ : j <= i
    IN IF differ = {} THEN 0 ELSE IF a[top] > b[top] THEN 1 ELSE -1

DigitLength(d) == CHOOSE k \in 0 .. DigitBits : d < 2 ^ k /\ (k = 0 \/ d >= 2 ^ (k - 1))

Bits(a) == IF IsZero(a) THEN 0 ELSE (Digits(a) - 1) * DigitBits + DigitLength(a[Digits(a)])

-----------------------------------------------------------------------------
(* Conversion to and from characters, the most significant one first       *)

\* "bytes" characters make a digit.
Decode(chars, bytes, radix, n) ==
    LET Char(k) == IF k <= Len(chars) THEN chars[Len(chars) + 1 - k] ELSE 0
        Low[i \in 1 .. n, k \in 0 .. bytes] ==
            IF k = 0 THEN 0 ELSE Char(bytes * (i - 1) + k) * radix ^ (k - 1) + Low[i, k - 1]
    IN [i \in 1 .. n |-> Low[i, bytes]]

Encode(a, bytes, radix, length) ==
    [j \in 1 .. length |->
        LET k == length - j
        IN IF k \div bytes >= Len(a) THEN 0
           ELSE (a[k \div bytes + 1] \div radix ^ (k % bytes)) % radix]

-----------------------------------------------------------------------------
(* Sums, differences and products by a digit: a chain of steps, each with  *)
(* what the one before carried                                             *)

Chained(steps, n) == [digits |-> [i \in 1 .. n |-> steps[i].low], carry |-> steps[n].high]

Add(b, c) ==
    LET Steps[i \in 0 .. Len(b)] ==
            IF i = 0 THEN Pair(0, 0) ELSE AddDigit(b[i], c[i], Steps[i - 1].high)
    IN Chained(Steps, Len(b))

Sub(b, c) ==
    LET Steps[i \in 0 .. Len(b)] ==
            IF i = 0 THEN Pair(0, 0) ELSE SubDigit(b[i], c[i], Steps[i - 1].high)
    IN Chained(Steps, Len(b))

AddDigitMult(b, c, d) ==
    LET Steps[i \in 0 .. Len(b)] ==
            IF i = 0 THEN Pair(0, 0) ELSE AddMultDigit(b[i], c, d[i], Steps[i - 1].high)
    IN IF c = 0 THEN [digits |-> b, carry |-> 0] ELSE Chained(Steps, Len(b))

SubDigitMult(b, c, d) ==
    LET Steps[i \in 0 .. Len(b)] ==
            IF i = 0 THEN Pair(0, 0) ELSE SubMultDigit(b[i], c, d[i], Steps[i - 1].high)
    IN IF c = 0 THEN [digits |-> b, carry |-> 0] ELSE Chained(Steps, Len(b))

LShift(b, c) ==
    LET Out(i) == IF c = 0 \/ i = 0 THEN 0 ELSE b[i] \div 2 ^ (DigitBits - c)
    IN [digits |-> [i \in DOMAIN b |-> Wrap(b[i] * 2 ^ c) + Out(i - 1)], carry |-> Out(Len(b))]

\* From the most significant digit.
RShift(b, c) ==
    [i \in 1 .. Len(b) |->
        b[i] \div 2 ^ c + (IF i = Len(b) \/ c = 0 THEN 0
                           ELSE Wrap(b[i + 1] * 2 ^ (DigitBits - c)))]

\* t with the digits from i on replaced.
Replaced(t, i, digits) ==
    SubSeq(t, 1, i - 1) \o digits \o SubSeq(t, i + Len(digits), Len(t))

\* Mutant: the carry of a row is lost.
WithRowShort(t, i, row) == Replaced(t, i, row.digits)

\* Row i of a product: t plus d * c at the digits from i, and its carry after it.
WithRow(t, i, row) ==
    Replaced(t, i, Append(row.digits, Wrap(t[i + Len(row.digits)] + row.carry)))
MultRow(t, i, d, c) == WithRow(t, i, AddDigitMult(SubSeq(t, i, i + Len(c) - 1), d, c))

\* Twice as long as b and c.
Mult(b, c) ==
    LET Rows[i \in 0 .. Len(b)] ==
            IF i = 0 THEN Zero(2 * Len(b))
            ELSE MultRow(Rows[i - 1], i, b[i], SubSeq(c, 1, Digits(c)))
    IN Rows[Digits(b)]

-----------------------------------------------------------------------------
(* Quotient and remainder                                                  *)

\* Mutant: the estimate is taken for the digit.
CorrectedNot(ai, window, dd) == [ai |-> ai, window |-> window]

\* The digits of the dividend that a digit of the quotient is of, less a product.
Rest(window, less) == Append(less.digits, Wrap(window[Len(window)] - less.carry))

\* Correct the estimate ai while the divisor goes into what it leaves.
Corrected(ai, window, dd) ==
    LET n == Len(dd)
        Correct[r \in [ai : Digit, window : Seq(Digit)]] ==
            IF r.window[n + 1] # 0 \/ Cmp(SubSeq(r.window, 1, n), dd) >= 0
            THEN Correct[[ai |-> Wrap(r.ai + 1),
                          window |-> Rest(r.window, Sub(SubSeq(r.window, 1, n), dd))]]
            ELSE r
    IN Correct[[ai |-> ai, window |-> window]]

Estimate(window, dd) ==
    LET n == Len(dd)
    IN IF dd[n] = MaxDigit THEN window[n + 1]
       ELSE DigitDiv(Pair(window[n], window[n + 1]), dd[n] + 1)

\* A digit of the quotient, and what is left of the digits of the dividend.
QuotientFrom(ai, window, dd) ==
    Corrected(ai, Rest(window, SubDigitMult(SubSeq(window, 1, Len(dd)), ai, dd)), dd)
QuotientDigit(window, dd) == QuotientFrom(Estimate(window, dd), window, dd)

WithDigit(s, i, digit) ==
    [a |-> [s.a EXCEPT ![i] = digit.ai], rest |-> Replaced(s.rest, i, digit.window)]

\* The quotient of m digits, from the last one on, and the remainder.
LongDivision(cc, dd, m) ==
    LET Step(s, i) == WithDigit(s, i, QuotientDigit(SubSeq(s.rest, i, i + Len(dd)), dd))
        From[i \in 1 .. m + 1] ==
            IF i > m - Len(dd) + 1 THEN [a |-> Zero(m), rest |-> cc] ELSE Step(From[i + 1], i)
    IN From[1]

\* The dividend is one digit longer when it has been shifted.
Dividend(shifted, n) ==
    LET m == Len(shifted.digits)
    IN Fit(Append(shifted.digits, shifted.carry), IF m < n THEN n ELSE m + 1)

Unshifted(s, n, shift, length) ==
    [a |-> s.a, b |-> Fit(RShift(SubSeq(s.rest, 1, n), shift), length)]

\* Both are shifted until the divisor has its top bit set.
DivShifted(c, d, n, shift) ==
    Unshifted(LongDivision(Dividend(LShift(c, shift), n),
                           LShift(SubSeq(d, 1, n), shift).digits, Len(c)), n, shift, Len(d))

Div(c, d) == DivShifted(c, d, Digits(d), DigitBits - DigitLength(d[Digits(d)]))

Mod(b, c) == Div(b, c).b
ModMult(b, c, d) == Mod(Mult(b, c), d)

-----------------------------------------------------------------------------
(* Powers, inverses and greatest common divisors                           *)

\* Pair j of the bits of a digit, the most significant first.
TwoBits(ci, j) == (ci \div 2 ^ (DigitBits - 2 * j)) % 4

Squared(t, d) == ModMult(t, t, d)

\* Mutant: t^2 * b^s.
PowerStepShort(t, s, b, d) ==
    IF s = 0 THEN Squared(t, d) ELSE ModMult(Squared(t, d), b[s], d)

\* t * b^s, for the first powers of b.
TimesPower(t, s, b, d) == IF s = 0 THEN t ELSE ModMult(t, b[s], d)

\* t^4 * b^s mod d.
PowerStep(t, s, b, d) == TimesPower(Squared(Squared(t, d), d), s, b, d)

PowersFrom(b, b2, d) == <<b, b2, ModMult(b2, b, d)>>

ModExp(b, c, d) ==
    LET powers == PowersFrom(b, Squared(b, d), d)
        half == DigitBits \div 2
        \* the pairs of bits of c, from the most significant
        pair(k) == TwoBits(c[Digits(c) - (k - 1) \div half], ((k - 1) % half) + 1)
        After[k \in 0 .. half * Digits(c)] ==
            IF k = 0 THEN OfDigit(1, Len(d)) ELSE PowerStep(After[k - 1], pair(k), powers, d)
    IN After[half * Digits(c)]

\* Mutant: the sign is not kept.
NegatedNot(end, c) == end.u1

Negated(end, c) == IF end.sign < 0 THEN Sub(c, end.u1).digits ELSE end.u1

\* A step of the algorithm of Euclid, for the quotient and the remainder.
EuclidStep(s, div) ==
    [u1 |-> s.v1, v1 |-> Add(s.u1, Fit(Mult(div.a, s.v1), Len(s.u1))).digits,
     u3 |-> s.v3, v3 |-> div.b, sign |-> -s.sign]

\* The extended Euclidean algorithm, "modified to avoid negative numbers".
ModInv(b, c) ==
    LET n == Len(b)
        Euclid[s \in [u1 : Seq(Digit), v1 : Seq(Digit), u3 : Seq(Digit), v3 : Seq(Digit),
                      sign : {1, -1}]] ==
            IF IsZero(s.v3) THEN s ELSE Euclid[EuclidStep(s, Div(s.u3, s.v3))]
    IN Negated(Euclid[[u1 |-> OfDigit(1, n), v1 |-> Zero(n), u3 |-> b, v3 |-> c, sign |-> 1]], c)

Gcd(b, c) ==
    LET Euclid[s \in [u : Seq(Digit), v : Seq(Digit)]] ==
            IF IsZero(s.v) THEN s.u ELSE Euclid[[u |-> s.v, v |-> Mod(s.u, s.v)]]
    IN Euclid[[u |-> b, v |-> c]]

-----------------------------------------------------------------------------
(* The search for a prime number (soft/rsaref, prime.c) on the routines of *)
(* NaturalNumbers.  The random number it starts from is an argument.       *)

CONSTANT NotFound       \* RE_DATA for a prime

SMALL_PRIMES == {3, 5, 7, 11}

\* A small prime that is a itself is no factor of it.
SmallFactor(a) == \E s \in SMALL_PRIMES : IsZero(Mod(a, <<s>>)) /\ a # <<s>>

\* Fermat's test for witness 2.
FermatTest(a) == ModExp(OfDigit(2, Len(a)), a, a) = OfDigit(2, Len(a))

ProbablePrime(a) == ~SmallFactor(a) /\ FermatTest(a)

\* Where the search starts: a random number between b and c.
Start(random, b, c) ==
    Add(Mod(random, Add(Sub(c, b).digits, OfDigit(1, Len(b))).digits), b).digits

\* Into the range again, by one step.
Raised(a, b, d) == IF Cmp(a, b) < 0 THEN Add(a, d).digits ELSE a
Lowered(a, c, d) == IF Cmp(a, c) > 0 THEN Sub(a, d).digits ELSE a

\* The number next to a with d dividing the one before it.
Adjusted(a, b, c, d) ==
    Lowered(Raised(Add(Sub(a, Mod(a, d)).digits, OfDigit(1, Len(a))).digits, b, d), c, d)

\* A probable prime between b and c, such that d divides the number before it.
GeneratePrime(random, b, c, d) ==
    LET last == Sub(c, d).digits
        Search[a \in Seq(Digit)] ==
            IF ProbablePrime(a) THEN a
            ELSE IF Cmp(a, last) > 0 THEN NotFound
            ELSE Search[Add(a, d).digits]
    IN Search[Adjusted(Start(random, b, c), b, c, d)]

-----------------------------------------------------------------------------
(* Properties of the routines, for a pair b, c of numbers of as many       *)
(* digits: what they make of the digits is what arithmetic makes of the    *)
(* numbers.                                                                *)

\* What the digits stand for, and the n digits of a number.
Number(a) ==
    LET Low[k \in 0 .. Len(a)] == IF k = 0 THEN 0 ELSE a[k] * Base ^ (k - 1) + Low[k - 1]
    IN Low[Len(a)]
DigitsOf(number, n) == [i \in 1 .. n |-> (number \div Base ^ (i - 1)) % Base]
IsNumber(a, n) == Len(a) = n /\ \A i \in 1 .. n : a[i] \in Digit

\* NN_Add, NN_Sub: sums and differences are exact, with the carry or the borrow.
SumExact(b, c) ==
    LET sum == Add(b, c)
        difference == Sub(b, c)
        N == Len(b)
    IN /\ IsNumber(sum.digits, N) /\ IsNumber(difference.digits, N)
       /\ Number(sum.digits) + sum.carry * Base ^ N = Number(b) + Number(c)
       /\ Number(difference.digits) - difference.carry * Base ^ N = Number(b) - Number(c)

\* NN_DigitMult, NN_DigitDiv: products and quotients of single digits are
\* exact, and no estimate of a half is left too low.
DigitsExact(b, c) ==
    Len(b) = 2 =>
        LET product == DigitMult(b[1], c[1])
        IN /\ product.low + Base * product.high = b[1] * c[1]
           /\ b[2] < c[2] /\ HighHalf(c[2]) > 0 =>
                  DigitDiv(Pair(b[1], b[2]), c[2]) = Number(b) \div c[2]

\* NN_Mult: no digit or carry of a row is lost.
ProductExact(b, c) ==
    IsNumber(Mult(b, c), 2 * Len(b)) /\ Number(Mult(b, c)) = Number(b) * Number(c)

\* NN_Div: estimate, subtraction and correction give the quotient and the
\* remainder, for a dividend of as many digits as the divisor and of twice as many.
QuotientExact(b, c) ==
    ~IsZero(c) =>
        \A dividend \in {b, b \o c, c \o b} :
            LET div == Div(dividend, c)
            IN /\ IsNumber(div.a, Len(dividend)) /\ IsNumber(div.b, Len(b))
               /\ Number(div.a) = Number(dividend) \div Number(c)
               /\ Number(div.b) = Number(dividend) % Number(c)

\* NN_LShift and NN_RShift undo each other, but for the bits shifted out.
ShiftsExact(b) ==
    \A s \in 0 .. DigitBits - 1 :
        LET left == LShift(b, s)
        IN /\ Number(left.digits) + left.carry * Base ^ Len(b) = Number(b) * 2 ^ s
           /\ Number(RShift(b, s)) = Number(b) \div 2 ^ s

\* NN_Cmp, NN_Digits and NN_Bits are about the numbers.
OrderExact(b, c) ==
    /\ Cmp(b, c) = (IF Number(b) > Number(c) THEN 1 ELSE IF Number(b) < Number(c) THEN -1 ELSE 0)
    /\ \A k \in 0 .. Len(b) : Digits(b) <= k <=> Number(b) < Base ^ k
    /\ \A k \in 0 .. Len(b) * DigitBits : Bits(b) <= k <=> Number(b) < 2 ^ k

\* NN_Encode and NN_Decode: a number comes back through characters.
ConvertsBack(b) ==
    \A bytes \in {1, 2} : \E radix \in 2 .. Base :
        /\ radix ^ bytes = Base
        /\ \A n \in 0 .. Len(b) * bytes + 1 :
            Number(Decode(Encode(b, bytes, radix, n), bytes, radix, Len(b)))
                = Number(b) % radix ^ n

\* The power of a power, so that no evaluation goes deeper than the bits of n.
Power(x, n, m) ==
    LET To[k \in 0 .. n] ==
            IF k = 0 THEN 1 % m
            ELSE LET half == To[k \div 2]
                     square == (half * half) % m
                 IN IF k % 2 = 0 THEN square ELSE (square * x) % m
    IN To[n]

\* NN_ModExp: two bits of the exponent at a time.
PowersExact(b, c, moduli) ==
    \A m \in moduli :
        (Len(b) > 0 /\ m > 1 /\ m < Base ^ Len(b)) =>
            LET d == DigitsOf(m, Len(b))
            IN Number(ModExp(Mod(b, d), c, d)) = Power(Number(b), Number(c), m)

IsGcd(g, x, y) ==
    /\ x % g = 0 /\ y % g = 0
    /\ \A k \in 1 .. y : (x % k = 0 /\ y % k = 0) => k <= g

\* NN_Gcd and NN_ModInv: the algorithm of Euclid, without negative numbers.
EuclidExact(b, c) ==
    (Number(b) > Number(c) /\ Number(c) > 1) =>
        /\ IsGcd(Number(Gcd(b, c)), Number(b), Number(c))
        /\ Number(Gcd(b, c)) = 1 =>
            /\ (Number(ModInv(c, b)) * Number(c)) % Number(b) = 1
            /\ (Number(ModInv(b, c)) * Number(b)) % Number(c) = 1
            /\ Number(ModInv(b, c)) < Number(c) /\ Number(ModInv(c, b)) < Number(b)

IsPrime(n) == n > 1 /\ \A k \in 2 .. n - 1 : n % k # 0
=============================================================================
