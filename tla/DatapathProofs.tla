--------------------------- MODULE DatapathProofs ---------------------------
(***************************************************************************)
(* The condition codes are right for words of every width: the branches    *)
(* after a comparison compare, and additions and subtractions in two words *)
(* are exact.  What the memory stage reads is right wherever the           *)
(* scratchpad, its bounds files and the transfers have moved it.           *)
(***************************************************************************)
EXTENDS Datapath, ScratchpadDma, WellFoundedInduction, TLAPS

-----------------------------------------------------------------------------
(* Arithmetic modulo the number of words                                   *)

\* What Wrap does to the sum or difference of two words, in the execute stage.
LEMMA WrapCases ==
    ASSUME NEW x \in Int
    PROVE  /\ Wrap(x) \in Word
           /\ 0 <= x /\ x < 2 * Top => Wrap(x) = x
           /\ 2 * Top <= x /\ x < 4 * Top => Wrap(x) = x - 2 * Top
           /\ 0 - 2 * Top <= x /\ x < 0 => Wrap(x) = x + 2 * Top
<1> DEFINE N == 2 * Top
<1>1. N \in Nat \ {0} /\ 4 * Top = 2 * N /\ N - 1 = 2 * Top - 1
  BY TopIsPositive, SMT
<1> HIDE DEF N
<1>2. x % N \in 0 .. N - 1
  BY <1>1, SMT
<1>3. 0 <= x /\ x < N => x % N = x
  BY <1>1, SMT
<1>4. N <= x /\ x < 2 * N => x % N = x - N
  BY <1>1, SMT
<1>5. 0 - N <= x /\ x < 0 => x % N = x + N
  BY <1>1, SMT
<1> USE DEF N
<1> QED
  BY <1>1, <1>2, <1>3, <1>4, <1>5, SMT DEF Wrap, Word

\* Sums of two words, from those of the low and of the high words.
LEMMA TwoWords ==
    ASSUME NEW n \in Int, NEW h \in Int, NEW l \in Int, NEW c \in Int, NEW d \in Int,
           NEW high \in Int, NEW low \in Int,
           l + n * c = low, h + n * d = high + c
    PROVE  h * n + l + d * (n * n) = high * n + low
<1>1. (h + n * d) * n = (high + c) * n
  OBVIOUS
<1>2. (h + n * d) * n = h * n + d * (n * n)
  BY SMT
<1>3. (high + c) * n = high * n + n * c
  BY SMT
<1> DEFINE p == h * n
           q == d * (n * n)
           r == n * c
           s == high * n
<1>4. p \in Int /\ q \in Int /\ r \in Int /\ s \in Int
  BY SMT
<1>5. p + q = s + r /\ l + r = low
  BY <1>1, <1>2, <1>3
<1> HIDE DEF p, q, r, s
<1>6. p + l + q = s + low
  BY <1>4, <1>5, SMT
<1> QED
  BY <1>6 DEF p, q, s

LEMMA DifferenceOfTwoWords ==
    ASSUME NEW t \in Int, NEW xh \in Int, NEW xl \in Int, NEW zh \in Int, NEW zl \in Int
    PROVE  (xh - zh) * (2 * t) + (xl - zl) = (xh * 2 * t + xl) - (zh * 2 * t + zl)
<1>1. (xh - zh) * (2 * t) = xh * 2 * t - zh * 2 * t
  BY SMT
<1> DEFINE p == xh * 2 * t
           q == zh * 2 * t
<1>2. p \in Int /\ q \in Int
  BY SMT
<1>3. (xh - zh) * (2 * t) = p - q
  BY <1>1
<1> HIDE DEF p, q
<1>4. (p - q) + (xl - zl) = (p + xl) - (q + zl)
  BY <1>2, SMT
<1> QED
  BY <1>3, <1>4 DEF p, q

\* The carry that geticc computes is the one of the sum.
LEMMA CarryIsExact ==
    ASSUME NEW x \in Word, NEW z \in Word, NEW carry \in {0, 1}
    PROVE  /\ AddResult(x, z, carry) \in Word
           /\ AddResult(x, z, carry)
                + 2 * Top * CarryBit(AddIcc(x, z, AddResult(x, z, carry))) = x + z + carry
<1> DEFINE r == AddResult(x, z, carry)
<1>1. Top \in Nat \ {0} /\ x \in Int /\ z \in Int /\ carry \in Int
  BY TopIsPositive, SMT DEF Word
<1>2. r \in Word
  BY <1>1, WrapCases DEF AddResult
<1>3. r = x + z + carry \/ r = x + z + carry - 2 * Top
  BY <1>1, WrapCases, SMT DEF AddResult, Word
<1>4. r < 2 * Top /\ r >= 0 /\ r \in Int
  BY <1>1, <1>2, SMT DEF Word
<1> DEFINE c == AddIcc(x, z, r).c
<1>5. c <=> r = x + z + carry - 2 * Top
  <2>1. c <=> (x >= Top /\ z >= Top) \/ (~(r >= Top) /\ (x >= Top \/ z >= Top))
    BY DEF AddIcc, Neg
  <2> HIDE DEF r, c
  <2> QED
    BY <2>1, <1>1, <1>3, <1>4, SMT DEF Word
<1>6. CarryBit(AddIcc(x, z, r)) = IF c THEN 1 ELSE 0
  BY DEF CarryBit
<1> HIDE DEF r, c
<1>7. r + 2 * Top * (IF c THEN 1 ELSE 0) = x + z + carry
  BY <1>1, <1>3, <1>4, <1>5, SMT
<1> QED
  BY <1>2, <1>6, <1>7 DEF r

\* The borrow that geticc computes is the one of the difference.
LEMMA BorrowIsExact ==
    ASSUME NEW x \in Word, NEW z \in Word, NEW carry \in {0, 1}
    PROVE  /\ SubResult(x, z, carry) \in Word
           /\ SubResult(x, z, carry)
                - 2 * Top * CarryBit(SubIcc(x, z, SubResult(x, z, carry))) = x - z - carry
           /\ SubIcc(x, z, SubResult(x, z, carry)).c <=> x - z - carry < 0
<1> DEFINE r == SubResult(x, z, carry)
<1>1. Top \in Nat \ {0} /\ x \in Int /\ z \in Int /\ carry \in Int
  BY TopIsPositive, SMT DEF Word
<1>2. r \in Word
  BY <1>1, WrapCases DEF SubResult
<1>3. (r = x - z - carry /\ x - z - carry >= 0) \/ (r = x - z - carry + 2 * Top /\ x - z - carry < 0)
  BY <1>1, WrapCases, SMT DEF SubResult, Word
<1>4. r < 2 * Top /\ r >= 0 /\ r \in Int
  BY <1>1, <1>2, SMT DEF Word
<1> DEFINE c == SubIcc(x, z, r).c
<1>5. c <=> x - z - carry < 0
  <2>1. c <=> (~(x >= Top) /\ z >= Top) \/ ((~(x >= Top) \/ z >= Top) /\ r >= Top)
    BY DEF SubIcc, Neg
  <2> HIDE DEF r, c
  <2> QED
    BY <2>1, <1>1, <1>3, <1>4, SMT DEF Word
<1>6. CarryBit(SubIcc(x, z, r)) = IF c THEN 1 ELSE 0
  BY DEF CarryBit
<1> HIDE DEF r, c
<1>7. r - 2 * Top * (IF c THEN 1 ELSE 0) = x - z - carry
  BY <1>1, <1>3, <1>4, <1>5, SMT
<1> QED
  BY <1>2, <1>5, <1>6, <1>7 DEF r, c

\* N and V together are the sign of the difference, with or without a borrow.
LEMMA SignOfDifference ==
    ASSUME NEW x \in Word, NEW z \in Word, NEW carry \in {0, 1},
           NEW icc_, icc_ = SubIcc(x, z, SubResult(x, z, carry))
    PROVE  icc_.n # icc_.v <=> Signed(x) - Signed(z) - carry < 0
<1> DEFINE r == SubResult(x, z, carry)
<1>1. Top \in Nat \ {0} /\ x \in Int /\ z \in Int /\ carry \in Int
  BY TopIsPositive, SMT DEF Word
<1>2. r \in Word
  BY BorrowIsExact
<1>3. (r = x - z - carry /\ x - z - carry >= 0) \/ (r = x - z - carry + 2 * Top /\ x - z - carry < 0)
  BY <1>1, WrapCases, SMT DEF SubResult, Word
<1>4. r < 2 * Top /\ r >= 0 /\ r \in Int
  BY <1>1, <1>2, SMT DEF Word
<1>5. icc_.n = (r >= Top)
  BY DEF SubIcc, Neg
<1>6. icc_.v = ((x >= Top <=> ~(z >= Top)) /\ (x >= Top <=> ~(r >= Top)))
  BY DEF SubIcc, Neg
<1> DEFINE n == r >= Top
           v == (x >= Top <=> ~(z >= Top)) /\ (x >= Top <=> ~(r >= Top))
<1>7. icc_.n # icc_.v <=> ~(n <=> v)
  <2>1. icc_.n = n /\ icc_.v = v
    BY <1>5, <1>6
  <2>2. n \in BOOLEAN /\ v \in BOOLEAN
    BY DEF r
  <2> HIDE DEF n, v
  <2> QED
    BY <2>1, <2>2
<1>8. ~(n <=> v) <=> Signed(x) - Signed(z) - carry < 0
  <2> HIDE DEF r
  <2> QED
    BY <1>1, <1>3, <1>4, SMT DEF Word, Signed, Neg
<1> QED
  BY <1>7, <1>8

\* Z says that the words are equal, when there is no borrow.
LEMMA ZeroIsEqual ==
    ASSUME NEW x \in Word, NEW z \in Word
    PROVE  SubIcc(x, z, SubResult(x, z, 0)).z <=> x = z
<1>1. Top \in Nat \ {0} /\ x \in Int /\ z \in Int /\ x - z - 0 \in Int
  BY TopIsPositive, SMT DEF Word
<1>2. SubResult(x, z, 0) = 0 <=> x = z
  BY <1>1, WrapCases, SMT DEF SubResult, Word
<1> QED
  BY <1>2 DEF SubIcc

-----------------------------------------------------------------------------
(* What the instructions of a routine leave to the next one                *)

OperandsInv == a \in [hi : Word, lo : Word] /\ b \in [hi : Word, lo : Word]

Carry(x, z) == CarryBit(AddIcc(x, z, AddResult(x, z, 0)))
Borrow(x, z) == CarryBit(SubIcc(x, z, SubResult(x, z, 0)))

CompareInv ==
    Done("compare", 1) => icc = SubIcc(a.lo, b.lo, SubResult(a.lo, b.lo, 0))

AddInv ==
    /\ Done("add", 1) =>
          /\ lo = AddResult(a.lo, b.lo, 0)
          /\ icc = AddIcc(a.lo, b.lo, AddResult(a.lo, b.lo, 0))
    /\ Done("add", 2) =>
          /\ lo = AddResult(a.lo, b.lo, 0)
          /\ hi = AddResult(a.hi, b.hi, Carry(a.lo, b.lo))
          /\ icc = AddIcc(a.hi, b.hi, AddResult(a.hi, b.hi, Carry(a.lo, b.lo)))

SubtractInv ==
    /\ Done("subtract", 1) =>
          /\ lo = SubResult(a.lo, b.lo, 0)
          /\ icc = SubIcc(a.lo, b.lo, SubResult(a.lo, b.lo, 0))
    /\ Done("subtract", 2) =>
          /\ lo = SubResult(a.lo, b.lo, 0)
          /\ hi = SubResult(a.hi, b.hi, Borrow(a.lo, b.lo))
          /\ icc = SubIcc(a.hi, b.hi, SubResult(a.hi, b.hi, Borrow(a.lo, b.lo)))

\* The inductive invariant: the condition codes between two instructions of a
\* routine are those of the operands of the routine.
ArithmeticInv == OperandsInv /\ CompareInv /\ AddInv /\ SubtractInv

LEMMA ArithmeticInvInductive == Spec => []ArithmeticInv
<1>1. Init => ArithmeticInv
  <2> SUFFICES ASSUME Init PROVE ArithmeticInv
    OBVIOUS
  <2>1. 0 \in Word
    BY TopIsPositive, SMT DEF Word
  <2>2. OperandsInv
    BY <2>1 DEF Init, OperandsInv, Operands
  <2>3. ~Done("compare", 1) /\ \A n \in {1, 2} : ~Done("add", n) /\ ~Done("subtract", n)
    BY SMT DEF Init, Done
  <2> QED
    BY <2>2, <2>3 DEF ArithmeticInv, CompareInv, AddInv, SubtractInv
<1>2. ArithmeticInv /\ [Next]_vars => ArithmeticInv'
  <2> SUFFICES ASSUME ArithmeticInv, [Next]_vars PROVE ArithmeticInv'
    OBVIOUS
  <2>1. a' = a /\ b' = b /\ routine' = routine
    BY DEF Next, vars, At, Compare, AddLow, AddHigh, SubtractLow, SubtractHigh,
           MultiplyStart, MultiplyStep, Store
  <2>2. OperandsInv'
    BY <2>1 DEF ArithmeticInv, OperandsInv
  <2>3. CASE Compare
    <3>1. routine = "compare" /\ step' = 1
      BY <2>3, SMT DEF Compare, At
    <3> QED
      BY <2>1, <2>2, <2>3, <3>1
      DEF Compare, ArithmeticInv, CompareInv, AddInv, SubtractInv, Done
  <2>4. CASE AddLow
    <3>1. routine = "add" /\ step' = 1
      BY <2>4, SMT DEF AddLow, At
    <3> QED
      BY <2>1, <2>2, <2>4, <3>1
      DEF AddLow, ArithmeticInv, CompareInv, AddInv, SubtractInv, Done
  <2>5. CASE AddHigh
    <3>1. routine = "add" /\ step = 1 /\ step' = 2
      BY <2>5, SMT DEF AddHigh, At
    <3>2. lo' = AddResult(a.lo, b.lo, 0) /\ CarryBit(icc) = Carry(a.lo, b.lo)
      BY <2>5, <3>1 DEF AddHigh, ArithmeticInv, AddInv, Done, Carry
    <3> QED
      BY <2>1, <2>2, <2>5, <3>1, <3>2
      DEF AddHigh, ArithmeticInv, CompareInv, AddInv, SubtractInv, Done
  <2>6. CASE SubtractLow
    <3>1. routine = "subtract" /\ step' = 1
      BY <2>6, SMT DEF SubtractLow, At
    <3> QED
      BY <2>1, <2>2, <2>6, <3>1
      DEF SubtractLow, ArithmeticInv, CompareInv, AddInv, SubtractInv, Done
  <2>7. CASE SubtractHigh
    <3>1. routine = "subtract" /\ step = 1 /\ step' = 2
      BY <2>7, SMT DEF SubtractHigh, At
    <3>2. lo' = SubResult(a.lo, b.lo, 0) /\ CarryBit(icc) = Borrow(a.lo, b.lo)
      BY <2>7, <3>1 DEF SubtractHigh, ArithmeticInv, SubtractInv, Done, Borrow
    <3> QED
      BY <2>1, <2>2, <2>7, <3>1, <3>2
      DEF SubtractHigh, ArithmeticInv, CompareInv, AddInv, SubtractInv, Done
  <2>8. CASE \/ MultiplyStart \/ MultiplyStep
              \/ \E size \in Sizes : \E offset \in Offsets(size), value \in Stored :
                    Store(size, offset, value)
    <3>1. routine \in {"multiply", "store"}
      BY <2>8 DEF MultiplyStart, MultiplyStep, Store, At
    <3> QED
      BY <2>1, <2>2, <3>1 DEF ArithmeticInv, CompareInv, AddInv, SubtractInv, Done
  <2>9. CASE UNCHANGED vars
    BY <2>9 DEF vars, ArithmeticInv, OperandsInv, CompareInv, AddInv, SubtractInv, Done
  <2> QED
    BY <2>3, <2>4, <2>5, <2>6, <2>7, <2>8, <2>9 DEF Next
<1> QED
  BY <1>1, <1>2, PTL DEF Spec

-----------------------------------------------------------------------------
(* The properties                                                          *)

\* Every conditional branch that follows a SUBCC (a cmp) is the comparison of its
\* name, as geticc and branch_check compute it, for words of any width.
THEOREM ComparisonsRight == Spec => []BranchesCompare
<1>1. ArithmeticInv => BranchesCompare
  <2> SUFFICES ASSUME ArithmeticInv, Done("compare", 1)
               PROVE  BranchesCompare
    BY DEF BranchesCompare
  <2> DEFINE x == a.lo
             z == b.lo
  <2>1. x \in Word /\ z \in Word
    BY DEF ArithmeticInv, OperandsInv
  <2>2. icc = SubIcc(x, z, SubResult(x, z, 0))
    BY DEF ArithmeticInv, CompareInv
  <2>3. icc.z <=> x = z
    BY <2>1, <2>2, ZeroIsEqual
  <2>4. icc.c <=> x < z
    <3>1. icc.c <=> x - z - 0 < 0
      BY <2>1, <2>2, BorrowIsExact
    <3> QED
      BY <2>1, <3>1, TopIsPositive, SMT DEF Word
  <2>5. icc.n # icc.v <=> Signed(x) < Signed(z)
    <3>1. icc.n # icc.v <=> Signed(x) - Signed(z) - 0 < 0
      BY <2>1, <2>2, SignOfDifference
    <3>2. Signed(x) \in Int /\ Signed(z) \in Int
      BY <2>1, TopIsPositive, SMT DEF Word, Signed
    <3>3. Signed(x) - Signed(z) - 0 < 0 <=> Signed(x) < Signed(z)
      BY <3>2, SMT
    <3> QED
      BY <3>1, <3>3
  <2>6. x = z <=> Signed(x) = Signed(z)
    BY <2>1, TopIsPositive, SMT DEF Word, Signed, Neg
  <2>7. Signed(x) \in Int /\ Signed(z) \in Int /\ x \in Int /\ z \in Int
    BY <2>1, TopIsPositive, SMT DEF Word, Signed
  <2> HIDE DEF x, z
  <2>8. /\ ~(icc.z) <=> x # z
        /\ icc.z \/ icc.n # icc.v <=> Signed(x) <= Signed(z)
        /\ ~(icc.z \/ icc.n # icc.v) <=> Signed(x) > Signed(z)
        /\ icc.n = icc.v <=> Signed(x) >= Signed(z)
        /\ icc.c \/ icc.z <=> x <= z
        /\ ~(icc.c \/ icc.z) <=> x > z
        /\ ~(icc.c) <=> x >= z
    <3> DEFINE less == icc.n # icc.v
    <3>1. icc.n = icc.v <=> ~less
      OBVIOUS
    <3> HIDE DEF less
    <3>2. less <=> Signed(x) < Signed(z)
      BY <2>5 DEF less
    <3> QED
      BY <2>3, <2>4, <2>6, <2>7, <3>1, <3>2, SMT DEF less
  <2> USE DEF x, z
  <2> QED
    BY <2>3, <2>4, <2>5, <2>8 DEF BranchCheck, BranchesCompare
<1> QED
  BY <1>1, ArithmeticInvInductive, PTL

\* The carry of the ADDCC of the low words makes the ADDXCC of the high words
\* right, and its own carry is that of the sum of two words.
THEOREM AdditionsExact == Spec => []AdditionExact
<1>1. ArithmeticInv => AdditionExact
  <2> SUFFICES ASSUME ArithmeticInv, Done("add", 2)
               PROVE  Double(Result) + (IF icc.c THEN 4 * Top * Top ELSE 0)
                        = Double(a) + Double(b)
    BY DEF AdditionExact
  <2> DEFINE c1 == Carry(a.lo, b.lo)
             c2 == CarryBit(icc)
  <2>1. a.hi \in Word /\ a.lo \in Word /\ b.hi \in Word /\ b.lo \in Word
    BY DEF ArithmeticInv, OperandsInv
  <2>2. c1 \in {0, 1} /\ c2 \in {0, 1}
    BY DEF Carry, CarryBit
  <2>3. lo \in Word /\ lo + 2 * Top * c1 = a.lo + b.lo
    <3>1. lo = AddResult(a.lo, b.lo, 0)
      BY DEF ArithmeticInv, AddInv
    <3>2. lo \in Word /\ lo + 2 * Top * c1 = a.lo + b.lo + 0
      BY <2>1, <3>1, CarryIsExact DEF Carry
    <3> QED
      BY <2>1, <3>2, TopIsPositive, SMT DEF Word
  <2>4. hi \in Word /\ hi + 2 * Top * c2 = a.hi + b.hi + c1
    <3>1. /\ hi = AddResult(a.hi, b.hi, c1)
          /\ icc = AddIcc(a.hi, b.hi, AddResult(a.hi, b.hi, c1))
      BY DEF ArithmeticInv, AddInv
    <3> QED
      BY <2>1, <2>2, <3>1, CarryIsExact
  <2>5. IF icc.c THEN c2 = 1 ELSE c2 = 0
    BY DEF CarryBit
  <2> HIDE DEF c1, c2
  <2>6. hi * 2 * Top + lo + c2 * (4 * Top * Top)
            = a.hi * 2 * Top + a.lo + (b.hi * 2 * Top + b.lo)
    <3>1. /\ Top \in Int /\ hi \in Int /\ lo \in Int
          /\ a.hi \in Int /\ a.lo \in Int /\ b.hi \in Int /\ b.lo \in Int
          /\ c1 \in Int /\ c2 \in Int
      BY <2>1, <2>2, <2>3, <2>4, TopIsPositive, SMT DEF Word
    <3>2. hi * (2 * Top) + lo + c2 * ((2 * Top) * (2 * Top))
              = (a.hi + b.hi) * (2 * Top) + (a.lo + b.lo)
      <4>1. 2 * Top \in Int /\ a.hi + b.hi \in Int /\ a.lo + b.lo \in Int
        BY <3>1, SMT
      <4>2. lo + (2 * Top) * c1 = a.lo + b.lo /\ hi + (2 * Top) * c2 = (a.hi + b.hi) + c1
        BY <2>3, <2>4
      <4> DEFINE n == 2 * Top
                 high == a.hi + b.hi
                 low == a.lo + b.lo
      <4>3. n \in Int /\ high \in Int /\ low \in Int
        BY <4>1
      <4>4. lo + n * c1 = low /\ hi + n * c2 = high + c1
        BY <4>2
      <4> HIDE DEF n, high, low
      <4>5. hi * n + lo + c2 * (n * n) = high * n + low
        BY <3>1, <4>3, <4>4, TwoWords
      <4> QED
        BY <4>5 DEF n, high, low
    <3>3. hi * (2 * Top) = hi * 2 * Top /\ (2 * Top) * (2 * Top) = 4 * Top * Top
      BY <3>1, SMT
    <3>4. (a.hi + b.hi) * (2 * Top) + (a.lo + b.lo)
              = a.hi * 2 * Top + a.lo + (b.hi * 2 * Top + b.lo)
      BY <3>1, SMT
    <3> QED
      BY <3>2, <3>3, <3>4
  <2>7. Double(Result) = hi * 2 * Top + lo
    BY DEF Double, Result
  <2>8. Double(Result) + c2 * (4 * Top * Top) = Double(a) + Double(b)
    BY <2>6, <2>7 DEF Double
  <2>9. c2 * (4 * Top * Top) = IF icc.c THEN 4 * Top * Top ELSE 0
    BY <2>5, TopIsPositive, SMT
  <2> QED
    BY <2>8, <2>9
<1> QED
  BY <1>1, ArithmeticInvInductive, PTL

\* The borrow of the SUBCC of the low words makes the SUBXCC of the high words
\* right, and the branches after it compare numbers of two words.
THEOREM SubtractionsExact == Spec => []SubtractionExact
<1>1. ArithmeticInv => SubtractionExact
  <2> SUFFICES ASSUME ArithmeticInv, Done("subtract", 2)
               PROVE  /\ Double(Result) - (IF icc.c THEN 4 * Top * Top ELSE 0)
                            = Double(a) - Double(b)
                      /\ BranchCheck("bl", icc) <=>
                           Signed(a.hi) < Signed(b.hi) \/ (a.hi = b.hi /\ a.lo < b.lo)
    BY DEF SubtractionExact
  <2> DEFINE c1 == Borrow(a.lo, b.lo)
             c2 == CarryBit(icc)
  <2>1. a.hi \in Word /\ a.lo \in Word /\ b.hi \in Word /\ b.lo \in Word
    BY DEF ArithmeticInv, OperandsInv
  <2>2. c1 \in {0, 1} /\ c2 \in {0, 1}
    BY DEF Borrow, CarryBit
  <2>3. lo \in Word /\ lo - 2 * Top * c1 = a.lo - b.lo
    <3>1. lo = SubResult(a.lo, b.lo, 0)
      BY DEF ArithmeticInv, SubtractInv
    <3>2. lo \in Word /\ lo - 2 * Top * c1 = a.lo - b.lo - 0
      BY <2>1, <3>1, BorrowIsExact DEF Borrow
    <3> QED
      BY <2>1, <3>2, TopIsPositive, SMT DEF Word
  <2>4. /\ hi = SubResult(a.hi, b.hi, c1)
        /\ icc = SubIcc(a.hi, b.hi, SubResult(a.hi, b.hi, c1))
    BY DEF ArithmeticInv, SubtractInv
  <2>5. hi \in Word /\ hi - 2 * Top * c2 = a.hi - b.hi - c1
    BY <2>1, <2>2, <2>4, BorrowIsExact
  <2>6. IF icc.c THEN c2 = 1 ELSE c2 = 0
    BY DEF CarryBit
  <2>7. icc.n # icc.v <=> Signed(a.hi) - Signed(b.hi) - c1 < 0
    BY <2>1, <2>2, <2>4, SignOfDifference
  <2>8. c1 = IF a.lo < b.lo THEN 1 ELSE 0
    BY <2>1, <2>2, <2>3, TopIsPositive, SMT DEF Word
  <2> HIDE DEF c1, c2
  <2>9. (hi * 2 * Top + lo) - c2 * (4 * Top * Top)
            = (a.hi * 2 * Top + a.lo) - (b.hi * 2 * Top + b.lo)
    <3>1. /\ Top \in Int /\ hi \in Int /\ lo \in Int
          /\ a.hi \in Int /\ a.lo \in Int /\ b.hi \in Int /\ b.lo \in Int
          /\ c1 \in Int /\ c2 \in Int
      BY <2>1, <2>2, <2>3, <2>5, TopIsPositive, SMT DEF Word
    <3>2. hi * (2 * Top) + lo + (0 - c2) * ((2 * Top) * (2 * Top))
              = (a.hi - b.hi) * (2 * Top) + (a.lo - b.lo)
      <4>1. /\ 2 * Top \in Int /\ a.hi - b.hi \in Int /\ a.lo - b.lo \in Int
            /\ 0 - c1 \in Int /\ 0 - c2 \in Int
        BY <3>1, SMT
      <4>2. /\ (2 * Top) * (0 - c1) = 0 - 2 * Top * c1
            /\ (2 * Top) * (0 - c2) = 0 - 2 * Top * c2
        BY <3>1, SMT
      <4>3. 2 * Top * c1 \in Int /\ 2 * Top * c2 \in Int
        BY <3>1, SMT
      <4>4. lo + (2 * Top) * (0 - c1) = a.lo - b.lo
        BY <2>3, <3>1, <4>2, <4>3, SMT
      <4>5. hi + (2 * Top) * (0 - c2) = a.hi - b.hi + (0 - c1)
        BY <2>5, <3>1, <4>2, <4>3, SMT
      <4> QED
        BY <3>1, <4>1, <4>4, <4>5, TwoWords
    <3>3. /\ hi * (2 * Top) = hi * 2 * Top
          /\ hi * 2 * Top \in Int /\ c2 * (4 * Top * Top) \in Int
          /\ (0 - c2) * ((2 * Top) * (2 * Top)) = 0 - c2 * (4 * Top * Top)
      BY <3>1, SMT
    <3>4. (a.hi - b.hi) * (2 * Top) + (a.lo - b.lo)
              = (a.hi * 2 * Top + a.lo) - (b.hi * 2 * Top + b.lo)
      <4> DEFINE xh == a.hi  xl == a.lo  zh == b.hi  zl == b.lo
      <4>1. xh \in Int /\ xl \in Int /\ zh \in Int /\ zl \in Int
        BY <3>1
      <4> HIDE DEF xh, xl, zh, zl
      <4>2. (xh - zh) * (2 * Top) + (xl - zl) = (xh * 2 * Top + xl) - (zh * 2 * Top + zl)
        BY <3>1, <4>1, DifferenceOfTwoWords, SMT
      <4> QED
        BY <4>2 DEF xh, xl, zh, zl
    <3>5. hi * (2 * Top) + lo + (0 - c2) * ((2 * Top) * (2 * Top))
              = (hi * 2 * Top + lo) - c2 * (4 * Top * Top)
      BY <3>1, <3>3, SMT
    <3> QED
      BY <3>2, <3>4, <3>5
  <2>10. Double(Result) = hi * 2 * Top + lo
    BY DEF Double, Result
  <2>11. Double(Result) - (IF icc.c THEN 4 * Top * Top ELSE 0) = Double(a) - Double(b)
    <3>1. Double(a) = a.hi * 2 * Top + a.lo /\ Double(b) = b.hi * 2 * Top + b.lo
      BY DEF Double
    <3>2. c2 * (4 * Top * Top) = IF icc.c THEN 4 * Top * Top ELSE 0
      BY <2>6, TopIsPositive, SMT
    <3> QED
      <4> DEFINE out == IF icc.c THEN 4 * Top * Top ELSE 0
                 word == hi * 2 * Top + lo
      <4>1. word - c2 * (4 * Top * Top) = Double(a) - Double(b)
        <5> DEFINE da == a.hi * 2 * Top + a.lo
                   db == b.hi * 2 * Top + b.lo
        <5>1. word - c2 * (4 * Top * Top) = da - db
          BY <2>9
        <5>2. Double(a) = da /\ Double(b) = db
          BY <3>1
        <5> HIDE DEF da, db, word
        <5> QED
          BY <5>1, <5>2
      <4>2. c2 * (4 * Top * Top) = out /\ Double(Result) = word
        BY <2>10, <3>2
      <4> HIDE DEF out, word
      <4>3. Double(Result) - out = Double(a) - Double(b)
        BY <4>1, <4>2
      <4> QED
        BY <4>3 DEF out
  <2>12. Signed(a.hi) - Signed(b.hi) - c1 < 0 <=>
            Signed(a.hi) < Signed(b.hi) \/ (a.hi = b.hi /\ a.lo < b.lo)
    BY <2>1, <2>8, TopIsPositive, SMT DEF Signed, Neg, Word
  <2> QED
    BY <2>7, <2>11, <2>12 DEF BranchCheck
<1> QED
  BY <1>1, ArithmeticInvInductive, PTL

\* Conditions, carries and borrows of words of any width are what compilers take
\* them for: sum_c_set, sub_c_set, geticc and branch_check together.
THEOREM ArithmeticIsExact == Spec => []ArithmeticExact
BY ComparisonsRight, AdditionsExact, SubtractionsExact, PTL DEF ArithmeticExact

-----------------------------------------------------------------------------
(* The scratchpad                                                          *)

\* What holds of 0, and with a number of the next, holds of all.
LEMMA Induction ==
    ASSUME NEW S, 0 \in S, \A n \in Nat : n \in S => n + 1 \in S
    PROVE  \A n \in Nat : n \in S
<1> DEFINE R == OpToRel(<, Nat)
           T == Nat \ S
<1>1. IsWellFoundedOn(R, Nat)
  BY NatLessThanWellFounded
<1>2. \A x, z \in Nat : <<z, x>> \in R <=> z < x
  BY DEF OpToRel
<1>3. SUFFICES ASSUME T # {} PROVE FALSE
  OBVIOUS
<1> HIDE DEF R
<1>4. PICK x \in T : \A z \in T : ~ (<<z, x>> \in R)
  BY <1>1, <1>3, WFMin
<1>5. x \in Nat /\ x \notin S /\ x # 0
  BY <1>4
<1>6. x - 1 \in Nat /\ x - 1 < x /\ (x - 1) + 1 = x
  BY <1>5
<1>7. x - 1 \in S
  BY <1>2, <1>4, <1>5, <1>6
<1> QED BY <1>5, <1>6, <1>7

\* A run takes its addresses one after the other: there is such a sequence.
Added(f, from, s, n) ==
    f = [k \in 0 .. n |-> IF k = 0 THEN [list |-> list, mem |-> mem]
                          ELSE AddAddr(f[k - 1], from + k - 1, s + k - 1)]

LEMMA AddedExists ==
    ASSUME NEW from, NEW s
    PROVE  \A n \in Nat : \E f : Added(f, from, s, n)
<1> DEFINE S == {n \in Nat : \E f : Added(f, from, s, n)}
<1>1. 0 \in S
  <2> DEFINE f == [k \in 0 .. 0 |-> [list |-> list, mem |-> mem]]
  <2>1. Added(f, from, s, 0)
    BY DEF Added
  <2> QED BY <2>1
<1>2. ASSUME NEW n \in Nat, n \in S PROVE n + 1 \in S
  <2>1. PICK f : Added(f, from, s, n)
    BY <1>2
  <2> DEFINE g == [k \in 0 .. n + 1 |-> IF k = n + 1 THEN AddAddr(f[n], from + n, s + n) ELSE f[k]]
  <2>2. ASSUME NEW k \in 0 .. n + 1
        PROVE  g[k] = IF k = 0 THEN [list |-> list, mem |-> mem]
                      ELSE AddAddr(g[k - 1], from + k - 1, s + k - 1)
    <3>1. CASE k = 0
      BY <2>1, <3>1 DEF Added
    <3>2. CASE k = n + 1
      <4>1. g[k] = AddAddr(f[n], from + n, s + n) /\ g[n] = f[n]
        BY <3>2
      <4> QED BY <3>2, <4>1
    <3>3. CASE k \in 1 .. n
      <4>1. g[k] = f[k] /\ g[k - 1] = f[k - 1]
        BY <3>3
      <4> QED BY <2>1, <3>3, <4>1 DEF Added
    <3> QED BY <3>1, <3>2, <3>3
  <2>3. Added(g, from, s, n + 1)
    <3> HIDE DEF g
    <3>1. DOMAIN g = 0 .. n + 1 /\ g = [k \in 0 .. n + 1 |-> g[k]]
      BY DEF g
    <3> QED BY <2>2, <3>1 DEF Added
  <2> QED BY <2>3
<1>3. \A n \in Nat : n \in S
  <2> HIDE DEF S
  <2> QED BY <1>1, <1>2, Induction
<1> QED BY <1>3

LEMMA AddRunIs ==
    ASSUME NEW from, NEW s, NEW n \in Nat
    PROVE  \E f : Added(f, from, s, n) /\ AddRun(from, s, n) = f[n]
<1> DEFINE f == CHOOSE f : f = [k \in 0 .. n |->
                   IF k = 0 THEN [list |-> list, mem |-> mem]
                   ELSE AddAddr(f[k - 1], from + k - 1, s + k - 1)]
<1>1. Added(f, from, s, n)
  <2>1. \E g : g = [k \in 0 .. n |->
                   IF k = 0 THEN [list |-> list, mem |-> mem]
                   ELSE AddAddr(g[k - 1], from + k - 1, s + k - 1)]
    <3>1. \E g : Added(g, from, s, n)
      BY AddedExists, Zenon
    <3> QED BY <3>1, Zenon DEF Added
  <2>2. f = [k \in 0 .. n |->
                   IF k = 0 THEN [list |-> list, mem |-> mem]
                   ELSE AddAddr(f[k - 1], from + k - 1, s + k - 1)]
    BY <2>1, Zenon
  <2> QED BY <2>2, Zenon DEF Added
<1>2. AddRun(from, s, n) = f[n]
  BY Zenon DEF AddRun
<1> QED BY <1>1, <1>2, Zenon

\* One address comes to its location, with its word in main memory, and the
\* address that was there leaves with its own.
Comes(p, q, w, u) ==
    /\ p.list = [q.list EXCEPT ![u] = w]
    /\ DOMAIN p.mem = {w} \union (DOMAIN q.mem \ {q.list[u]})
    /\ \A c \in DOMAIN p.mem : p.mem[c] = IF c = w THEN main[w] ELSE q.mem[c]

LEMMA AddAddrIs ==
    ASSUME NEW q, NEW w, NEW u \in Slots
    PROVE  Comes(AddAddr(q, w, u), q, w, u)
<1> DEFINE M == WithWord(q.mem, DOMAIN q.mem \ {q.list[u]}, w)
           L == [q.list EXCEPT ![u] = w]
<1>1. /\ DOMAIN M = {w} \union (DOMAIN q.mem \ {q.list[u]})
      /\ \A c \in DOMAIN M : M[c] = IF c = w THEN main[w] ELSE q.mem[c]
  BY DEF WithWord
<1>2. AddAddr(q, w, u) = [list |-> L, mem |-> M]
  BY DEF AddAddr
<1>3. L = [q.list EXCEPT ![u] = w]
  OBVIOUS
<1> HIDE DEF L, M
<1>4. AddAddr(q, w, u).list = L /\ AddAddr(q, w, u).mem = M
  BY <1>2
<1> QED BY <1>1, <1>3, <1>4 DEF Comes

\* No address of the run has a location other than its own, nor has any had two.
Fresh(from, s, n) ==
    ~ (remapped \/ \E k \in 0 .. n - 1 :
         s + k \in Slots /\ \E u \in Slots \ {s + k} : list[u] = from + k)

\* The addresses of a run of k that find a location.
Taken(from, s, k) == {from + j : j \in {j \in 0 .. k - 1 : s + j \in Slots}}

\* No two locations have the same address, unless there were two for some.
ListedOnce ==
    ~remapped => \A u, v \in Slots : list[u] = list[v] => u = v \/ list[u] = Null

\* What the locations l and the words m are after k addresses of a run of n.
RunHolds(from, s, n, k, l, m) ==
    /\ l \in [Slots -> Addresses]
    /\ \A u \in Slots : l[u] = IF u - s \in 0 .. k - 1 THEN from + (u - s) ELSE list[u]
    /\ DOMAIN m \subseteq {l[u] : u \in Slots}
    /\ \A w \in DOMAIN m : IF w \in Taken(from, s, k) THEN m[w] = main[w]
                           ELSE w \in DOMAIN mem /\ m[w] = mem[w]
    /\ Fresh(from, s, n) =>
         /\ \A u \in Slots : l[u] # Null => l[u] \in DOMAIN m
         /\ \A u, v \in Slots : l[u] = l[v] => u = v \/ l[u] = Null
         /\ \A j \in 0 .. k - 1 : s + j \in Slots => from + j \in DOMAIN m

LEMMA RunStarts ==
    ASSUME ScratchpadConstants, PadTypeOK, HeldIsListed, ListedIsHeld, ListedOnce,
           NEW from \in Int, NEW s \in Int, NEW n \in Nat
    PROVE  RunHolds(from, s, n, 0, list, mem)
<1>1. Taken(from, s, 0) = {} /\ 0 .. 0 - 1 = {}
  BY DEF Taken
<1>2. list \in [Slots -> Addresses]
  BY DEF PadTypeOK
<1>3. Fresh(from, s, n) => ~remapped
  BY DEF Fresh
<1> QED BY <1>1, <1>2, <1>3 DEF RunHolds, HeldIsListed, ListedIsHeld, ListedOnce, IsAddrInSpm

LEMMA RunGoesOn ==
    ASSUME ScratchpadConstants, PadTypeOK,
           NEW from \in Nat, NEW s \in Slots, NEW n \in Nat, from + n - 1 \in Addresses,
           NEW k \in 0 .. n - 1, NEW q, RunHolds(from, s, n, k, q.list, q.mem),
           NEW p, p = AddAddr(q, from + k, s + k)
    PROVE  RunHolds(from, s, n, k + 1, p.list, p.mem)
<1> DEFINE l == q.list
           m == q.mem
<1>1. from + k \in Addresses /\ s + k \in Int /\ Slots \subseteq Int
  BY DEF Addresses, Slots, ScratchpadConstants
<1>2. l \in [Slots -> Addresses] /\ list \in [Slots -> Addresses]
  BY DEF RunHolds, PadTypeOK
<1>3. \A u \in Slots : l[u] = IF u - s \in 0 .. k - 1 THEN from + (u - s) ELSE list[u]
  BY DEF RunHolds
<1>4. /\ s + k \notin Slots => p.list = l /\ p.mem = m
      /\ s + k \in Slots =>
           /\ p.list = [l EXCEPT ![s + k] = from + k]
           /\ DOMAIN p.mem = {from + k} \union (DOMAIN m \ {l[s + k]})
           /\ \A c \in DOMAIN p.mem : p.mem[c] = IF c = from + k THEN main[from + k] ELSE m[c]
  <2> HIDE DEF l, m
  <2>1. CASE s + k \in Slots
    <3>1. Comes(p, q, from + k, s + k)
      BY <2>1, AddAddrIs
    <3> QED BY <2>1, <3>1 DEF Comes, l, m
  <2>2. CASE s + k \notin Slots
    BY <2>2 DEF AddAddr, l, m
  <2> QED BY <2>1, <2>2
<1> HIDE DEF l, m
<1>5. RunHolds(from, s, n, k, l, m)
  BY DEF l, m
<1>6. ASSUME s + k \notin Slots
      PROVE  \A j \in 0 .. (k + 1) - 1 : s + j \in Slots => j \in 0 .. k - 1
  <2> SUFFICES ASSUME NEW j \in 0 .. (k + 1) - 1, s + j \in Slots PROVE j \in 0 .. k - 1
    OBVIOUS
  <2>1. CASE j = k
    BY <1>6, <2>1
  <2>2. CASE j # k
    BY <2>2
  <2> QED BY <2>1, <2>2
<1>7. CASE s + k \notin Slots
  <2>1. Taken(from, s, k + 1) = Taken(from, s, k)
    <3>1. \A j \in 0 .. (k + 1) - 1 : s + j \in Slots => j \in 0 .. k - 1
      BY <1>7, <1>6
    <3>2. \A j \in 0 .. k - 1 : j \in 0 .. (k + 1) - 1
      OBVIOUS
    <3> QED BY <3>1, <3>2 DEF Taken
  <2>2. \A u \in Slots : u - s \in 0 .. (k + 1) - 1 <=> u - s \in 0 .. k - 1
    <3> SUFFICES ASSUME NEW u \in Slots, u - s = k PROVE FALSE
      BY <1>1
    <3>1. u = s + k
      BY <1>1
    <3> QED BY <1>7, <3>1
  <2> QED BY <1>4, <1>5, <1>6, <1>7, <2>1, <2>2 DEF RunHolds
<1>8. CASE s + k \in Slots
  <2> DEFINE l1 == p.list
             m1 == p.mem
  <2>1. l1 = [l EXCEPT ![s + k] = from + k] /\ l1 \in [Slots -> Addresses]
    BY <1>1, <1>2, <1>4, <1>8
  <2>2. /\ DOMAIN m1 = {from + k} \union (DOMAIN m \ {l[s + k]})
        /\ \A c \in DOMAIN m1 : m1[c] = IF c = from + k THEN main[from + k] ELSE m[c]
    BY <1>4, <1>8
  <2>3. l[s + k] = list[s + k]
    BY <1>1, <1>3, <1>8
  <2> HIDE DEF l1, m1
  <2>4. \A u \in Slots : l1[u] = IF u - s \in 0 .. (k + 1) - 1 THEN from + (u - s) ELSE list[u]
    BY <1>1, <1>2, <1>3, <1>8, <2>1
  <2>5. \A u \in Slots \ {s + k} : l1[u] = l[u]
    BY <1>2, <2>1
  <2>6. l1[s + k] = from + k
    BY <1>2, <1>8, <2>1
  <2>7. DOMAIN m1 \subseteq {l1[u] : u \in Slots}
    <3> SUFFICES ASSUME NEW w \in DOMAIN m1 PROVE \E u \in Slots : l1[u] = w
      OBVIOUS
    <3>1. CASE w = from + k
      BY <1>8, <2>6, <3>1
    <3>2. CASE w # from + k
      <4>1. w \in DOMAIN m /\ w # l[s + k]
        BY <2>2, <3>2
      <4>2. PICK u \in Slots : l[u] = w
        BY <1>5, <4>1 DEF RunHolds
      <4> QED BY <2>5, <4>1, <4>2
    <3> QED BY <3>1, <3>2
  <2>8. Taken(from, s, k + 1) = Taken(from, s, k) \union {from + k}
    <3>1. \A j \in 0 .. (k + 1) - 1 : j \in 0 .. k - 1 \/ j = k
      OBVIOUS
    <3>2. k \in 0 .. (k + 1) - 1 /\ \A j \in 0 .. k - 1 : j \in 0 .. (k + 1) - 1
      OBVIOUS
    <3> QED BY <1>8, <3>1, <3>2 DEF Taken
  <2>9. \A w \in DOMAIN m1 : IF w \in Taken(from, s, k + 1) THEN m1[w] = main[w]
                              ELSE w \in DOMAIN mem /\ m1[w] = mem[w]
    <3>1. \A w \in DOMAIN m : IF w \in Taken(from, s, k) THEN m[w] = main[w]
                              ELSE w \in DOMAIN mem /\ m[w] = mem[w]
      BY <1>5 DEF RunHolds
    <3> QED BY <2>2, <2>8, <3>1
  <2>10. ASSUME Fresh(from, s, n)
         PROVE  /\ \A u \in Slots : l1[u] # Null => l1[u] \in DOMAIN m1
                /\ \A u, v \in Slots : l1[u] = l1[v] => u = v \/ l1[u] = Null
                /\ \A j \in 0 .. (k + 1) - 1 : s + j \in Slots => from + j \in DOMAIN m1
    <3>1. \A u \in Slots : l[u] # Null => l[u] \in DOMAIN m
      BY <1>5, <2>10 DEF RunHolds
    <3>2. \A u, v \in Slots : l[u] = l[v] => u = v \/ l[u] = Null
      BY <1>5, <2>10 DEF RunHolds
    <3>3. \A j \in 0 .. k - 1 : s + j \in Slots => from + j \in DOMAIN m
      BY <1>5, <2>10 DEF RunHolds
    <3>4. \A i \in 0 .. n - 1 : s + i \in Slots => \A u \in Slots \ {s + i} : list[u] # from + i
      BY <2>10 DEF Fresh
    <3>5. \A u \in Slots \ {s + k} : l[u] # from + k
      BY <1>1, <1>3, <1>8, <3>4
    <3>6. \A u \in Slots : l1[u] # Null => l1[u] \in DOMAIN m1
      BY <1>8, <2>2, <2>5, <2>6, <3>1, <3>2
    <3>7. \A u, v \in Slots : l1[u] = l1[v] => u = v \/ l1[u] = Null
      BY <2>5, <2>6, <3>2, <3>5
    <3>8. \A j \in 0 .. k - 1 : s + j \in Slots => from + j # l[s + k]
      BY <1>1, <1>8, <2>3, <3>4
    <3>9. \A j \in 0 .. (k + 1) - 1 : s + j \in Slots => from + j \in DOMAIN m1
      BY <2>2, <3>3, <3>8
    <3> QED BY <3>6, <3>7, <3>9
  <2>11. RunHolds(from, s, n, k + 1, l1, m1)
    BY <2>1, <2>4, <2>7, <2>9, <2>10 DEF RunHolds
  <2> QED BY <2>11 DEF l1, m1
<1> QED BY <1>7, <1>8

LEMMA RunComplete ==
    ASSUME ScratchpadConstants, PadTypeOK, HeldIsListed, ListedIsHeld, ListedOnce,
           NEW from \in Nat, NEW s \in Slots, NEW n \in Nat, from + n - 1 \in Addresses
    PROVE  RunHolds(from, s, n, n, AddRun(from, s, n).list, AddRun(from, s, n).mem)
<1>1. PICK f : Added(f, from, s, n) /\ AddRun(from, s, n) = f[n]
  BY AddRunIs
<1> DEFINE S == {k \in Nat : k <= n => RunHolds(from, s, n, k, f[k].list, f[k].mem)}
<1>2. 0 \in S
  <2>1. f[0] = [list |-> list, mem |-> mem]
    BY <1>1 DEF Added
  <2>2. f[0].list = list /\ f[0].mem = mem
    BY <2>1
  <2>3. RunHolds(from, s, n, 0, list, mem)
    BY RunStarts DEF Slots, ScratchpadConstants
  <2> QED BY <2>2, <2>3
<1>3. ASSUME NEW k \in Nat, k \in S PROVE k + 1 \in S
  <2> SUFFICES ASSUME k + 1 <= n PROVE RunHolds(from, s, n, k + 1, f[k + 1].list, f[k + 1].mem)
    OBVIOUS
  <2>1. RunHolds(from, s, n, k, f[k].list, f[k].mem)
    BY <1>3
  <2>2. f[k + 1] = AddAddr(f[k], from + k, s + k)
    <3>1. (k + 1) - 1 = k /\ from + (k + 1) - 1 = from + k /\ s + (k + 1) - 1 = s + k
      BY DEF Slots, ScratchpadConstants
    <3>2. k + 1 \in 0 .. n /\ k + 1 # 0
      OBVIOUS
    <3>3. f[k + 1] = AddAddr(f[(k + 1) - 1], from + (k + 1) - 1, s + (k + 1) - 1)
      BY <1>1, <3>2, Zenon DEF Added
    <3> QED BY <3>1, <3>3
  <2>3. k \in 0 .. n - 1
    OBVIOUS
  <2> QED BY <2>1, <2>2, <2>3, RunGoesOn
<1>4. \A k \in Nat : k \in S
  <2> HIDE DEF S
  <2> QED BY <1>2, <1>3, Induction
<1> QED BY <1>1, <1>4

-----------------------------------------------------------------------------
(* The inductive invariant                                                 *)

\* A transfer reads addresses that there are, and a word that is neither lost
\* nor dirty is in main memory as it was stored.
PadInv ==
    /\ PadTypeOK
    /\ dma.source + BurstWords - 1 \in Addresses
    /\ HeldIsListed
    /\ ListedIsHeld
    /\ ListedOnce
    /\ ReadsLatest
    /\ \A w \in Addresses \ (lost \union dirty) : main[w] = latest[w]

LEMMA PadInitInv == ScratchpadConstants /\ PadInit => PadInv
<1> SUFFICES ASSUME ScratchpadConstants, PadInit PROVE PadInv
  OBVIOUS
<1>1. DOMAIN mem = {}
  BY DEF PadInit
<1>2. PadTypeOK
  <2>1. 0 \in Addresses /\ 0 \in Slots /\ Null \in Addresses
    BY DEF ScratchpadConstants, Addresses, Slots, Null
  <2>2. dma \in [state : {"IDLE", "BUSY"}, source : Addresses, target : Slots]
    BY <2>1 DEF PadInit
  <2>3. list \in [Slots -> Addresses]
    BY <2>1 DEF PadInit
  <2> QED BY <1>1, <2>2, <2>3 DEF PadInit, PadTypeOK
<1>3. dma.source + BurstWords - 1 \in Addresses
  BY DEF PadInit, Addresses, ScratchpadConstants
<1>4. HeldIsListed /\ ListedIsHeld /\ ListedOnce
  BY <1>1 DEF PadInit, HeldIsListed, ListedIsHeld, ListedOnce
<1>5. ReadsLatest /\ \A w \in Addresses : main[w] = latest[w]
  BY <1>1 DEF PadInit, ReadsLatest, ReadData, IsAddrInSpm
<1> QED BY <1>2, <1>3, <1>4, <1>5 DEF PadInv

\* A fill, of a line or by a transfer.
LEMMA FillKeeps ==
    ASSUME ScratchpadConstants, PadInv,
           NEW from \in Nat, NEW s \in Slots, NEW n \in Nat, from + n - 1 \in Addresses,
           Fill(from, s, n), FillHistory(from, s, n), main' = main,
           loading' \in {"inst", "data", "none"},
           dma' \in [state : {"IDLE", "BUSY"}, source : Addresses, target : Slots],
           dma'.source + BurstWords - 1 \in Addresses
    PROVE  /\ PadInv'
           /\ ~remapped' => \A k \in 0 .. n - 1 : s + k \in Slots =>
                /\ list'[s + k] = from + k
                /\ mem'[from + k] = main[from + k]
<1>1. RunHolds(from, s, n, n, list', mem')
  BY RunComplete DEF Fill, PadInv
<1>2. remapped' \in BOOLEAN /\ (~remapped' => Fresh(from, s, n))
  BY DEF FillHistory, Fresh, PadInv, PadTypeOK
<1> DEFINE evicted == DOMAIN mem \ DOMAIN mem'
           taken   == Taken(from, s, n)
<1>3. /\ lost' = lost \union (dirty \intersect (taken \union evicted))
      /\ dirty' = dirty \ (taken \union evicted)
      /\ latest' = latest
  <2>1. {from + k : k \in {k \in 0 .. n - 1 : s + k \in Slots}} = taken
    BY DEF Taken
  <2> QED BY <2>1 DEF FillHistory
<1>4. DOMAIN mem' \subseteq Addresses
  BY <1>1 DEF RunHolds
<1>5. \A w \in DOMAIN mem' : IF w \in taken THEN mem'[w] = main[w]
                             ELSE w \in DOMAIN mem /\ mem'[w] = mem[w]
  BY <1>1 DEF RunHolds
<1> HIDE DEF taken
<1>6. PadTypeOK'
  <2>1. \A w \in DOMAIN mem' : mem'[w] \in Values
    BY <1>4, <1>5 DEF PadInv, PadTypeOK
  <2>2. list' \in [Slots -> Addresses]
    BY <1>1 DEF RunHolds
  <2>3. main' \in [Addresses -> Values] /\ latest' \in [Addresses -> Values]
        /\ dirty' \subseteq Addresses /\ lost' \subseteq Addresses
    BY <1>3 DEF PadInv, PadTypeOK
  <2> QED BY <1>2, <1>4, <2>1, <2>2, <2>3 DEF PadTypeOK
<1>7. HeldIsListed'
  BY <1>1 DEF RunHolds, HeldIsListed
<1>8. ListedIsHeld' /\ ListedOnce'
  BY <1>1, <1>2 DEF RunHolds, ListedIsHeld, ListedOnce, IsAddrInSpm
<1>9. \A w \in Addresses \ (lost \union dirty) : main[w] = latest[w]
  BY DEF PadInv
<1>10. \A w \in Addresses \ lost' : w \notin lost /\ (w \in dirty => w \notin taken /\ w \notin evicted)
  BY <1>3
<1>11. ReadsLatest'
  <2> SUFFICES ASSUME NEW w \in Addresses \ lost' PROVE ReadData(w)' = latest[w]
    BY <1>3 DEF ReadsLatest
  <2>1. w \notin lost /\ (w \in dirty => w \notin taken /\ w \notin evicted)
    BY <1>10
  <2>2. ReadData(w) = latest[w]
    BY <2>1 DEF PadInv, ReadsLatest
  <2>3. ReadData(w)' = IF w # Null /\ w \in DOMAIN mem' THEN mem'[w] ELSE main[w]
    BY DEF ReadData, IsAddrInSpm
  <2>4. ReadData(w) = IF w # Null /\ w \in DOMAIN mem THEN mem[w] ELSE main[w]
    BY DEF ReadData, IsAddrInSpm
  <2>5. w \notin dirty => main[w] = latest[w]
    BY <1>9, <2>1
  <2> QED BY <1>5, <2>1, <2>2, <2>3, <2>4, <2>5
<1>12. \A w \in Addresses \ (lost' \union dirty') : main'[w] = latest'[w]
  <2> SUFFICES ASSUME NEW w \in Addresses, w \notin lost', w \notin dirty' PROVE main[w] = latest[w]
    BY <1>3
  <2>1. w \notin lost /\ w \notin dirty
    BY <1>3, <1>10
  <2> QED BY <1>9, <2>1
<1>13. ASSUME ~remapped', NEW k \in 0 .. n - 1, s + k \in Slots
       PROVE  list'[s + k] = from + k /\ mem'[from + k] = main[from + k]
  <2>1. (s + k) - s = k /\ k \in 0 .. n - 1
    BY DEF Slots, ScratchpadConstants
  <2>2. list'[s + k] = from + k
    BY <1>1, <1>13, <2>1 DEF RunHolds
  <2>3. from + k \in DOMAIN mem'
    BY <1>1, <1>2, <1>13 DEF RunHolds
  <2>4. from + k \in Taken(from, s, n)
    BY <1>13 DEF Taken
  <2> QED BY <1>5, <2>2, <2>3, <2>4 DEF taken
<1> QED BY <1>6, <1>7, <1>8, <1>11, <1>12, <1>13 DEF PadInv

LEMMA LineKeeps ==
    ASSUME ScratchpadConstants, PadInv, LoadLine
    PROVE  PadInv'
<1>1. PICK min \in Addresses, max \in Addresses :
         /\ min < max
         /\ LET n     == IF max - min <= HalfSize THEN max - min ELSE HalfSize
                start == ScratchStart[loading]
            IN  Fill(min, start, n) /\ FillHistory(min, start, n)
         /\ loading' = IF max - min <= HalfSize THEN loading ELSE NextFile[loading]
  BY DEF LoadLine
<1> DEFINE n     == IF max - min <= HalfSize THEN max - min ELSE HalfSize
           start == ScratchStart[loading]
<1>2. min \in Nat /\ n \in Nat /\ min + n - 1 \in Addresses
  BY <1>1 DEF Addresses, ScratchpadConstants
<1>3. loading \in {"inst", "data"} /\ main' = main /\ dma' = dma
  BY DEF LoadLine, PadInv, PadTypeOK
<1>4. start \in Slots
  BY <1>3 DEF ScratchStart, Slots, ScratchpadConstants
<1>5. loading' \in {"inst", "data", "none"}
  BY <1>1, <1>3 DEF NextFile
<1>6. /\ dma' \in [state : {"IDLE", "BUSY"}, source : Addresses, target : Slots]
      /\ dma'.source + BurstWords - 1 \in Addresses
  BY <1>3 DEF PadInv, PadTypeOK
<1>7. Fill(min, start, n) /\ FillHistory(min, start, n)
  BY <1>1
<1> HIDE DEF n, start
<1> QED BY <1>2, <1>3, <1>4, <1>5, <1>6, <1>7, FillKeeps

\* A transfer, whose words arrive.
LEMMA TransferKeeps ==
    ASSUME ScratchpadConstants, PadInv, Transfer
    PROVE  /\ PadInv'
           /\ ~remapped' => \A k \in 0 .. BurstWords - 1 : dma.target + k \in Slots =>
                /\ list'[dma.target + k] = dma.source + k
                /\ mem'[dma.source + k] = main[dma.source + k]
<1> DEFINE from == dma.source
           s == dma.target
<1>1. /\ dma \in [state : {"IDLE", "BUSY"}, source : Addresses, target : Slots]
      /\ from + BurstWords - 1 \in Addresses /\ loading \in {"inst", "data", "none"}
  BY DEF PadInv, PadTypeOK
<1>2. from \in Nat /\ s \in Slots /\ BurstWords \in Nat
  BY <1>1 DEF Addresses, ScratchpadConstants
<1>3. /\ dma' \in [state : {"IDLE", "BUSY"}, source : Addresses, target : Slots]
      /\ dma'.source = from
  BY <1>1 DEF Transfer
<1>4. Fill(from, s, BurstWords) /\ FillHistory(from, s, BurstWords) /\ main' = main /\ loading' = loading
  BY DEF Transfer
<1> HIDE DEF from, s
<1>5. /\ PadInv'
      /\ ~remapped' => \A k \in 0 .. BurstWords - 1 : s + k \in Slots =>
           /\ list'[s + k] = from + k
           /\ mem'[from + k] = main[from + k]
  BY <1>1, <1>2, <1>3, <1>4, FillKeeps
<1> QED BY <1>5 DEF from, s

\* A store goes where a later read of the address looks.
LEMMA StoreKeeps ==
    ASSUME ScratchpadConstants, PadInv, StoreWord
    PROVE  PadInv'
<1>1. PICK from \in Addresses, v \in Values :
         /\ WriteData(from, v)
         /\ latest' = [latest EXCEPT ![from] = v]
         /\ dirty' = IF IsAddrInSpm(mem, from) THEN dirty \union {from} ELSE dirty
         /\ lost' = lost \ {from}
  BY DEF StoreWord
<1>2. UNCHANGED <<list, dma, loading, remapped>>
  BY DEF StoreWord
<1>3. PadTypeOK /\ ReadsLatest /\ HeldIsListed /\ ListedIsHeld /\ ListedOnce
      /\ \A w \in Addresses \ (lost \union dirty) : main[w] = latest[w]
  BY DEF PadInv
<1>4. CASE IsAddrInSpm(mem, from)
  <2>1. from # Null /\ from \in DOMAIN mem /\ mem' = [mem EXCEPT ![from] = v] /\ main' = main
        /\ dirty' = dirty \union {from}
    BY <1>1, <1>4 DEF IsAddrInSpm, WriteData
  <2>2. DOMAIN mem' = DOMAIN mem /\ \A w \in DOMAIN mem : mem'[w] = IF w = from THEN v ELSE mem[w]
    BY <2>1
  <2>3. PadTypeOK'
    <3>1. \A w \in DOMAIN mem' : mem'[w] \in Values
      BY <1>3, <2>2 DEF PadTypeOK
    <3> QED BY <1>1, <1>2, <1>3, <2>1, <2>2, <3>1 DEF PadTypeOK
  <2>4. ReadsLatest'
    <3> SUFFICES ASSUME NEW w \in Addresses, w \notin lost' PROVE ReadData(w)' = latest'[w]
      BY DEF ReadsLatest
    <3>1. CASE w = from
      BY <1>1, <1>3, <2>1, <2>2, <3>1 DEF ReadData, IsAddrInSpm, PadTypeOK
    <3>2. CASE w # from
      <4>1. ReadData(w) = latest[w]
        BY <1>1, <1>3, <3>2 DEF ReadsLatest
      <4> QED BY <1>1, <1>3, <2>1, <2>2, <3>2, <4>1 DEF ReadData, IsAddrInSpm, PadTypeOK
    <3> QED BY <3>1, <3>2
  <2>5. HeldIsListed' /\ ListedIsHeld' /\ ListedOnce'
    BY <1>2, <1>3, <2>2 DEF HeldIsListed, ListedIsHeld, ListedOnce, IsAddrInSpm
  <2>6. \A w \in Addresses \ (lost' \union dirty') : main'[w] = latest'[w]
    BY <1>1, <1>3, <2>1 DEF PadTypeOK
  <2> QED BY <1>2, <2>3, <2>4, <2>5, <2>6 DEF PadInv
<1>5. CASE ~IsAddrInSpm(mem, from)
  <2>1. main' = [main EXCEPT ![from] = v] /\ mem' = mem /\ dirty' = dirty
    BY <1>1, <1>5 DEF WriteData
  <2>2. PadTypeOK'
    BY <1>1, <1>2, <1>3, <2>1 DEF PadTypeOK
  <2>3. ReadsLatest'
    <3> SUFFICES ASSUME NEW w \in Addresses, w \notin lost' PROVE ReadData(w)' = latest'[w]
      BY DEF ReadsLatest
    <3>1. CASE w = from
      BY <1>1, <1>3, <1>5, <2>1, <3>1 DEF ReadData, IsAddrInSpm, PadTypeOK
    <3>2. CASE w # from
      <4>1. ReadData(w) = latest[w]
        BY <1>1, <1>3, <3>2 DEF ReadsLatest
      <4> QED BY <1>1, <1>3, <2>1, <3>2, <4>1 DEF ReadData, IsAddrInSpm, PadTypeOK
    <3> QED BY <3>1, <3>2
  <2>4. HeldIsListed' /\ ListedIsHeld' /\ ListedOnce'
    BY <1>2, <1>3, <2>1 DEF HeldIsListed, ListedIsHeld, ListedOnce, IsAddrInSpm
  <2>5. \A w \in Addresses \ (lost' \union dirty') : main'[w] = latest'[w]
    BY <1>1, <1>3, <2>1 DEF PadTypeOK
  <2> QED BY <1>2, <2>2, <2>3, <2>4, <2>5 DEF PadInv
<1> QED BY <1>4, <1>5

\* The steps that move no word.
LEMMA OthersKeepPad ==
    ASSUME ScratchpadConstants, PadInv, EndOfFile \/ MakeTransfer \/ UNCHANGED padVars
    PROVE  PadInv'
<1>1. UNCHANGED <<main, list, mem, latest, dirty, lost, remapped>>
  BY DEF EndOfFile, MakeTransfer, padVars, pad, history
<1>2. /\ dma' \in [state : {"IDLE", "BUSY"}, source : Addresses, target : Slots]
      /\ dma'.source + BurstWords - 1 \in Addresses
  <2>1. CASE MakeTransfer
    <3>1. PICK source \in 0 .. MaxAddr - BurstWords + 1, target \in Slots :
             dma' = [state |-> "BUSY", source |-> source, target |-> target]
      BY <2>1 DEF MakeTransfer
    <3> QED BY <3>1 DEF Addresses, ScratchpadConstants
  <2>2. CASE EndOfFile \/ UNCHANGED padVars
    BY <2>2 DEF EndOfFile, padVars, PadInv, PadTypeOK
  <2> QED BY <2>1, <2>2
<1>3. loading' \in {"inst", "data", "none"}
  BY DEF EndOfFile, MakeTransfer, padVars, PadInv, PadTypeOK, NextFile
<1> QED
  BY <1>1, <1>2, <1>3 DEF PadInv, PadTypeOK, HeldIsListed, ListedIsHeld, ListedOnce,
                          ReadsLatest, ReadData, IsAddrInSpm

LEMMA PadStep == ASSUME ScratchpadConstants, PadInv, [PadNext]_padVars PROVE PadInv'
<1> QED BY LineKeeps, TransferKeeps, StoreKeeps, OthersKeepPad DEF PadNext

\* Whatever is loaded, transferred and stored, and wherever a transfer comes
\* (add_addr, write_data, dma::behavior), the map holds no word without a
\* location, and a thread reads at every address what it stored there last,
\* unless the word was thrown out of the scratchpad or fetched again meanwhile.
THEOREM PadIsSound == ScratchpadConstants => (PadSpec => []ScratchpadSound)
<1> SUFFICES ASSUME ScratchpadConstants PROVE PadSpec => []ScratchpadSound
  OBVIOUS
<1>1. PadInit => PadInv
  BY PadInitInv
<1>2. PadInv /\ [PadNext]_padVars => PadInv'
  BY PadStep
<1>3. PadInv => ScratchpadSound
  BY DEF PadInv, ScratchpadSound
<1> QED BY <1>1, <1>2, <1>3, PTL DEF PadSpec

\* A transfer that is complete has brought the words of main memory to every
\* location it was to fill, whatever was stored while it was under way,
\* unless an address has two locations.
THEOREM TransfersArrive == ScratchpadConstants => (PadSpec => TransferArrives)
<1> SUFFICES ASSUME ScratchpadConstants PROVE PadSpec => TransferArrives
  OBVIOUS
<1> DEFINE A == dma.state = "BUSY" /\ dma'.state = "IDLE" /\ ~remapped' =>
                   \A k \in 0 .. BurstWords - 1 : dma.target + k \in Slots =>
                       /\ list'[dma.target + k] = dma.source + k
                       /\ mem'[dma.source + k] = main[dma.source + k]
<1>1. PadInit => PadInv
  BY PadInitInv
<1>2. PadInv /\ [PadNext]_padVars => PadInv'
  BY PadStep
<1>3. PadInv /\ [PadNext]_padVars => [A]_padVars
  <2> SUFFICES ASSUME PadInv, PadNext PROVE A
    OBVIOUS
  <2>1. CASE Transfer
    BY <2>1, TransferKeeps
  <2>2. CASE LoadLine \/ EndOfFile \/ StoreWord
    BY <2>2 DEF LoadLine, EndOfFile, StoreWord
  <2>3. CASE MakeTransfer
    BY <2>3 DEF MakeTransfer
  <2> QED BY <2>1, <2>2, <2>3 DEF PadNext
<1> QED BY <1>1, <1>2, <1>3, PTL DEF PadSpec, TransferArrives

=============================================================================
