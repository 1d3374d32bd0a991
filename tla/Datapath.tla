------------------------------- MODULE Datapath -------------------------------
(***************************************************************************)
(* Instructions at work together: a comparison, additions and subtractions *)
(* of two words, a multiplication of one step per bit, and stores of every *)
(* size into a word.  A step is an instruction, and the condition codes    *)
(* and Y are what it leaves to the next one.                               *)
(***************************************************************************)
EXTENDS Integers

-----------------------------------------------------------------------------
(* The arithmetic of the execute stage: additions and subtractions with    *)
(* and without carry, the multiply step, the condition codes they set and  *)
(* the branch conditions that read them.                                   *)
(*                                                                         *)
(* A word is the number its bits stand for without a sign.  Its width is   *)
(* given by the weight of its top bit, 2^31 in the code.                   *)

CONSTANT Top

ASSUME TopIsPositive == Top \in Nat \ {0}

Word == 0 .. 2 * Top - 1

Wrap(x) == x % (2 * Top)

\* The top bit of a word, x >> 31 in the code.
Neg(x) == x >= Top

Signed(x) == IF Neg(x) THEN x - 2 * Top ELSE x

-----------------------------------------------------------------------------
(* perform_alu_operations and geticc                                       *)

\* ALU_ADD and ALU_SUB, carry being 0 in the instructions without it.
AddResult(a, b, carry) == Wrap(a + b + carry)
SubResult(a, b, carry) == Wrap(a - b - carry)

ClearIcc == [n |-> FALSE, z |-> FALSE, v |-> FALSE, c |-> FALSE]

CarryBit(icc) == IF icc.c THEN 1 ELSE 0

\* Mutant: the overflow of a subtraction is looked for as that of an addition.
SubIccAsAdd(a, b, r) ==
    [n |-> Neg(r),
     z |-> r = 0,
     v |-> (Neg(a) <=> Neg(b)) /\ (Neg(a) <=> ~Neg(r)),
     c |-> (~Neg(a) /\ Neg(b)) \/ ((~Neg(a) \/ Neg(b)) /\ Neg(r))]

\* Mutant: the borrow is that of the top bits alone.
SubIccShortBorrow(a, b, r) ==
    [n |-> Neg(r),
     z |-> r = 0,
     v |-> (Neg(a) <=> ~Neg(b)) /\ (Neg(a) <=> ~Neg(r)),
     c |-> ~Neg(a) /\ Neg(b)]

\* geticc after ALU_SUB.
SubIcc(a, b, r) ==
    [n |-> Neg(r),
     z |-> r = 0,
     v |-> (Neg(a) <=> ~Neg(b)) /\ (Neg(a) <=> ~Neg(r)),
     c |-> (~Neg(a) /\ Neg(b)) \/ ((~Neg(a) \/ Neg(b)) /\ Neg(r))]

\* Mutant: two operands with the top bit carry only if the sum has it not.
AddIccShortCarry(a, b, r) ==
    [n |-> Neg(r),
     z |-> r = 0,
     v |-> (Neg(a) <=> Neg(b)) /\ (Neg(a) <=> ~Neg(r)),
     c |-> (Neg(a) \/ Neg(b)) /\ ~Neg(r)]

\* geticc after ALU_ADD, and after ALU_MUL.
AddIcc(a, b, r) ==
    [n |-> Neg(r),
     z |-> r = 0,
     v |-> (Neg(a) <=> Neg(b)) /\ (Neg(a) <=> ~Neg(r)),
     c |-> (Neg(a) /\ Neg(b)) \/ (~Neg(r) /\ (Neg(a) \/ Neg(b)))]

\* Mutant: the sign that is shifted in is N alone.
MulsccNoOverflow(rs1, rs2, y, icc) ==
    LET shifted == rs1 \div 2 + (IF icc.n THEN Top ELSE 0)
        result  == IF y % 2 = 1 THEN Wrap(shifted + rs2) ELSE shifted
    IN  [result |-> result,
         y      |-> y \div 2 + (rs1 % 2) * Top,
         icc    |-> AddIcc(shifted, rs2, result)]

\* ALU_MUL, a step of a multiplication: the partial product in rs1 and Y is
\* shifted to the right, and the multiplicand added if Y was odd.  The condition
\* codes are set as if it had been added in any case.
Mulscc(rs1, rs2, y, icc) ==
    LET shifted == rs1 \div 2 + (IF icc.n # icc.v THEN Top ELSE 0)
        result  == IF y % 2 = 1 THEN Wrap(shifted + rs2) ELSE shifted
    IN  [result |-> result,
         y      |-> y \div 2 + (rs1 % 2) * Top,
         icc    |-> AddIcc(shifted, rs2, result)]

-----------------------------------------------------------------------------
(* branch_check                                                            *)

BranchCheck(cond, icc) ==
    CASE cond = "ba"   -> TRUE
      [] cond = "bn"   -> FALSE
      [] cond = "bne"  -> ~icc.z
      [] cond = "be"   -> icc.z
      [] cond = "bg"   -> ~(icc.z \/ icc.n # icc.v)
      [] cond = "ble"  -> icc.z \/ icc.n # icc.v
      [] cond = "bge"  -> icc.n = icc.v
      [] cond = "bl"   -> icc.n # icc.v
      [] cond = "bgu"  -> ~(icc.c \/ icc.z)
      [] cond = "bleu" -> icc.c \/ icc.z
      [] cond = "bcc"  -> ~icc.c
      [] cond = "bcs"  -> icc.c
      [] cond = "bpos" -> ~icc.n
      [] cond = "bneg" -> icc.n
      [] cond = "bvc"  -> ~icc.v
      [] cond = "bvs"  -> icc.v

-----------------------------------------------------------------------------
(* The bytes and halfwords that loads and stores pick out of an aligned    *)
(* word: instruction::read_data, get_write_data and mem::behavior.  A byte *)
(* has ByteSize values, 256 in the code.                                   *)

CONSTANT ByteSize

ASSUME ByteSizeIsEven == ByteSize \in Nat \ {0} /\ ByteSize % 2 = 0

\* Sizes of accesses, and the offsets in a word to which they are aligned.
ByteSizes == {"signed byte", "unsigned byte"}
HalfSizes == {"signed halfword", "unsigned halfword"}
Sizes == ByteSizes \union HalfSizes \union {"word"}
Offsets(size) == CASE size \in ByteSizes -> 0 .. 3
                   [] size \in HalfSizes -> {0, 2}
                   [] size = "word"      -> {0}

MemoryWord == 0 .. ByteSize ^ 4 - 1

BytesIn(size) == CASE size \in ByteSizes -> 1 [] size \in HalfSizes -> 2 [] size = "word" -> 4

\* The number of values that a datum of a size has.
Range(size) == ByteSize ^ BytesIn(size)

SignExtend(x, range) == IF 2 * x >= range THEN x - range ELSE x

\* read_data: shifted left by the bytes before the datum and then right, with
\* the sign or without it.
ReadWordData(size, data, offset) ==
    LET datum == ((data * ByteSize ^ offset) % ByteSize ^ 4) \div (ByteSize ^ 4 \div Range(size))
    IN  IF size \in {"signed byte", "signed halfword"}
        THEN SignExtend(datum, Range(size))
        ELSE datum

\* Mutant: bytes are numbered from the other end.
WriteLittleEndian(size, old, value, offset) ==
    LET unit == ByteSize ^ offset
    IN  (value % Range(size)) * unit + old - ((old \div unit) % Range(size)) * unit

\* get_write_data: the datum shifted to its place, in the old word without what
\* was there.
GetWriteData(size, old, value, offset) ==
    LET unit == ByteSize ^ (4 - BytesIn(size) - offset)
    IN  (value % Range(size)) * unit + old - ((old \div unit) % Range(size)) * unit

-----------------------------------------------------------------------------

CONSTANTS
    Width,          \* the bits of a word, 32
    Stored          \* the values that stores put into the word

ASSUME DatapathConstants ==
    /\ Width \in Nat \ {0} /\ 2 * Top = 2 ^ Width
    /\ Stored \subseteq MemoryWord

Routines == {"compare", "add", "subtract", "multiply", "store"}

VARIABLES
    routine,        \* the instructions that are executed
    step,           \* how many of them have been
    a, b,           \* the operands: [hi, lo]
    hi, lo,         \* the registers of the result
    y, icc,         \* the Y register and the condition codes
    memory,         \* an aligned word of the main memory
    bytes           \* history: what the bytes of that word should be

vars == <<routine, step, a, b, hi, lo, y, icc, memory, bytes>>

At(r, n) == routine = r /\ step = n /\ step' = n + 1 /\ UNCHANGED <<routine, a, b>>

-----------------------------------------------------------------------------
(* SUBCC of the low words, before a branch                                 *)

Compare ==
    /\ At("compare", 0)
    /\ icc' = SubIcc(a.lo, b.lo, SubResult(a.lo, b.lo, 0))
    /\ UNCHANGED <<hi, lo, y, memory, bytes>>

-----------------------------------------------------------------------------
(* ADDCC, ADDXCC and SUBCC, SUBXCC                                         *)

AddLow ==
    /\ At("add", 0)
    /\ lo' = AddResult(a.lo, b.lo, 0)
    /\ icc' = AddIcc(a.lo, b.lo, lo')
    /\ UNCHANGED <<hi, y, memory, bytes>>

AddHigh ==
    /\ At("add", 1)
    /\ hi' = AddResult(a.hi, b.hi, CarryBit(icc))
    /\ icc' = AddIcc(a.hi, b.hi, hi')
    /\ UNCHANGED <<lo, y, memory, bytes>>

SubtractLow ==
    /\ At("subtract", 0)
    /\ lo' = SubResult(a.lo, b.lo, 0)
    /\ icc' = SubIcc(a.lo, b.lo, lo')
    /\ UNCHANGED <<hi, y, memory, bytes>>

SubtractHigh ==
    /\ At("subtract", 1)
    /\ hi' = SubResult(a.hi, b.hi, CarryBit(icc))
    /\ icc' = SubIcc(a.hi, b.hi, hi')
    /\ UNCHANGED <<lo, y, memory, bytes>>

-----------------------------------------------------------------------------
(* The multiplication of a.lo, without a sign, and b.lo, with one          *)

\* WRY of the multiplier, and an ANDCC that clears the partial product, N and V.
MultiplyStart ==
    /\ At("multiply", 0)
    /\ y' = a.lo
    /\ hi' = 0
    /\ icc' = [ClearIcc EXCEPT !.z = TRUE]
    /\ UNCHANGED <<lo, memory, bytes>>

\* A MULSCC for every bit of the multiplier, and one of 0 to shift once more.
MultiplyStep ==
    /\ step \in 1 .. Width + 1
    /\ At("multiply", step)
    /\ LET done == Mulscc(hi, IF step <= Width THEN b.lo ELSE 0, y, icc)
       IN  hi' = done.result /\ y' = done.y /\ icc' = done.icc
    /\ UNCHANGED <<lo, memory, bytes>>

-----------------------------------------------------------------------------
(* Stores of bytes, halfwords and words                                    *)

\* The byte n of a number of a size, the first one being the most significant.
ByteOf(value, size, n) == (value \div (Range(size) \div ByteSize ^ (n + 1))) % ByteSize

Store(size, offset, value) ==
    /\ routine = "store"
    /\ memory' = GetWriteData(size, memory, value, offset)
    /\ bytes' = [n \in 0 .. 3 |->
           IF n \in offset .. offset + BytesIn(size) - 1
           THEN ByteOf(value, size, n - offset)
           ELSE bytes[n]]
    /\ UNCHANGED <<routine, step, a, b, hi, lo, y, icc>>

-----------------------------------------------------------------------------

Operands(r) == IF r = "store" THEN {[hi |-> 0, lo |-> 0]}
               ELSE IF r \in {"add", "subtract"} THEN [hi : Word, lo : Word]
               ELSE [hi : {0}, lo : Word]

Init ==
    /\ routine \in Routines
    /\ step = 0
    /\ a \in Operands(routine)
    /\ b \in Operands(routine)
    /\ hi = 0 /\ lo = 0 /\ y = 0
    /\ icc = ClearIcc
    /\ memory = 0
    /\ bytes = [n \in 0 .. 3 |-> 0]

Next ==
    \/ Compare
    \/ AddLow \/ AddHigh
    \/ SubtractLow \/ SubtractHigh
    \/ MultiplyStart \/ MultiplyStep
    \/ \E size \in Sizes : \E offset \in Offsets(size), value \in Stored :
          Store(size, offset, value)

Spec == Init /\ [][Next]_vars
-----------------------------------------------------------------------------
(* Properties                                                              *)

TypeOK ==
    /\ routine \in Routines
    /\ step \in 0 .. Width + 2
    /\ a \in [hi : Word, lo : Word] /\ b \in [hi : Word, lo : Word]
    /\ hi \in Word /\ lo \in Word /\ y \in Word
    /\ icc \in [n : BOOLEAN, z : BOOLEAN, v : BOOLEAN, c : BOOLEAN]
    /\ memory \in MemoryWord
    /\ bytes \in [0 .. 3 -> 0 .. ByteSize - 1]

Done(r, n) == routine = r /\ step = n

\* After a SUBCC every condition of a branch is the comparison it stands for,
\* of numbers with a sign and without.
BranchesCompare ==
    Done("compare", 1) =>
        /\ BranchCheck("be", icc) <=> a.lo = b.lo
        /\ BranchCheck("bne", icc) <=> a.lo # b.lo
        /\ BranchCheck("bl", icc) <=> Signed(a.lo) < Signed(b.lo)
        /\ BranchCheck("ble", icc) <=> Signed(a.lo) <= Signed(b.lo)
        /\ BranchCheck("bg", icc) <=> Signed(a.lo) > Signed(b.lo)
        /\ BranchCheck("bge", icc) <=> Signed(a.lo) >= Signed(b.lo)
        /\ BranchCheck("bcs", icc) <=> a.lo < b.lo
        /\ BranchCheck("bleu", icc) <=> a.lo <= b.lo
        /\ BranchCheck("bgu", icc) <=> a.lo > b.lo
        /\ BranchCheck("bcc", icc) <=> a.lo >= b.lo

\* A number of two words, and the sum or difference of two of them.
Double(x) == x.hi * 2 * Top + x.lo
Result == [hi |-> hi, lo |-> lo]

\* An addition in two words is exact: the carry of the low one gets into the
\* high one, and out of it.
AdditionExact ==
    Done("add", 2) =>
        Double(Result) + (IF icc.c THEN 4 * Top * Top ELSE 0) = Double(a) + Double(b)

\* A subtraction in two words is exact, and the branches that follow it compare
\* the numbers of two words.
SubtractionExact ==
    Done("subtract", 2) =>
        /\ Double(Result) - (IF icc.c THEN 4 * Top * Top ELSE 0) = Double(a) - Double(b)
        /\ BranchCheck("bl", icc) <=>
               Signed(a.hi) < Signed(b.hi) \/ (a.hi = b.hi /\ a.lo < b.lo)

\* Conditions and carries mean what compilers take them to mean.
ArithmeticExact == BranchesCompare /\ AdditionExact /\ SubtractionExact

\* The steps of a multiplication make up the product, in two words.
ProductExact ==
    Done("multiply", Width + 2) =>
        (hi * 2 * Top + y - a.lo * Signed(b.lo)) % (4 * Top * Top) = 0

\* The value of the bytes from an offset, as many as a size has.
BytesFrom(offset, size) ==
    CASE size \in ByteSizes -> bytes[offset]
      [] size \in HalfSizes -> bytes[offset] * ByteSize + bytes[offset + 1]
      [] size = "word" -> ((bytes[0] * ByteSize + bytes[1]) * ByteSize + bytes[2]) * ByteSize
                             + bytes[3]

\* Every load gets the bytes that were stored last, whatever the sizes of the
\* stores were, and extends them with the sign or without it.
LoadsGetBytes ==
    \A size \in Sizes : \A offset \in Offsets(size) :
        ReadWordData(size, memory, offset) =
            IF size \in {"signed byte", "signed halfword"}
            THEN SignExtend(BytesFrom(offset, size), Range(size))
            ELSE BytesFrom(offset, size)
=============================================================================
