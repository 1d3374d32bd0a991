----------------------------- MODULE MCArithmetic -----------------------------
(***************************************************************************)
(* For TLC: arithmetic, of the core and of its programs.  A behaviour is   *)
(* one of Datapath ("datapath"), builds a pair of numbers for the routines *)
(* of NaturalNumbers ("numbers", in digits of two bits, and "wide", of     *)
(* four), or is one of RsaKeys ("keys") or KeyAgreement ("agreement"); the *)
(* other parts stay as they start.                                         *)
(***************************************************************************)
EXTENDS Datapath, Sequences

CONSTANTS Parts, NotFound, NoKeys, Refused, NoParams, NoValue

\* Words whose bytes are all different, or have their sign bits set.
Patterns == {0, 27, 141, 228, 255}

VARIABLES
    part,
    left, right,                                            \* the pair of numbers
    needed, proto, primes, keys, status, sent, wire, got,   \* of RsaKeys
    params, private, public, other, agreed, dhStatus        \* of KeyAgreement

pairVars == <<left, right>>
keyVars == <<needed, proto, primes, keys, status, sent, wire, got>>
dhVars == <<params, private, public, other, agreed, dhStatus>>

Narrow == INSTANCE NaturalNumbers WITH Half <- 2, DigitBits <- 2
Wide == INSTANCE NaturalNumbers WITH Half <- 4, DigitBits <- 4
ASSUME NarrowAssumption == Narrow!HalfIsANumber /\ Narrow!DigitHasBits
ASSUME WideAssumption == Wide!HalfIsANumber /\ Wide!DigitHasBits

\* Pairs from every random number; blocks at the edges of the moduli and
\* between them.
Keys == INSTANCE RsaKeys WITH
    Half <- 4, DigitBits <- 4, MinBits <- 11, MaxBits <- 12, Exponents <- {3},
    AskedBits <- {10, 11, 12, 13}, SomeBlocks <- {0, 2, 500, 1300}

\* Primes of seven bits and subprimes of three and of four.
Agreement == INSTANCE KeyAgreement WITH
    Half <- 8, DigitBits <- 6, Party <- {1, 2}, AskedPrime <- {7},
    AskedSubprime <- {3, 4}, SomePrivate <- {0, 1, 70}, SomeNumbers <- {30, 127},
    status <- dhStatus
ASSUME AgreementAssumption == Agreement!HalfIsANumber /\ Agreement!DigitHasBits

-----------------------------------------------------------------------------

ArithmeticInit ==
    /\ part \in Parts
    /\ Init
    /\ part # "datapath" =>
           routine = "compare" /\ a = [hi |-> 0, lo |-> 0] /\ b = [hi |-> 0, lo |-> 0]
    /\ left = <<>> /\ right = <<>>
    /\ Keys!Init
    /\ Agreement!Init

Executes ==
    /\ part = "datapath" /\ Next
    /\ UNCHANGED <<part, pairVars, keyVars, dhVars>>

\* Numbers of up to three digits, any for the one and some for the other.
Lengthens(most, some, others) ==
    /\ Len(left) < most
    /\ \E p \in some, q \in others : left' = Append(left, p) /\ right' = Append(right, q)
    /\ UNCHANGED <<part, vars, keyVars, dhVars>>
Digits == part = "numbers" /\ Lengthens(3, 0 .. 3, {0, 1, 3})
WideDigits == part = "wide" /\ Lengthens(2, {0, 1, 7, 8, 15}, {0, 3, 8, 14, 15})

Generates ==
    /\ part = "keys" /\ Keys!Next
    /\ UNCHANGED <<part, vars, pairVars, dhVars>>
Agrees ==
    /\ part = "agreement" /\ Agreement!Next
    /\ UNCHANGED <<part, vars, pairVars, keyVars>>

ArithmeticNext == Executes \/ Digits \/ WideDigits \/ Generates \/ Agrees
allVars == <<part, vars, pairVars, keyVars, dhVars>>
ArithmeticSpec == ArithmeticInit /\ [][ArithmeticNext]_allVars

-----------------------------------------------------------------------------

\* The steps of a multiplication make up the product, and a load gets the bytes
\* that were stored last.
ProductsAndBytes == ProductExact /\ LoadsGetBytes

\* The routines of nn.c on digits compute what arithmetic does on numbers.
NumbersExact ==
    /\ part = "numbers" =>
           /\ Narrow!SumExact(left, right)
           /\ Narrow!DigitsExact(left, right)
           /\ Narrow!ProductExact(left, right)
           /\ Narrow!QuotientExact(left, right)
           /\ Narrow!ShiftsExact(left)
           /\ Narrow!OrderExact(left, right)
           /\ Narrow!ConvertsBack(left)
           /\ Narrow!PowersExact(left, right, {2, 3, 11, 15})
           /\ Narrow!EuclidExact(left, right)
    /\ part = "wide" =>
           /\ Wide!SumExact(left, right)
           /\ Wide!DigitsExact(left, right)
           /\ Wide!ProductExact(left, right)
           /\ Wide!QuotientExact(left, right)
           /\ Wide!PowersExact(left, right, {2, 9, 17, 239})

\* R_GeneratePEMKeys makes pairs of the length asked for, whose two keys undo
\* each other on every number below the modulus; R_GenerateDHParams makes a prime,
\* a subprime and a generator that belong together, and two parties agree over
\* them on a key, from valid numbers only.
KeysWork ==
    /\ part = "keys" => Keys!KeysFit /\ Keys!KeysInverse /\ Keys!ComesBack
    /\ part = "agreement" => Agreement!ParamsFit /\ Agreement!Agree /\ Agreement!BelowPrime
=============================================================================
