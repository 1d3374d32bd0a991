----------------------------- MODULE KeyAgreement -----------------------------
(***************************************************************************)
(* Diffie-Hellman key agreement (soft/rsaref, r_dh.c): the parameters, and *)
(* two parties that set up an agreement and compute its key.  Numbers are  *)
(* sequences of digits; a byte of the code is a digit here.                *)
(***************************************************************************)
EXTENDS NaturalNumbers

CONSTANTS
    Party, NoParams, NoValue,
    AskedPrime, AskedSubprime,      \* bounds: the lengths asked for
    SomePrivate,    \* bound: private values
    SomeNumbers     \* bound: what may arrive for a public value

VARIABLES
    params,     \* the parameters, with the lengths that were asked for
    private,    \* each party's private value
    public,     \* each party's public value
    other,      \* the public value a party computed its key from
    agreed,     \* each party's key
    status      \* what the last call returned

vars == <<params, private, public, other, agreed, status>>

\* The digits of a number, as R_GenerateDHParams and the rest decode it.
Significant(a) == SubSeq(a, 1, Digits(a))
DigitsFor(bits) == (bits + DigitBits - 1) \div DigitBits

\* Between 2^(bits-1) and 2^bits-1.
Lowest(bits, n) == Assign2Exp(bits - 1, n)
Highest(bits, n) ==
    Add(Lowest(bits, n), Sub(Lowest(bits, n), OfDigit(1, n)).digits).digits

GenerateSubprime(subPrimeBits, n, random) ==
    GeneratePrime(random, Lowest(subPrimeBits, n), Highest(subPrimeBits, n), OfDigit(2, n))

\* Mutant: in steps of the subprime's double plus two.
StepOfAny(q) == Add(LShift(q, 1).digits, OfDigit(2, Len(q))).digits

\* In steps of 2q, so that q divides p-1.
StepOf(q) == LShift(q, 1).digits

\* Generator of the subgroup: 2^((p-1)/q) mod p.
GeneratorOf(p, q) == ModExp(OfDigit(2, Len(p)), Div(p, q).a, p)

\* R_GenerateDHParams, for the random numbers of its two searches.
WithPrime(p, q, primeBits, subPrimeBits) ==
    IF p = NotFound THEN NotFound
    ELSE [prime |-> p, generator |-> GeneratorOf(p, q), subprime |-> q,
          primeBits |-> primeBits, subPrimeBits |-> subPrimeBits]

WithSubprime(q, primeBits, subPrimeBits, random) ==
    LET n == DigitsFor(primeBits)
    IN IF q = NotFound THEN NotFound
       ELSE WithPrime(GeneratePrime(random, Lowest(primeBits, n), Highest(primeBits, n),
                                    StepOf(q)),
                      q, primeBits, subPrimeBits)

DHParams(primeBits, subPrimeBits, random1, random2) ==
    WithSubprime(GenerateSubprime(subPrimeBits, DigitsFor(primeBits), random1),
                 primeBits, subPrimeBits, random2)

\* y = g^x mod p: of as many digits as the prime.
PublicValue(x, ps) ==
    LET p == Significant(ps.prime)
    IN ModExp(Fit(ps.generator, Len(p)), Significant(Fit(x, Len(p))), p)

\* Mutant: the lowest digit of the private value alone.
AgreedKeyLow(y, x, ps) ==
    LET p == Significant(ps.prime)
    IN IF Cmp(Fit(y, Len(p)), p) >= 0 THEN NotFound
       ELSE ModExp(Fit(y, Len(p)), SubSeq(x, 1, 1), p)

\* Mutant: a public value that is too large is reduced.
AgreedKeyAny(y, x, ps) ==
    LET p == Significant(ps.prime)
    IN ModExp(Mod(y, p), Significant(Fit(x, Len(p))), p)

\* z = y^x mod p, where y has to be below p.
AgreedKey(y, x, ps) ==
    LET p == Significant(ps.prime)
    IN IF Cmp(Fit(y, Len(p)), p) >= 0 THEN NotFound
       ELSE ModExp(Fit(y, Len(p)), Significant(Fit(x, Len(p))), p)

-----------------------------------------------------------------------------
Init ==
    /\ params = NoParams /\ status = "OK"
    /\ private = [i \in Party |-> NoValue] /\ public = [i \in Party |-> NoValue]
    /\ other = [i \in Party |-> NoValue] /\ agreed = [i \in Party |-> NoValue]

Made(ps) ==
    IF ps = NotFound THEN status' = "RE_DATA" /\ UNCHANGED params
    ELSE status' = "OK" /\ params' = ps

GenerateDHParams(primeBits, subPrimeBits, random1, random2) ==
    /\ params = NoParams
    /\ Made(DHParams(primeBits, subPrimeBits, random1, random2))
    /\ UNCHANGED <<private, public, other, agreed>>

\* Without enough seed bytes in the random structure nothing is generated: no
\* parameters, and no private value.
NeedsRandom ==
    /\ \/ params = NoParams
       \/ \E i \in Party : private[i] = NoValue
    /\ status' = "RE_NEED_RANDOM"
    /\ UNCHANGED <<params, private, public, other, agreed>>

SetupDHAgreement(i, x) ==
    /\ params # NoParams /\ private[i] = NoValue
    /\ private' = [private EXCEPT ![i] = x]
    /\ public' = [public EXCEPT ![i] = PublicValue(x, params)]
    /\ status' = "OK"
    /\ UNCHANGED <<params, other, agreed>>

\* With whatever public value arrived.
Computed(i, y, z) ==
    IF z = NotFound THEN status' = "RE_DATA" /\ UNCHANGED <<other, agreed>>
    ELSE /\ agreed' = [agreed EXCEPT ![i] = z]
         /\ other' = [other EXCEPT ![i] = y]
         /\ status' = "OK"

ComputeDHAgreedKey(i, y) ==
    /\ private[i] # NoValue /\ agreed[i] = NoValue
    /\ Computed(i, y, AgreedKey(y, private[i], params))
    /\ UNCHANGED <<params, private, public>>

\* Parameters from every pair of random numbers.
Randoms(bits, n) == {DigitsOf(r, n) : r \in 0 .. 2 ^ (bits - 1) - 1}
Asked(bits, subBits) ==
    /\ params = NoParams
    /\ \E random1 \in Randoms(subBits, DigitsFor(bits)), random2 \in Randoms(bits, DigitsFor(bits)) :
           GenerateDHParams(bits, subBits, random1, random2)

\* Anything may arrive for the public value of the other party.
Arriving == {public[i] : i \in Party} \cup {DigitsOf(k, Len(params.prime)) : k \in SomeNumbers}

Next ==
    \/ NeedsRandom
    \/ \E bits \in AskedPrime, subBits \in AskedSubprime : Asked(bits, subBits)
    \/ /\ params # NoParams
       /\ \E i \in Party :
              \/ \E x \in SomePrivate : SetupDHAgreement(i, DigitsOf(x, Len(params.prime)))
              \/ \E y \in Arriving \ {NoValue} : ComputeDHAgreedKey(i, y)

-----------------------------------------------------------------------------
(* Properties                                                              *)

P == Number(params.prime)
Q == Number(params.subprime)

\* The prime has exactly the bits asked for, the subprime divides the number
\* before it, and the generator is in the subgroup of that order.
ParamsFit ==
    params # NoParams =>
        /\ IsPrime(P) /\ 2 ^ (params.primeBits - 1) <= P /\ P < 2 ^ params.primeBits
        /\ IsPrime(Q) /\ (P - 1) % Q = 0
        /\ Power(Number(params.generator), Q, P) = 1

\* Two parties that computed their keys from each other's public values have
\* the same key, the generator's power by both private values.
Agree ==
    \A i, j \in Party :
        agreed[i] # NoValue /\ agreed[j] # NoValue
            /\ other[i] = public[j] /\ other[j] = public[i] =>
                /\ agreed[i] = agreed[j]
                /\ Number(agreed[i]) =
                       Power(Power(Number(params.generator), Number(private[i]), P),
                             Number(private[j]), P)

\* A key is computed from a number below the prime only.
BelowPrime == \A i \in Party : other[i] # NoValue => Number(other[i]) < P
=============================================================================
