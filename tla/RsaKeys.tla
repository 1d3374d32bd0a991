-------------------------------- MODULE RsaKeys --------------------------------
(***************************************************************************)
(* RSA key pairs (soft/rsaref, r_keygen.c) and what the two keys of a pair *)
(* do to a block (the raw operations of rsa.c).  A call of                 *)
(* R_GeneratePEMKeys draws random numbers until it has its two primes;     *)
(* each draw is a step.                                                    *)
(***************************************************************************)
EXTENDS NaturalNumbers

CONSTANTS
    MinBits, MaxBits,   \* MIN_RSA_MODULUS_BITS, MAX_RSA_MODULUS_BITS
    Exponents,          \* the public exponents to choose from
    AskedBits,          \* bound: the lengths that are asked for
    SomeBlocks,         \* bound: numbers that are enciphered and signed
    NoKeys,
    Refused             \* RE_DATA for a block

VARIABLES
    needed,     \* whether the random structure still needs bytes
    proto,      \* the key that is being generated
    primes,     \* the primes found for it
    keys,       \* the last pair generated
    status,     \* what the last call returned
    sent, wire, got     \* a block, enciphered with one key, deciphered with the other

vars == <<needed, proto, primes, keys, status, sent, wire, got>>

NoProto == [bits |-> 0, exponent |-> 0]

DigitsFor(bits) == (bits + DigitBits - 1) \div DigitBits
PrimeDigits(bits) == (DigitsFor(bits) + 1) \div 2

\* The first prime has half of the bits, the longer half.
BitsOfPrime(bits, i) == IF i = 1 THEN (bits + 1) \div 2 ELSE bits - ((bits + 1) \div 2)

\* Mutant: from half of the range on.
LowestWide(bits, n) == Assign2Exp(bits - 1, n)

\* The primes are between 3*2^(bits-2) and 2^bits-1.
Lowest(bits, n) == Add(Assign2Exp(bits - 1, n), Assign2Exp(bits - 2, n)).digits
MinusOne(a) == Sub(a, OfDigit(1, Len(a))).digits
Highest(bits, n) == Add(Assign2Exp(bits - 2, n), MinusOne(Lowest(bits, n))).digits

\* Mutant: any prime will do.
RSAFilterNone(a, e) == ~IsZero(a) /\ ~IsZero(e)

RSAFilter(a, e) == Gcd(MinusOne(a), Fit(SubSeq(e, 1, 1), Len(a))) = OfDigit(1, Len(a))

\* The larger one first.
Sorted(p, q) == IF Cmp(p, q) < 0 THEN <<q, p>> ELSE <<p, q>>

\* The pair for primes p > q and the inverse of the public exponent.
WithExponent(bits, e, d, p, q) ==
    [bits |-> bits, modulus |-> Fit(Mult(p, q), Len(e)), publicExponent |-> e,
     exponent |-> d, prime |-> <<p, q>>,
     primeExponent |-> [i \in {1, 2} |-> Mod(d, MinusOne(IF i = 1 THEN p ELSE q))],
     coefficient |-> ModInv(q, p)]
KeyPair(bits, e, pq) ==
    WithExponent(bits, e, ModInv(e, Fit(Mult(MinusOne(pq[1]), MinusOne(pq[2])), Len(e))),
                 pq[1], pq[2])

-----------------------------------------------------------------------------
(* Raw operations on a block, a number                                     *)

\* A number as long as its digits are, as the code decodes its keys.
Significant(a) == SubSeq(a, 1, Digits(a))

\* RSAPublicBlock.
PublicBlock(m, key) ==
    LET n == Significant(key.modulus)
        block == Fit(m, Len(n))
    IN IF Cmp(block, n) >= 0 THEN Refused
       ELSE ModExp(block, Significant(key.publicExponent), n)

\* Mutant: the difference is taken modulo nothing.
DifferenceWraps(mP, mQ, p) == Sub(mP, mQ).digits

\* mP - mQ mod p, without negative numbers; "assumes p > q".
Difference(mP, mQ, p) ==
    IF Cmp(mP, mQ) >= 0 THEN Sub(mP, mQ).digits
    ELSE Sub(p, Sub(mQ, mP).digits).digits

\* A block to a private exponent, modulo one of the primes.
Residue(block, prime, exponent) ==
    ModExp(Fit(Mod(block, prime), Len(prime)), Fit(exponent, Len(prime)), prime)

\* The number below the modulus with two residues (Chinese Remainder Theorem).
Joined(residue, prime, coefficient, n) ==
    LET t == ModMult(Difference(residue[1], residue[2], prime[1]), coefficient, prime[1])
    IN Add(Fit(Mult(t, prime[2]), n), Fit(residue[2], n)).digits

\* RSAPrivateBlock.
PrivateBlock(block, key) ==
    LET n == Digits(key.modulus)
        Prime(i) == Fit(key.prime[i], Digits(key.prime[1]))
    IN IF Cmp(Fit(block, n), Fit(key.modulus, n)) >= 0 THEN Refused
       ELSE Joined([i \in {1, 2} |->
                       Residue(Significant(block), Prime(i), key.primeExponent[i])],
                   [i \in {1, 2} |-> Prime(i)],
                   Fit(key.coefficient, Digits(key.prime[1])), n)

-----------------------------------------------------------------------------
Init ==
    /\ needed = TRUE
    /\ proto = NoProto /\ primes = <<>>
    /\ keys = NoKeys /\ status = "OK"
    /\ sent = NotFound /\ wire = NotFound /\ got = NotFound

\* The structure is seeded (R_RandomUpdate).
Seed ==
    /\ needed /\ needed' = FALSE
    /\ UNCHANGED <<proto, primes, keys, status, sent, wire, got>>

Returns(code) == status' = code /\ proto' = NoProto /\ primes' = <<>>

\* R_GeneratePEMKeys, up to the first draw.
GeneratePEMKeys(bits, exponent) ==
    /\ proto = NoProto
    /\ IF bits < MinBits \/ bits > MaxBits THEN Returns("RE_MODULUS_LEN")
       ELSE IF needed THEN Returns("RE_NEED_RANDOM")
       ELSE proto' = [bits |-> bits, exponent |-> exponent] /\ UNCHANGED <<primes, status>>
    /\ UNCHANGED <<needed, keys, sent, wire, got>>

\* A draw that gives no prime with the exponent is repeated.
Found(prime, e) ==
    \/ prime = NotFound /\ Returns("RE_DATA") /\ UNCHANGED keys
    \/ prime # NotFound /\ ~RSAFilter(prime, e) /\ UNCHANGED <<proto, primes, keys, status>>
    \/ /\ prime # NotFound /\ RSAFilter(prime, e)
       /\ IF primes = <<>> THEN primes' = <<prime>> /\ UNCHANGED <<proto, keys, status>>
          ELSE keys' = KeyPair(proto.bits, e, Sorted(primes[1], prime)) /\ Returns("OK")

Draw(random) ==
    LET n == PrimeDigits(proto.bits)
        bits == BitsOfPrime(proto.bits, Len(primes) + 1)
    IN /\ proto # NoProto
       /\ Found(GeneratePrime(random, Lowest(bits, n), Highest(bits, n), OfDigit(2, n)),
                OfDigit(proto.exponent, DigitsFor(proto.bits)))
       /\ UNCHANGED <<needed, sent, wire, got>>

\* A block goes through the public key and then through the private one, or
\* through the private key first.
Through(m, block, back) ==
    /\ proto = NoProto /\ keys # NoKeys
    /\ sent' = m /\ wire' = block
    /\ got' = IF block = Refused THEN Refused ELSE back
    /\ status' = IF block = Refused THEN "RE_DATA" ELSE "OK"
    /\ UNCHANGED <<needed, proto, primes, keys>>

EncipheredAs(m, block) == Through(m, block, PrivateBlock(block, keys))
SignedAs(m, block) == Through(m, block, PublicBlock(block, keys))
Encipher(m) == EncipheredAs(m, PublicBlock(m, keys))
Sign(m) == SignedAs(m, PrivateBlock(m, keys))

\* All numbers the search may start from.
Randoms(bits) == {DigitsOf(r, PrimeDigits(bits)) : r \in 0 .. 2 ^ (BitsOfPrime(bits, 1) - 2) - 1}

\* Bounds: one pair and one block in a behaviour.
Next ==
    \/ Seed
    \/ keys = NoKeys /\ \E bits \in AskedBits, e \in Exponents : GeneratePEMKeys(bits, e)
    \/ proto # NoProto /\ \E random \in Randoms(proto.bits) : Draw(random)
    \/ /\ keys # NoKeys /\ sent = NotFound
       /\ \E m \in SomeBlocks \cup {Number(keys.modulus) - 1, Number(keys.modulus)} :
           \/ Encipher(DigitsOf(m, DigitsFor(keys.bits)))
           \/ Sign(DigitsOf(m, DigitsFor(keys.bits)))

-----------------------------------------------------------------------------
(* Properties                                                              *)

P == Number(keys.prime[1])
Q == Number(keys.prime[2])
N == Number(keys.modulus)
E == Number(keys.publicExponent)
D == Number(keys.exponent)

\* A pair has two primes, the larger one first, and a modulus of exactly the
\* bits asked for.
KeysFit ==
    keys # NoKeys =>
        /\ IsPrime(P) /\ IsPrime(Q) /\ P >= Q /\ N = P * Q
        /\ 2 ^ (keys.bits - 1) <= N /\ N < 2 ^ keys.bits
        /\ keys.bits \in MinBits .. MaxBits

\* The private exponents and the coefficient are the inverses they should be,
\* unless the two primes are the same.
KeysInverse ==
    keys # NoKeys /\ P # Q =>
        /\ (D * E) % ((P - 1) * (Q - 1)) = 1
        /\ (Number(keys.primeExponent[1]) * E) % (P - 1) = 1
        /\ (Number(keys.primeExponent[2]) * E) % (Q - 1) = 1
        /\ (Number(keys.coefficient) * Q) % P = 1

\* What goes through both keys of a pair comes back, in either order, and
\* exactly what is not below the modulus is refused; unless the primes are the same.
ComesBack ==
    sent # NotFound =>
        IF Number(sent) >= N THEN got = Refused
        ELSE P # Q => got # Refused /\ Number(got) = Number(sent)
=============================================================================
