------------------------------ MODULE PkcsBlocks ------------------------------
(***************************************************************************)
(* The blocks of RSA encryption "according to PKCS #1" (soft/rsaref,       *)
(* rsa.c).  A block is deciphered with the other key of the pair it was    *)
(* enciphered with, which brings it back, or with a key of another pair,   *)
(* which makes any block of it.                                            *)
(***************************************************************************)
EXTENDS Integers, SequencesExt

CONSTANTS
    Byte,           \* values of a byte, 0, 1, 2 and FF among them
    FF,             \* the last of them, 0xff
    ModulusLen,     \* bytes of the modulus
    MinPad          \* 8: padding bytes are never fewer

BytesFit == {0, 1, 2, FF} \subseteq Byte /\ FF \notin {0, 1, 2}
LengthsFit == ModulusLen \in Nat /\ MinPad \in Nat \ {0} /\ MinPad + 3 <= ModulusLen

VARIABLES
    with,       \* the key that enciphers: "public" (block type 2), "private" (type 1)
    input,      \* what was enciphered
    block,      \* what the other key makes of it
    result      \* what was made of that

vars == <<with, input, block, result>>

Done(output) == [status |-> "OK", output |-> output]
Failed(code) == [status |-> code, output |-> <<>>]

\* The padding of an input.
PadLen(data) == ModulusLen - Len(data) - 3
TooLong(data) == Len(data) + MinPad + 3 > ModulusLen

EncryptionBlock(type, padding, data) == <<0, type>> \o padding \o <<0>> \o data

\* RSAPublicEncrypt: random bytes that are not zero.
PublicEncrypts(b, data) ==
    /\ ~TooLong(data)
    /\ \E padding \in [1 .. PadLen(data) -> Byte \ {0}] : b = EncryptionBlock(2, padding, data)

\* RSAPrivateEncrypt.
PrivateEncrypts(b, data) ==
    /\ ~TooLong(data)
    /\ b = EncryptionBlock(1, [i \in 1 .. PadLen(data) |-> FF], data)

\* The first of the bytes from the third up to the last but one that ends the
\* padding, or the last one.
EndOfPadding(b, ending) ==
    LET ends == {i \in 3 .. ModulusLen - 1 : b[i] \in ending}
    IN IF ends = {} THEN ModulusLen ELSE CHOOSE i \in ends : \A j \in ends : i <= j

\* Mutant: the padding may be of any length.
AfterAny(b, i) == Done(SubSeq(b, i + 1, ModulusLen))

After(b, i) ==
    IF ModulusLen - i + MinPad + 3 > ModulusLen THEN Failed("RE_DATA")
    ELSE Done(SubSeq(b, i + 1, ModulusLen))

\* Mutant: whatever ends the padding.
PublicDecryptAny(b) ==
    LET i == EndOfPadding(b, Byte \ {FF})
    IN IF b[1] # 0 \/ b[2] # 1 THEN Failed("RE_DATA") ELSE After(b, i)

\* RSAPublicDecrypt.
PublicDecrypt(b) ==
    LET i == EndOfPadding(b, Byte \ {FF})
    IN IF b[1] # 0 \/ b[2] # 1 \/ b[i] # 0 THEN Failed("RE_DATA") ELSE After(b, i)

\* Mutant: the last byte ends the padding whatever it is.
PrivateDecryptLast(b) ==
    LET i == EndOfPadding(b, {0})
    IN IF b[1] # 0 \/ b[2] # 2 THEN Failed("RE_DATA") ELSE After(b, i)

\* RSAPrivateDecrypt: nothing is left to be the separator of an empty output.
PrivateDecrypt(b) ==
    LET i == EndOfPadding(b, {0})
    IN IF b[1] # 0 \/ b[2] # 2 \/ i = ModulusLen THEN Failed("RE_DATA") ELSE After(b, i)

Decrypt(b) == IF with = "public" THEN PrivateDecrypt(b) ELSE PublicDecrypt(b)

-----------------------------------------------------------------------------
Init ==
    /\ with \in {"public", "private"}
    /\ input = <<>> /\ block = <<>> /\ result = Failed("none")

\* An input is enciphered, or refused.
Encrypt(data) ==
    /\ block = <<>> /\ result.status = "none"
    /\ input' = data
    /\ \/ /\ TooLong(data)
          /\ result' = Failed("RE_LEN") /\ UNCHANGED block
       \/ /\ with = "public" /\ UNCHANGED result
          /\ ~TooLong(data)
          /\ \E padding \in [1 .. PadLen(data) -> Byte \ {0}] : block' = EncryptionBlock(2, padding, data)
       \/ /\ with = "private" /\ UNCHANGED result
          /\ ~TooLong(data)
          /\ block' = EncryptionBlock(1, [i \in 1 .. PadLen(data) |-> FF], data)
    /\ UNCHANGED with

\* The other key is not of the pair: any block.
OtherKey ==
    /\ block = <<>> /\ result.status = "none"
    /\ block' \in [1 .. ModulusLen -> Byte]
    /\ UNCHANGED <<with, input, result>>

Decipher ==
    /\ block # <<>> /\ result.status = "none"
    /\ result' = Decrypt(block)
    /\ UNCHANGED <<with, input, block>>

Next ==
    \/ \E n \in 0 .. ModulusLen - 2 - MinPad : \E data \in [1 .. n -> Byte] : Encrypt(data)
    \/ OtherKey \/ Decipher
Spec == Init /\ [][Next]_vars

-----------------------------------------------------------------------------
Made(b, data) == IF with = "public" THEN PublicEncrypts(b, data) ELSE PrivateEncrypts(b, data)

\* Type invariant.
TypeOK ==
    /\ with \in {"public", "private"}
    /\ Len(block) \in {0, ModulusLen}
    /\ result.status \in {"none", "OK", "RE_LEN", "RE_DATA"}
    /\ Len(result.output) <= ModulusLen - MinPad - 3

\* What is deciphered without an error is what the block was made of, and a
\* block that could not be made of anything is refused.
AcceptsOnlyMade == result.status = "OK" => Made(block, result.output)

\* A block made of an input gives the input back, with one exception: an empty
\* one that the public key enciphered.
GivesBack ==
    result.status \in {"OK", "RE_DATA"} =>
        \A n \in 0 .. ModulusLen - MinPad - 3 : \A data \in [1 .. n -> Byte] :
            Made(block, data) =>
                IF with = "public" /\ n = 0 THEN result = Failed("RE_DATA") ELSE result = Done(data)
=============================================================================
