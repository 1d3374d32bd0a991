----------------------------- MODULE PemEncoding -----------------------------
(***************************************************************************)
(* RFC 1113 printable encoding (soft/rsaref, r_encode.c): three bytes in   *)
(* four characters, the last one to three bytes padded.  Characters are    *)
(* their ASCII codes.                                                      *)
(***************************************************************************)
EXTENDS Integers, SequencesExt

CONSTANTS
    Byte,           \* bound: the bytes of blocks
    Char,           \* bound: the characters of texts
    MaxBlock,       \* bound: the bytes of a block
    MaxText         \* bound: the characters of a text

EncodingConstants ==
    /\ Byte \subseteq 0 .. 255 /\ Char \subseteq 0 .. 255
    /\ MaxBlock \in Nat /\ MaxText \in Nat

-----------------------------------------------------------------------------
(* Characters                                                              *)

Pad == 61

ENCODING(i) ==
    IF i < 26 THEN i + 65
    ELSE IF i < 52 THEN i - 26 + 97
    ELSE IF i < 62 THEN i - 52 + 48
    ELSE IF i = 62 THEN 43 ELSE 47

IsENCODING(c) == c \in (65 .. 90) \cup (97 .. 122) \cup (48 .. 57) \cup {43, 47}

DECODING(c) ==
    IF c = 43 THEN 62
    ELSE IF c = 47 THEN 63
    ELSE IF c <= 57 THEN c - 48 + 52
    ELSE IF c <= 90 THEN c - 65 ELSE c - 97 + 26

-----------------------------------------------------------------------------
(* Quanta                                                                  *)

\* Sextet k of 24 bits, and byte k of them.
Sextet(temp, k) == (temp \div 64 ^ (3 - k)) % 64
Octet(temp, k) == (temp \div 256 ^ (2 - k)) % 256

\* The bytes or sextets that are there, the others zero.
Packed(parts, base, places) ==
    FoldLeft(LAMBDA temp, k : temp * base + (IF k <= Len(parts) THEN parts[k] ELSE 0),
             0, [k \in 1 .. places |-> k])

\* The one to three bytes of a quantum; there are as many characters as bytes,
\* and one more, and the rest is padding.
EncodeQuantum(quantum) ==
    [k \in 1 .. 4 |-> IF k <= Len(quantum) + 1
                      THEN ENCODING(Sextet(Packed(quantum, 256, 3), k - 1)) ELSE Pad]

Failed == [status |-> "RE_ENCODING", block |-> <<>>]

\* A quantum that is not the last: no padding.
DecodeQuantum(chars) ==
    IF \E k \in 1 .. 4 : ~IsENCODING(chars[k]) THEN Failed
    ELSE LET temp == Packed([k \in 1 .. 4 |-> DECODING(chars[k])], 64, 4)
         IN [status |-> "ok", block |-> [k \in 1 .. 3 |-> Octet(temp, k - 1)]]

\* The last quantum: padding in the third place makes the fourth one padding.
DecodeLastQuantum(chars) ==
    LET n == IF chars[3] = Pad THEN 1 ELSE IF chars[4] = Pad THEN 2 ELSE 3
        temp == Packed([k \in 1 .. n + 1 |-> DECODING(chars[k])], 64, 4)
    IN IF \/ \E k \in 1 .. 2 : ~IsENCODING(chars[k])
          \/ \E k \in 3 .. 4 : ~IsENCODING(chars[k]) /\ chars[k] # Pad
       THEN Failed
       ELSE [status |-> "ok", block |-> [k \in 1 .. n |-> Octet(temp, k - 1)]]

-----------------------------------------------------------------------------
(* Blocks                                                                  *)

\* Mutant: the last quantum is what is over, and nothing where none is.
EncodePEMBlockShort(block) ==
    FlattenSeq([i \in 1 .. Len(block) \div 3 |-> EncodeQuantum(SubSeq(block, 3 * i - 2, 3 * i))])

EncodePEMBlock(block) ==
    IF block = <<>> THEN <<>>
    ELSE LET i == (Len(block) - 1) \div 3
         IN FlattenSeq([q \in 1 .. i |-> EncodeQuantum(SubSeq(block, 3 * q - 2, 3 * q))])
                \o EncodeQuantum(SubSeq(block, 3 * i + 1, Len(block)))

\* Mutant: every quantum may be padded.
DecodePEMBlockLoose(text) ==
    LET quanta == [q \in 1 .. Len(text) \div 4 |->
                       DecodeLastQuantum(SubSeq(text, 4 * q - 3, 4 * q))]
    IN IF Len(text) % 4 # 0 \/ \E q \in DOMAIN quanta : quanta[q].status # "ok" THEN Failed
       ELSE [status |-> "ok", block |-> FlattenSeq([q \in DOMAIN quanta |-> quanta[q].block])]

DecodePEMBlock(text) ==
    LET last == Len(text) \div 4
        quanta == [q \in 1 .. last |->
                       LET chars == SubSeq(text, 4 * q - 3, 4 * q)
                       IN IF q = last THEN DecodeLastQuantum(chars) ELSE DecodeQuantum(chars)]
    IN IF Len(text) % 4 # 0 \/ \E q \in DOMAIN quanta : quanta[q].status # "ok" THEN Failed
       ELSE [status |-> "ok", block |-> FlattenSeq([q \in DOMAIN quanta |-> quanta[q].block])]

-----------------------------------------------------------------------------
(* All blocks and all texts up to the bounds                               *)

VARIABLES
    block, text

vars == <<block, text>>

Init == block = <<>> /\ text = <<>>

MoreBlock ==
    /\ text = <<>> /\ Len(block) < MaxBlock
    /\ \E b \in Byte : block' = Append(block, b)
    /\ UNCHANGED text

MoreText ==
    /\ block = <<>> /\ Len(text) < MaxText
    /\ \E c \in Char : text' = Append(text, c)
    /\ UNCHANGED block

Next == MoreBlock \/ MoreText
Spec == Init /\ [][Next]_vars

Encoded == EncodePEMBlock(block)
Decoded == DecodePEMBlock(text)

\* What is encoded is of the 65 characters, what is decoded is bytes.
TypeOK ==
    /\ block \in Seq(Byte) /\ text \in Seq(Char)
    /\ \A k \in DOMAIN Encoded : IsENCODING(Encoded[k]) \/ Encoded[k] = Pad
    /\ \A k \in DOMAIN Decoded.block : Decoded.block[k] \in 0 .. 255

\* R_EncodePEMBlock: the characters' bits are the bytes' bits, in order, and zeros.
BitsOf(numbers, width) ==
    [i \in 1 .. width * Len(numbers) |->
        (numbers[((i - 1) \div width) + 1] \div 2 ^ (width - 1 - ((i - 1) % width))) % 2]

EncodesBits ==
    LET chars == SelectSeq(Encoded, LAMBDA c : c # Pad)
        bits == BitsOf([k \in DOMAIN chars |-> DECODING(chars[k])], 6)
        given == BitsOf(block, 8)
    IN /\ Len(bits) >= Len(given) /\ Len(bits) < Len(given) + 6
       /\ \A i \in DOMAIN bits : bits[i] = IF i <= Len(given) THEN given[i] ELSE 0

\* R_DecodePEMBlock: what was encoded decodes to the block, whatever its length.
DecodesBack == DecodePEMBlock(Encoded) = [status |-> "ok", block |-> block]

\* Blocks may be encoded and texts decoded in parts, at a multiple of three
\* bytes or four characters, if only the last part is padded.
PartsJoin ==
    /\ \A i \in 0 .. Len(block) \div 3 :
        EncodePEMBlock(SubSeq(block, 1, 3 * i))
            \o EncodePEMBlock(SubSeq(block, 3 * i + 1, Len(block))) = Encoded
    /\ Decoded.status = "ok" =>
        \A i \in 0 .. Len(text) \div 4 :
            LET first == DecodePEMBlock(SubSeq(text, 1, 4 * i))
                rest == DecodePEMBlock(SubSeq(text, 4 * i + 1, Len(text)))
            IN /\ first.status = "ok" /\ rest.status = "ok"
               /\ first.block \o rest.block = Decoded.block
               /\ i < Len(text) \div 4 => Len(first.block) = 3 * i

\* The lengths that callers make their buffers for.
LengthsFit ==
    /\ Len(Encoded) <= (4 * Len(block)) \div 3 + 3
    /\ Len(Decoded.block) <= (3 * Len(text)) \div 4 + 1
=============================================================================
