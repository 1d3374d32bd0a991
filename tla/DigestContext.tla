---------------------------- MODULE DigestContext ----------------------------
(***************************************************************************)
(* The message digests of soft/rsaref: MD5 and MD2 take a message in parts *)
(* of any length and keep what does not fill a block in a buffer.          *)
(* r_enhanc.c calls them for digests, signatures and verifications, and    *)
(* uses one context for message after message.                             *)
(*                                                                         *)
(* The compression of blocks stays symbolic: a state is the sequence of    *)
(* what went into it.  The n-th byte of a message is n.                    *)
(***************************************************************************)
EXTENDS Integers, SequencesExt

CONSTANTS
    Algorithm,      \* "MD2" or "MD5"
    Calls,          \* the ends of a message that the application uses
    Block,          \* 64 or 16: the bytes of a block
    WordBits,       \* 32: the bits of a word of MD5's counter
    MaxPart,        \* bound: the bytes of a part
    MaxMessage,     \* bound: the bytes of a message
    MaxMessages     \* bound: the messages of a context

DigestConstants ==
    /\ Algorithm \in {"MD2", "MD5"}
    /\ Calls \subseteq {"digest", "sign", "signFails", "verify", "verifyFails"}
    /\ Block \in Nat /\ Block > 2 /\ WordBits > 3
    /\ 8 * Block <= 2 ^ WordBits

VARIABLES
    context,        \* MD5_CTX or MD2_CTX
    length,         \* the bytes of the message that were given so far
    messages,       \* the messages that were ended
    ended           \* the last digest, and the length of its message

vars == <<context, length, messages, ended>>

Word == 2 ^ WordBits
LengthBytes == 2                    \* 8: those of MD5's counter
Bytes(from, to) == [k \in 1 .. to - from + 1 |-> <<"byte", from + k - 1>>]
Fill(b, n) == [k \in 1 .. n |-> b]
Zeros(n) == Fill(<<"byte", 0>>, n)
Mark == <<<<"byte", 128>>>>
Lengths(count) == <<<<"low", count[1]>>, <<"high", count[2]>>>>
Seed == IF Algorithm = "MD2" THEN <<"zeros", 0>> ELSE <<"magic", 0>>

-----------------------------------------------------------------------------
(* md5c.c and md2c.c                                                       *)

Zeroized == [state |-> <<<<"zeros", 0>>>>, count |-> <<0, 0>>, buffer |-> Zeros(Block)]

\* MD2 starts from zeros, MD5 from its magic constants.  The buffer is left.
DigestInit(c) == [c EXCEPT !.state = <<Seed>>, !.count = <<0, 0>>]

\* MD5Transform, MD2Transform: what goes in shows in what comes out.
Transform(state, blocks) == state \o blocks

\* MD2's checksum is over the blocks so far: the state shows which they are.
Checksum(state) == Fill(<<"checksum", state>>, Block)

\* Mutant: the carry into the high word is lost.
AddCountNoCarry(count, n) ==
    <<(count[1] + 8 * n) % Word, (count[2] + (8 * n) \div Word) % Word>>

\* MD5 counts bits in two words, MD2 bytes modulo its block.
AddCount(count, n) ==
    IF Algorithm = "MD2" THEN <<(count[1] + n) % Block, 0>> ELSE
    LET bits == (8 * n) % Word
        low == (count[1] + bits) % Word
        carry == IF low < bits THEN 1 ELSE 0
    IN <<low, (count[2] + carry + (8 * n) \div Word) % Word>>

Index(count) == IF Algorithm = "MD2" THEN count[1] ELSE (count[1] \div 8) % Block

\* Mutant: what remains after whole blocks is put behind the old bytes.
UpdateBehind(c, input) ==
    LET index == Index(c.count)
        bytes == SubSeq(c.buffer, 1, index) \o input
        whole == (Len(bytes) \div Block) * Block
        rest == SubSeq(bytes, whole + 1, Len(bytes))
    IN [state |-> Transform(c.state, SubSeq(bytes, 1, whole)),
        count |-> AddCount(c.count, Len(input)),
        buffer |-> [k \in 1 .. Block |->
                       IF k - index \in DOMAIN rest THEN rest[k - index] ELSE c.buffer[k]]]

\* MD5Update, MD2Update: fill the buffer and transform it, transform what
\* whole blocks follow, and buffer the rest.
Update(c, input) ==
    LET index == Index(c.count)
        bytes == SubSeq(c.buffer, 1, index) \o input
        whole == (Len(bytes) \div Block) * Block
        rest == SubSeq(bytes, whole + 1, Len(bytes))
    IN [state |-> Transform(c.state, SubSeq(bytes, 1, whole)),
        count |-> AddCount(c.count, Len(input)),
        buffer |-> rest \o SubSeq(c.buffer, Len(rest) + 1, Block)]

\* Mutant: a length that just fits is given no block of its own.
MD5PaddingShort(c) ==
    LET index == Index(c.count)
    IN Mark \o Zeros((IF index <= Block - LengthBytes THEN Block - LengthBytes
                      ELSE 2 * Block - LengthBytes) - index - 1)

\* Up to the length, in this block or the next.
MD5Padding(c) ==
    LET index == Index(c.count)
    IN Mark \o Zeros((IF index < Block - LengthBytes THEN Block - LengthBytes
                      ELSE 2 * Block - LengthBytes) - index - 1)
MD5Final(c) ==
    Update(Update(c, MD5Padding(c)), Lengths(c.count)).state

MD2Final(c) ==
    LET n == Block - Index(c.count)
        padded == Update(c, Fill(<<"pad", n>>, n))
    IN Update(padded, Checksum(padded.state)).state

Final(c) == IF Algorithm = "MD2" THEN MD2Final(c) ELSE MD5Final(c)

-----------------------------------------------------------------------------
(* r_enhanc.c                                                              *)

\* R_DigestUpdate, R_SignUpdate, R_VerifyUpdate
GivePart(n) ==
    /\ length + n <= MaxMessage
    /\ messages < MaxMessages
    /\ context' = Update(context, Bytes(length + 1, length + n))
    /\ length' = length + n
    /\ UNCHANGED <<messages, ended>>

EndWith(after) ==
    /\ messages < MaxMessages
    /\ context' = after
    /\ length' = 0
    /\ messages' = messages + 1
    /\ ended' = [digest |-> Final(context), length |-> length]

\* MD5Final and MD2Final zeroize the context.
DigestFinal == "digest" \in Calls /\ EndWith(Zeroized)

\* R_SignFinal, R_VerifyFinal: "Reset for another verification."
SignFinal(call) == call \in Calls /\ EndWith(DigestInit(Zeroized))

\* The key refuses the digest or the signature, or the signature is wrong:
\* both leave before the reset.
Fails(call) == call \in Calls /\ EndWith(Zeroized)

Init ==
    /\ context = DigestInit(Zeroized)
    /\ length = 0
    /\ messages = 0
    /\ ended = [digest |-> Final(context), length |-> 0]

Next ==
    \/ \E n \in 0 .. MaxPart : GivePart(n)
    \/ DigestFinal
    \/ \E call \in {"sign", "verify"} : SignFinal(call)
    \/ \E call \in {"signFails", "verifyFails"} : Fails(call)

Spec == Init /\ [][Next]_vars

-----------------------------------------------------------------------------
(* Properties                                                              *)

\* The digest of a message of n bytes, in one piece.
Digest(n) ==
    LET bits == 8 * n
        blocks(len) == ((len + Block - 1) \div Block) * Block
        md5 == Bytes(1, n) \o Mark \o
               Zeros(blocks(n + 1 + LengthBytes) - n - 1 - LengthBytes) \o
               Lengths(<<bits % Word, (bits \div Word) % Word>>)
        pad == Block - (n % Block)
        md2 == <<Seed>> \o Bytes(1, n) \o Fill(<<"pad", pad>>, pad)
    IN IF Algorithm = "MD5" THEN <<Seed>> \o md5
       ELSE md2 \o Checksum(md2)

\* The digest of a message is that of its bytes, however they came in parts,
\* and whatever messages its context served before.
DigestsMessage == ended.digest = Digest(ended.length)

\* The counter stands for the length of the message, the buffer for what it
\* has beyond whole blocks.
BufferHoldsRest ==
    messages < MaxMessages =>
        LET index == Index(context.count) IN
        /\ index = length % Block
        /\ SubSeq(context.buffer, 1, index) = Bytes(length - index + 1, length)
        /\ Algorithm = "MD5" =>
               context.count = <<(8 * length) % Word, ((8 * length) \div Word) % Word>>
=============================================================================
