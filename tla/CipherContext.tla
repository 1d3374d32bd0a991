---------------------------- MODULE CipherContext ----------------------------
(***************************************************************************)
(* The envelope contexts of soft/rsaref (r_enhanc.c): a context chains the *)
(* blocks it enciphers or deciphers, and buffers the bytes that do not     *)
(* fill a block.                                                           *)
(*                                                                         *)
(* The cipher is symbolic.  With chaining, a block stands for all the      *)
(* plain blocks since the initialization vector: its cipher block is that  *)
(* sequence, and the chaining value before it the sequence without its     *)
(* last.  A byte of a cipher block is a pair of the block and a place.     *)
(***************************************************************************)
EXTENDS Integers, SequencesExt

CONSTANT Block      \* 8: the bytes of a block

\* The block that a byte is in, and its place there.
BlockOf(p) == ((p - 1) \div Block) + 1
PlaceOf(p) == ((p - 1) % Block) + 1

Garbled == -1                       \* a byte of a block that went wrong
FreshContext == [chain |-> <<>>, buffer |-> <<>>]

Restarted(context) == FreshContext

BlocksOf(bytes) ==
    [k \in 1 .. Len(bytes) \div Block |-> SubSeq(bytes, (k - 1) * Block + 1, k * Block)]

\* A block of the cipher's: all its bytes, in order.
IsCipherBlock(bytes) ==
    \A k \in 1 .. Block : bytes[k] = <<bytes[1][1], k>>

-----------------------------------------------------------------------------
(* CipherUpdate, on whole blocks                                           *)

Done(context, output) == [context |-> context, output |-> output]

\* Mutant: each block is enciphered for itself.
EncipherAlone(context, bytes) ==
    Done(context, [p \in 1 .. Len(bytes) |-> <<<<BlocksOf(bytes)[BlockOf(p)]>>, PlaceOf(p)>>])

Encipher(context, bytes) ==
    LET chain == context.chain \o BlocksOf(bytes)
        first == Len(context.chain)
    IN Done([context EXCEPT !.chain = chain],
            [p \in 1 .. Len(bytes) |-> <<SubSeq(chain, 1, first + BlockOf(p)), PlaceOf(p)>>])

\* What a cipher block gives after the cipher block that was last: its
\* plaintext, if that was the one before it when it was enciphered.
Plain(last, bytes) ==
    IF IsCipherBlock(bytes) /\ Front(bytes[1][1]) = last
    THEN Last(bytes[1][1])
    ELSE [i \in 1 .. Block |-> Garbled]

Decipher(context, bytes) ==
    LET blocks == BlocksOf(bytes)
        last(k) == IF k = 0 THEN context.chain
                   ELSE IF IsCipherBlock(blocks[k]) THEN blocks[k][1][1]
                   ELSE <<<<Garbled>>>>
    IN Done([context EXCEPT !.chain = last(Len(blocks))],
            [p \in 1 .. Len(bytes) |->
                Plain(last(BlockOf(p) - 1), blocks[BlockOf(p)])[PlaceOf(p)]])

-----------------------------------------------------------------------------
(* Sealing                                                                 *)

\* Of the buffer and the input, "go" bytes go through the cipher, in whole
\* blocks, and the rest is the buffer.
Buffered(Cipher(_, _), context, input, go) ==
    LET bytes == context.buffer \o input
        done == Cipher(context, SubSeq(bytes, 1, go))
    IN Done([done.context EXCEPT !.buffer = SubSeq(bytes, go + 1, Len(bytes))], done.output)

\* Mutant: a whole block is kept.
SealUpdateLazy(context, input) ==
    LET length == Len(context.buffer) + Len(input)
    IN Buffered(Encipher, context, input,
               IF length <= Block THEN 0 ELSE ((length - 1) \div Block) * Block)

SealUpdate(context, input) ==
    LET length == Len(context.buffer) + Len(input)
    IN Buffered(Encipher, context, input, (length \div Block) * Block)

\* Mutant: a message of whole blocks gets no padding.
SealFinalNoPad(context) ==
    LET n == (Block - Len(context.buffer)) % Block
        padded == SealUpdate(context, [k \in 1 .. n |-> n])
    IN Done(Restarted(context), padded.output)

\* There is always padding, up to a whole block, and one block of output.
SealFinal(context) ==
    LET n == Block - Len(context.buffer)
        last == Encipher(context, context.buffer \o [k \in 1 .. n |-> n])
    IN Done(Restarted(context), last.output)

-----------------------------------------------------------------------------
(* Opening                                                                 *)

\* Mutant: the last whole block goes out at once, its padding too.
OpenUpdateEager(context, input) ==
    LET length == Len(context.buffer) + Len(input)
    IN Buffered(Decipher, context, input, (length \div Block) * Block)

\* "Always leaves at least one byte in buffer": the last block may be padded.
OpenUpdate(context, input) ==
    LET length == Len(context.buffer) + Len(input)
    IN IF length <= Block THEN Buffered(Decipher, context, input, 0)
       ELSE Buffered(Decipher, context, input, ((length - 1) \div Block) * Block)

\* Mutant: the padding is checked and left.
OpenFinalKeepsPad(context) ==
    LET last == Decipher(context, context.buffer)
        n == last.output[Block]
        failed(c) == [context |-> c, output |-> <<>>, status |-> "RE_KEY"]
    IN IF context.buffer = <<>>
       THEN [context |-> Restarted(context), output |-> <<>>, status |-> "ok"]
       ELSE IF Len(context.buffer) # Block THEN failed(context)
       ELSE IF n \in 1 .. Block /\ \A k \in Block - n + 1 .. Block : last.output[k] = n
       THEN [context |-> Restarted(context), output |-> last.output, status |-> "ok"]
       ELSE failed(last.context)

\* What the last block holds, or RE_KEY.  A context that fails is left as it
\* is, but for the chaining value.
OpenFinal(context) ==
    LET last == Decipher(context, context.buffer)
        n == last.output[Block]
        failed(c) == [context |-> c, output |-> <<>>, status |-> "RE_KEY"]
    IN IF context.buffer = <<>>
       THEN [context |-> Restarted(context), output |-> <<>>, status |-> "ok"]
       ELSE IF Len(context.buffer) # Block THEN failed(context)
       ELSE IF n \in 1 .. Block /\ \A k \in Block - n + 1 .. Block : last.output[k] = n
       THEN [context |-> Restarted(context),
             output |-> SubSeq(last.output, 1, Block - n), status |-> "ok"]
       ELSE failed(last.context)
=============================================================================
