---------------------------- MODULE CipherChannel ----------------------------
(***************************************************************************)
(* Two contexts of one key, one that enciphers messages and one that       *)
(* deciphers them, restarted between messages; a block may be damaged on   *)
(* its way.                                                                *)
(***************************************************************************)
EXTENDS Integers, Sequences

-----------------------------------------------------------------------------
(* The DES block cipher and its chaining modes (soft/rsaref, desc.c), on   *)
(* the bits of its words.  A word is the set of its bits that are one, bit *)
(* 0 the lowest; a block is the pair of its halves, left and right.  Only  *)
(* the contents of the eight substitution tables are left open.            *)

CONSTANT Sp(_, _)       \* the entry of table n for six bits

Places == 0 .. 31
Half == SUBSET Places
Blocks == Half \X Half

ASSUME TablesHoldWords ==
    \A n \in 1 .. 8 : \A six \in SUBSET (0 .. 5) : Sp(n, six) \in Half

Xor(a, b) == (a \ b) \cup (b \ a)
XorBlock(p, q) == <<Xor(p[1], q[1]), Xor(p[2], q[2])>>
Rotl(a) == {i \in Places : (IF i = 0 THEN 31 ELSE i - 1) \in a}
Rotr(a) == {i \in Places : (IF i = 31 THEN 0 ELSE i + 1) \in a}
Swap(p) == <<p[2], p[1]>>

-----------------------------------------------------------------------------
(* DESFunction                                                             *)

\* The masks 0f0f0f0f, 33333333, ...: every second group of s bits.
Masked(s, i) == (i \div s) % 2 = 0

\* work = ((left >> s) ^ right) & mask; right ^= work; left ^= work << s.
Exchange(s, p) ==
    <<{i \in Places : IF Masked(s, i) THEN i \in p[1] ELSE i - s \in p[2]},
      {i \in Places : IF Masked(s, i) THEN i + s \in p[1] ELSE i \in p[2]}>>

ExchangeOdd(p) ==
    <<{i \in Places : IF i % 2 = 1 THEN i \in p[2] ELSE i \in p[1]},
      {i \in Places : IF i % 2 = 1 THEN i \in p[1] ELSE i \in p[2]}>>

Initial(p) ==
    LET nibbles == Exchange(16, Exchange(4, p))
        bits == Swap(Exchange(8, Exchange(2, Swap(nibbles))))
        odd == ExchangeOdd(<<bits[1], Rotl(bits[2])>>)
    IN <<Rotl(odd[1]), odd[2]>>

Final(p) ==
    LET odd == ExchangeOdd(<<p[1], Rotr(p[2])>>)
        nibbles == Exchange(2, Exchange(8, <<Rotr(odd[1]), odd[2]>>))
    IN Exchange(4, Exchange(16, Swap(nibbles)))

\* Six bits of a word go into each table: those of the half turned by four
\* into the odd ones, those of the half into the even ones.
Table(odd, byte) == IF odd THEN 7 - 2 * byte ELSE 8 - 2 * byte
Six(word, byte) == {b \in 0 .. 5 : 8 * byte + b \in word}
Turned(half) == {i \in Places : (i + 4) % 32 \in half}

Fval(half, pair) ==
    LET odd == Xor(Turned(half), pair[1])
        even == Xor(half, pair[2])
    IN UNION {Sp(Table(TRUE, byte), Six(odd, byte))
              \cup Sp(Table(FALSE, byte), Six(even, byte)) : byte \in 0 .. 3}

\* One pass of the loop: a round on the left half, one on the right.
LeftRound(p, pair) == <<Xor(p[1], Fval(p[2], pair)), p[2]>>
RightRound(p, pair) == <<p[1], Xor(p[2], Fval(p[1], pair))>>
TwoRounds(p, first, second) == RightRound(LeftRound(p, first), second)

\* subkeys[2k], subkeys[2k + 1] of the code are the pair subkeys[k].
Rounds(p, subkeys) ==
    LET r0 == TwoRounds(p, subkeys[0], subkeys[1])
        r1 == TwoRounds(r0, subkeys[2], subkeys[3])
        r2 == TwoRounds(r1, subkeys[4], subkeys[5])
        r3 == TwoRounds(r2, subkeys[6], subkeys[7])
        r4 == TwoRounds(r3, subkeys[8], subkeys[9])
        r5 == TwoRounds(r4, subkeys[10], subkeys[11])
        r6 == TwoRounds(r5, subkeys[12], subkeys[13])
    IN TwoRounds(r6, subkeys[14], subkeys[15])

DESFunction(p, subkeys) == Final(Rounds(Initial(p), subkeys))

-----------------------------------------------------------------------------
(* The key schedule.  Bit l of a key is bit 7 - l % 8 of its byte l \div 8.  *)

Keys == SUBSET (0 .. 63)

PC1 == <<56, 48, 40, 32, 24, 16,  8,  0, 57, 49, 41, 33, 25, 17,
          9,  1, 58, 50, 42, 34, 26, 18, 10,  2, 59, 51, 43, 35,
         62, 54, 46, 38, 30, 22, 14,  6, 61, 53, 45, 37, 29, 21,
         13,  5, 60, 52, 44, 36, 28, 20, 12,  4, 27, 19, 11,  3>>
TotalRotations == <<1, 2, 4, 6, 8, 10, 12, 14, 15, 17, 19, 21, 23, 25, 27, 28>>
PC2 == <<13, 16, 10, 23,  0,  4,  2, 27, 14,  5, 20,  9,
         22, 18, 11,  3, 25,  7, 15,  6, 26, 19, 12,  1,
         40, 51, 30, 36, 46, 54, 29, 39, 50, 44, 32, 47,
         43, 48, 38, 55, 33, 52, 45, 41, 49, 35, 28, 31>>

\* The 48 bits of round k, as they come out of PC2: kn[2k] and kn[2k + 1].
RawKey(key, k) ==
    LET turned(j) == (j \div 28) * 28 + ((j + TotalRotations[k + 1]) % 28)
    IN {j \in 0 .. 47 : PC1[turned(PC2[j + 1]) + 1] \in key}

\* The raw bits in groups of six, each at the low end of a byte: the first,
\* third, fifth and seventh group in the first word, the others in the second.
Cooked(raw, k) ==
    LET group(byte) == 6 * (2 * ((byte + 1) % 2) + k) + (IF byte < 2 THEN 24 ELSE 0)
    IN {i \in Places : i % 8 < 6 /\ group(i \div 8) + 5 - (i % 8) \in raw}

\* For decryption the pairs are written from the last to the first.
DESKey(key, encrypt) ==
    LET pair(k) == <<Cooked(RawKey(key, k), 0), Cooked(RawKey(key, k), 1)>>
    IN [k \in 0 .. 15 |-> pair(IF encrypt THEN k ELSE 15 - k)]

\* Eight bytes as two words, the first byte the highest.
Pack(key) == <<{i \in Places : 31 - i \in key}, {i \in Places : 63 - i \in key}>>

-----------------------------------------------------------------------------
(* Contexts.  A context has one key schedule or three, and whiteners that  *)
(* only DESX uses.                                                         *)

Algorithms == {"des", "desx", "des3"}

Context(algorithm, key, iv, encrypt, subkeys) ==
    [algorithm |-> algorithm, encrypt |-> encrypt, iv |-> iv, originalIV |-> iv,
     subkeys |-> subkeys,
     inputWhitener |-> Pack(key[2]), outputWhitener |-> Pack(key[3])]

\* Mutant: all three keys in one direction.
CipherInitOneWay(algorithm, key, iv, encrypt) ==
    Context(algorithm, key, iv, encrypt,
        IF algorithm = "des3" /\ ~encrypt
        THEN <<DESKey(key[3], FALSE), DESKey(key[2], FALSE), DESKey(key[1], FALSE)>>
        ELSE <<DESKey(key[1], encrypt), DESKey(key[2], ~encrypt), DESKey(key[3], encrypt)>>)

\* key: the eight bytes of the DES key and the sixteen after them.
CipherInit(algorithm, key, iv, encrypt) ==
    Context(algorithm, key, iv, encrypt,
        IF algorithm = "des3" /\ ~encrypt
        THEN <<DESKey(key[3], FALSE), DESKey(key[2], TRUE), DESKey(key[1], FALSE)>>
        ELSE <<DESKey(key[1], encrypt), DESKey(key[2], ~encrypt), DESKey(key[3], encrypt)>>)

\* What is xored to a block before the cipher, and after it.
Before(c) ==
    LET white == IF c.algorithm # "desx" THEN <<{}, {}>>
                 ELSE IF c.encrypt THEN c.inputWhitener ELSE c.outputWhitener
    IN IF c.encrypt THEN XorBlock(c.iv, white) ELSE white

After(c) ==
    LET white == IF c.algorithm # "desx" THEN <<{}, {}>>
                 ELSE IF c.encrypt THEN c.outputWhitener ELSE c.inputWhitener
    IN IF c.encrypt THEN white ELSE XorBlock(c.iv, white)

Through(c, block) ==
    LET once == DESFunction(block, c.subkeys[1])
    IN IF c.algorithm # "des3" THEN once
       ELSE DESFunction(DESFunction(once, c.subkeys[2]), c.subkeys[3])

Output(c, input) == XorBlock(Through(c, XorBlock(input, Before(c))), After(c))

\* Mutant: the chaining value of decryption is what came out.
UpdateOwn(c, input) == [c EXCEPT !.iv = Output(c, input)]

\* One block of an update: the context after it.
Update(c, input) == [c EXCEPT !.iv = IF c.encrypt THEN Output(c, input) ELSE input]

Restart(c) == [c EXCEPT !.iv = c.originalIV]

-----------------------------------------------------------------------------

CONSTANTS
    Input,          \* the blocks of messages
    KeyTriple,      \* keys of 24 bytes, as three keys
    IVs,            \* initializing vectors
    MaxBlocks       \* bound: the blocks of all messages and their ends

ASSUME ChannelConstants ==
    /\ Input \subseteq Blocks /\ IVs \subseteq Blocks
    /\ KeyTriple \subseteq [1 .. 3 -> Keys]
    /\ MaxBlocks \in Nat

VARIABLES
    key,            \* what both contexts were made with
    enc, dec,       \* the contexts
    wire,           \* blocks on their way, and ends of messages
    given,          \* history: the blocks and ends so far
    got,            \* history: what was deciphered
    clean           \* history: the last block that came was undamaged

vars == <<key, enc, dec, wire, given, got, clean>>

\* before: the chaining value when the block was enciphered.
Piece == [end : BOOLEAN, before : Blocks, plain : Blocks, cipher : Blocks, clean : BOOLEAN]
Result == [plain : Blocks, output : Blocks, sound : BOOLEAN]

\* The types of all variables: no bit comes out beyond the 32 of a word.
TypeOK ==
    /\ key \in [1 .. 3 -> Keys]
    /\ enc.iv \in Blocks /\ dec.iv \in Blocks
    /\ wire \in Seq(Piece)
    /\ given \in Nat
    /\ got \in Seq(Result)
    /\ clean \in BOOLEAN

Init ==
    /\ \E algorithm \in Algorithms, iv \in IVs :
        /\ key \in KeyTriple
        /\ enc = CipherInit(algorithm, key, iv, TRUE)
        /\ dec = CipherInit(algorithm, key, iv, FALSE)
    /\ wire = <<>> /\ given = 0 /\ got = <<>> /\ clean = TRUE

Send(end, plain, cipher) ==
    /\ given < MaxBlocks /\ given' = given + 1
    /\ wire' = Append(wire, [end |-> end, before |-> enc.iv, plain |-> plain,
                             cipher |-> cipher, clean |-> TRUE])

EncipherBlock(input) ==
    /\ Send(FALSE, input, Output(enc, input))
    /\ enc' = Update(enc, input)
    /\ UNCHANGED <<key, dec, got, clean>>

EndMessage ==
    /\ Send(TRUE, enc.originalIV, enc.originalIV)
    /\ enc' = Restart(enc)
    /\ UNCHANGED <<key, dec, got, clean>>

OneBit == <<{0}, {}>>
Damaged(piece) == [piece EXCEPT !.cipher = XorBlock(piece.cipher, OneBit), !.clean = FALSE]

\* External: what stores or carries the blocks flips a bit of one.
DamageBlock(k) ==
    /\ ~wire[k].end
    /\ \A j \in DOMAIN wire : wire[j].clean
    /\ clean /\ \A j \in DOMAIN got : got[j].sound
    /\ wire' = [wire EXCEPT ![k] = Damaged(wire[k])]
    /\ UNCHANGED <<key, enc, dec, given, got, clean>>

DecipherBlock ==
    LET piece == Head(wire) IN
    /\ wire # <<>> /\ ~piece.end
    /\ wire' = Tail(wire)
    /\ dec' = Update(dec, piece.cipher)
    /\ got' = Append(got, [plain |-> piece.plain, output |-> Output(dec, piece.cipher),
                           sound |-> clean /\ piece.clean])
    /\ clean' = piece.clean
    /\ UNCHANGED <<key, enc, given>>

NextMessage ==
    /\ wire # <<>> /\ Head(wire).end
    /\ wire' = Tail(wire)
    /\ dec' = Restart(dec)
    /\ clean' = TRUE
    /\ UNCHANGED <<key, enc, given, got>>

Next ==
    \/ \E input \in Input : EncipherBlock(input)
    \/ EndMessage
    \/ \E k \in DOMAIN wire : DamageBlock(k)
    \/ DecipherBlock
    \/ NextMessage

Spec == Init /\ [][Next]_vars

-----------------------------------------------------------------------------
\* A damaged block costs itself and the block after it, in any mode; every
\* other block is deciphered to what was enciphered.
Recovers == \A k \in DOMAIN got : got[k].sound => got[k].output = got[k].plain

\* The block after a damaged one comes out with the same damage and no other:
\* the chaining value is what came, not what came out.
DamageStays ==
    \A k \in DOMAIN got :
        k > 1 /\ ~got[k].sound /\ ~got[k - 1].sound =>
            got[k].output = XorBlock(got[k].plain, OneBit)

\* Once all has been deciphered and no message is begun the contexts chain alike.
InStep == wire = <<>> /\ clean => dec.iv = enc.iv

=============================================================================
