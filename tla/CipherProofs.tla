----------------------------- MODULE CipherProofs -----------------------------
(***************************************************************************)
(* Theorems about DesCipher and CipherChannel, for all keys, blocks and    *)
(* messages, and whatever words the substitution tables hold; and about    *)
(* Envelope, for all messages, portions and sizes of a block: an envelope  *)
(* that is sealed and opened portion by portion is a channel.              *)
(***************************************************************************)
EXTENDS CipherChannel, Envelope, SequenceTheorems, TLAPS

-----------------------------------------------------------------------------
(* Words                                                                   *)

LEMMA XorTwice ==
    ASSUME NEW a, NEW b
    PROVE  Xor(Xor(a, b), b) = a
BY DEF Xor

LEMMA XorType ==
    ASSUME NEW a \in Half, NEW b \in Half
    PROVE  Xor(a, b) \in Half
BY DEF Xor, Half

LEMMA XorBlockTwice ==
    ASSUME NEW p \in Blocks, NEW q \in Blocks
    PROVE  XorBlock(p, q) \in Blocks /\ XorBlock(XorBlock(p, q), q) = p
<1>1. p = <<p[1], p[2]>> /\ p[1] \in Half /\ p[2] \in Half /\ q[1] \in Half /\ q[2] \in Half
  BY DEF Blocks
<1> QED BY <1>1, XorTwice, XorType DEF XorBlock, Blocks

LEMMA RotateBack ==
    ASSUME NEW a \in Half
    PROVE  /\ Rotl(a) \in Half /\ Rotr(Rotl(a)) = a
           /\ Rotr(a) \in Half /\ Rotl(Rotr(a)) = a
<1> DEFINE up(i) == IF i = 31 THEN 0 ELSE i + 1
<1> DEFINE down(i) == IF i = 0 THEN 31 ELSE i - 1
<1>1. \A i \in Places : /\ up(i) \in Places /\ down(up(i)) = i
                        /\ down(i) \in Places /\ up(down(i)) = i
  BY DEF Places
<1>2. a \subseteq Places
  BY DEF Half
<1>3. /\ Rotl(a) = {i \in Places : down(i) \in a}
      /\ Rotr(a) = {i \in Places : up(i) \in a}
      /\ Rotr(Rotl(a)) = {i \in Places : up(i) \in Rotl(a)}
      /\ Rotl(Rotr(a)) = {i \in Places : down(i) \in Rotr(a)}
  BY DEF Rotl, Rotr
<1> HIDE DEF up, down
<1>4. Rotr(Rotl(a)) = a
  BY <1>1, <1>2, <1>3
<1>5. Rotl(Rotr(a)) = a
  BY <1>1, <1>2, <1>3
<1>6. Rotl(a) \in Half /\ Rotr(a) \in Half
  BY DEF Rotl, Rotr, Half
<1> QED BY <1>4, <1>5, <1>6

Shifts == {2, 4, 8, 16}

\* Exchanging groups of bits twice does nothing.
LEMMA ExchangeTwice ==
    ASSUME NEW s \in Shifts, NEW p \in Blocks
    PROVE  Exchange(s, p) \in Blocks /\ Exchange(s, Exchange(s, p)) = p
<1>1. \A i \in Places : /\ Masked(s, i) => i + s \in Places /\ ~Masked(s, i + s)
                        /\ ~Masked(s, i) => i - s \in Places /\ Masked(s, i - s)
  BY DEF Shifts, Masked, Places
<1>2. \A i \in Places : (i + s) - s = i /\ (i - s) + s = i
  BY DEF Shifts, Places
<1>3. PICK u \in Half, v \in Half : p = <<u, v>>
  BY DEF Blocks
<1> DEFINE q == Exchange(s, p)
<1>4. q[1] = {i \in Places : IF Masked(s, i) THEN i \in u ELSE i - s \in v}
  BY <1>3 DEF Exchange
<1>5. q[2] = {i \in Places : IF Masked(s, i) THEN i + s \in u ELSE i \in v}
  BY <1>3 DEF Exchange
<1>6. q \in Blocks
  BY <1>4, <1>5 DEF Exchange, Blocks, Half
<1>7. {i \in Places : IF Masked(s, i) THEN i \in q[1] ELSE i - s \in q[2]} = u
  <2>1. \A i \in Places : (IF Masked(s, i) THEN i \in q[1] ELSE i - s \in q[2]) <=> i \in u
    BY <1>1, <1>2, <1>4, <1>5
  <2> QED BY <2>1, <1>3 DEF Half
<1>8. {i \in Places : IF Masked(s, i) THEN i + s \in q[1] ELSE i \in q[2]} = v
  <2>1. \A i \in Places : (IF Masked(s, i) THEN i + s \in q[1] ELSE i \in q[2]) <=> i \in v
    BY <1>1, <1>2, <1>4, <1>5
  <2> QED BY <2>1, <1>3 DEF Half
<1>9. Exchange(s, q) = <<u, v>>
  BY <1>7, <1>8 DEF Exchange
<1> QED BY <1>3, <1>6, <1>9

LEMMA ExchangeOddTwice ==
    ASSUME NEW p \in Blocks
    PROVE  ExchangeOdd(p) \in Blocks /\ ExchangeOdd(ExchangeOdd(p)) = p
<1>1. PICK u \in Half, v \in Half : p = <<u, v>>
  BY DEF Blocks
<1> DEFINE q == ExchangeOdd(p)
<1>2. q[1] = {i \in Places : IF i % 2 = 1 THEN i \in v ELSE i \in u}
  BY <1>1 DEF ExchangeOdd
<1>3. q[2] = {i \in Places : IF i % 2 = 1 THEN i \in u ELSE i \in v}
  BY <1>1 DEF ExchangeOdd
<1>4. q \in Blocks
  BY <1>2, <1>3 DEF ExchangeOdd, Blocks, Half
<1>5. {i \in Places : IF i % 2 = 1 THEN i \in q[2] ELSE i \in q[1]} = u
  BY <1>2, <1>3, Zenon DEF Half
<1>6. {i \in Places : IF i % 2 = 1 THEN i \in q[1] ELSE i \in q[2]} = v
  BY <1>2, <1>3, Zenon DEF Half
<1>7. ExchangeOdd(q) = <<u, v>>
  BY <1>5, <1>6 DEF ExchangeOdd
<1> QED BY <1>1, <1>4, <1>7

LEMMA SwapTwice ==
    ASSUME NEW p \in Blocks
    PROVE  /\ Swap(p) \in Blocks /\ Swap(Swap(p)) = p
           /\ p = <<p[1], p[2]>> /\ p[1] \in Half /\ p[2] \in Half
BY DEF Swap, Blocks

LEMMA OddSwaps ==
    ASSUME NEW p \in Blocks
    PROVE  ExchangeOdd(Swap(p)) = Swap(ExchangeOdd(p))
<1>1. PICK u, v : p = <<u, v>>
  BY DEF Blocks
<1> QED BY <1>1 DEF ExchangeOdd, Swap

LEMMA PairType ==
    ASSUME NEW a \in Half, NEW b \in Half
    PROVE  <<a, b>> \in Blocks
BY DEF Blocks

-----------------------------------------------------------------------------
(* DESFunction                                                             *)

\* The permutation after the rounds undoes the one before them, on halves
\* that have changed places.
LEMMA FinalUndoesInitial ==
    ASSUME NEW p \in Blocks
    PROVE  Initial(p) \in Blocks /\ Final(Swap(Initial(p))) = p
<1> USE DEF Shifts
<1> DEFINE n1 == Exchange(4, p)
           n2 == Exchange(16, n1)
           b1 == Exchange(2, Swap(n2))
           b2 == Exchange(8, b1)
           bits == Swap(b2)
           turned == <<bits[1], Rotl(bits[2])>>
           odd == ExchangeOdd(turned)
           last == <<Rotl(odd[1]), odd[2]>>
<1>1. n1 \in Blocks /\ Exchange(4, n1) = p
  BY ExchangeTwice
<1>2. n2 \in Blocks /\ Exchange(16, n2) = n1
  BY <1>1, ExchangeTwice
<1>3. Swap(n2) \in Blocks /\ Swap(Swap(n2)) = n2
  BY <1>2, SwapTwice
<1>4. b1 \in Blocks /\ Exchange(2, b1) = Swap(n2)
  BY <1>3, ExchangeTwice
<1>5. b2 \in Blocks /\ Exchange(8, b2) = b1
  BY <1>4, ExchangeTwice
<1>6. bits \in Blocks /\ bits[1] = b2[2] /\ bits[2] = b2[1] /\ b2 = <<b2[1], b2[2]>>
      /\ b2[1] \in Half /\ b2[2] \in Half
  BY <1>5, SwapTwice DEF Swap
<1>7. turned \in Blocks
  BY <1>6, RotateBack, PairType
<1>8. odd \in Blocks /\ ExchangeOdd(odd) = turned
  BY <1>7, ExchangeOddTwice
<1>9. last = Initial(p)
  BY DEF Initial
<1>10. odd = <<odd[1], odd[2]>> /\ odd[1] \in Half /\ odd[2] \in Half
  BY <1>8, SwapTwice
<1>11. last \in Blocks
  BY <1>10, RotateBack, PairType
<1> DEFINE q == Swap(last)
<1>12. q = <<odd[2], Rotl(odd[1])>>
  BY DEF Swap
<1>13. <<q[1], Rotr(q[2])>> = Swap(odd)
  BY <1>12, <1>10, RotateBack DEF Swap
<1>14. ExchangeOdd(<<q[1], Rotr(q[2])>>) = <<Rotl(bits[2]), bits[1]>>
  BY <1>13, <1>8, OddSwaps DEF Swap
<1>15. Rotr(Rotl(bits[2])) = b2[1]
  BY <1>6, RotateBack
<1>16. Final(q) = Exchange(4, Exchange(16, Swap(Exchange(2, Exchange(8, <<b2[1], b2[2]>>)))))
  BY <1>14, <1>15, <1>6 DEF Final
<1>17. Final(q) = p
  BY <1>16, <1>6, <1>5, <1>4, <1>3, <1>2, <1>1
<1> QED BY <1>9, <1>11, <1>17

LEMMA InitialUndoesFinal ==
    ASSUME NEW p \in Blocks
    PROVE  Final(p) \in Blocks /\ Initial(Final(p)) = Swap(p)
<1> USE DEF Shifts
<1> DEFINE turned == <<p[1], Rotr(p[2])>>
           odd == ExchangeOdd(turned)
           bits == <<Rotr(odd[1]), odd[2]>>
           b1 == Exchange(8, bits)
           b2 == Exchange(2, b1)
           n1 == Exchange(16, Swap(b2))
           last == Exchange(4, n1)
<1>1. turned \in Blocks
  BY SwapTwice, RotateBack, PairType
<1>2. odd \in Blocks /\ ExchangeOdd(odd) = turned
  BY <1>1, ExchangeOddTwice
<1>3. odd = <<odd[1], odd[2]>> /\ odd[1] \in Half /\ odd[2] \in Half
  BY <1>2, SwapTwice
<1>4. bits \in Blocks
  BY <1>3, RotateBack, PairType
<1>5. b1 \in Blocks /\ Exchange(8, b1) = bits
  BY <1>4, ExchangeTwice
<1>6. b2 \in Blocks /\ Exchange(2, b2) = b1
  BY <1>5, ExchangeTwice
<1>7. Swap(b2) \in Blocks /\ Swap(Swap(b2)) = b2
  BY <1>6, SwapTwice
<1>8. n1 \in Blocks /\ Exchange(16, n1) = Swap(b2)
  BY <1>7, ExchangeTwice
<1>9. last \in Blocks /\ Exchange(4, last) = n1
  BY <1>8, ExchangeTwice
<1>10. last = Final(p)
  BY DEF Final
<1> DEFINE back == Swap(bits)
           odd2 == ExchangeOdd(<<back[1], Rotl(back[2])>>)
<1>11. back = Swap(Exchange(8, Exchange(2, Swap(Exchange(16, Exchange(4, last))))))
  BY <1>9, <1>8, <1>7, <1>6, <1>5
<1>12. back[1] = odd[2] /\ back[2] = Rotr(odd[1])
  BY DEF Swap
<1>13. <<back[1], Rotl(back[2])>> = Swap(odd)
  BY <1>12, <1>3, RotateBack DEF Swap
<1>14. odd2 = <<Rotr(p[2]), p[1]>>
  BY <1>13, <1>2, OddSwaps DEF Swap
<1>15. Rotl(Rotr(p[2])) = p[2]
  BY SwapTwice, RotateBack
<1>16. <<Rotl(odd2[1]), odd2[2]>> = Swap(p)
  BY <1>14, <1>15 DEF Swap
<1>17. Initial(last) = <<Rotl(odd2[1]), odd2[2]>>
  BY <1>11 DEF Initial
<1> QED BY <1>9, <1>10, <1>16, <1>17

\* The tables' entries make words, so that a round makes blocks.
LEMMA FvalType ==
    ASSUME NEW half, NEW pair
    PROVE  Fval(half, pair) \in Half
<1>1. \A byte \in 0 .. 3 : Table(TRUE, byte) \in 1 .. 8 /\ Table(FALSE, byte) \in 1 .. 8
  BY DEF Table
<1>2. \A word : \A byte : Six(word, byte) \in SUBSET (0 .. 5)
  BY DEF Six
<1>3. \A word : \A byte \in 0 .. 3 : Sp(Table(TRUE, byte), Six(word, byte)) \in Half
  BY <1>1, <1>2, TablesHoldWords
<1>4. \A word : \A byte \in 0 .. 3 : Sp(Table(FALSE, byte), Six(word, byte)) \in Half
  BY <1>1, <1>2, TablesHoldWords
<1> QED BY <1>3, <1>4 DEF Fval, Half

\* A pass of the loop is undone by a pass with the same pairs, last first, on
\* halves that have changed places.
LEMMA TwoRoundsBack ==
    ASSUME NEW p \in Blocks, NEW a, NEW b
    PROVE  /\ TwoRounds(p, a, b) \in Blocks
           /\ TwoRounds(Swap(TwoRounds(p, a, b)), b, a) = Swap(p)
<1>1. PICK u \in Half, v \in Half : p = <<u, v>>
  BY DEF Blocks
<1> DEFINE x == Xor(u, Fval(v, a))
           y == Xor(v, Fval(x, b))
<1>2. x \in Half /\ y \in Half
  BY FvalType, XorType
<1>3. Xor(y, Fval(x, b)) = v /\ Xor(x, Fval(v, a)) = u
  BY XorTwice
<1> HIDE DEF x, y
<1>4. LeftRound(p, a) = <<x, v>>
  BY <1>1 DEF LeftRound, x
<1>5. RightRound(<<x, v>>, b) = <<x, y>>
  BY DEF RightRound, y
<1>6. LeftRound(<<y, x>>, b) = <<v, x>>
  BY <1>3 DEF LeftRound
<1>7. RightRound(<<v, x>>, a) = <<v, u>>
  BY <1>3 DEF RightRound
<1> QED BY <1>1, <1>2, <1>4, <1>5, <1>6, <1>7, PairType DEF TwoRounds, Swap

LEMMA RoundsBack ==
    ASSUME NEW p \in Blocks, NEW there, NEW back,
           \A k \in 0 .. 15 : back[k] = there[15 - k]
    PROVE  Rounds(p, there) \in Blocks /\ Rounds(Swap(Rounds(p, there)), back) = Swap(p)
<1> DEFINE r0 == TwoRounds(p, there[0], there[1])
           r1 == TwoRounds(r0, there[2], there[3])
           r2 == TwoRounds(r1, there[4], there[5])
           r3 == TwoRounds(r2, there[6], there[7])
           r4 == TwoRounds(r3, there[8], there[9])
           r5 == TwoRounds(r4, there[10], there[11])
           r6 == TwoRounds(r5, there[12], there[13])
           r7 == TwoRounds(r6, there[14], there[15])
<1>1. /\ back[0] = there[15] /\ back[1] = there[14] /\ back[2] = there[13]
      /\ back[3] = there[12] /\ back[4] = there[11] /\ back[5] = there[10]
      /\ back[6] = there[9] /\ back[7] = there[8] /\ back[8] = there[7]
      /\ back[9] = there[6] /\ back[10] = there[5] /\ back[11] = there[4]
      /\ back[12] = there[3] /\ back[13] = there[2] /\ back[14] = there[1]
      /\ back[15] = there[0]
  OBVIOUS
<1>2. r0 \in Blocks /\ TwoRounds(Swap(r0), there[1], there[0]) = Swap(p)
  BY TwoRoundsBack
<1>3. r1 \in Blocks /\ TwoRounds(Swap(r1), there[3], there[2]) = Swap(r0)
  BY <1>2, TwoRoundsBack
<1>4. r2 \in Blocks /\ TwoRounds(Swap(r2), there[5], there[4]) = Swap(r1)
  BY <1>3, TwoRoundsBack
<1>5. r3 \in Blocks /\ TwoRounds(Swap(r3), there[7], there[6]) = Swap(r2)
  BY <1>4, TwoRoundsBack
<1>6. r4 \in Blocks /\ TwoRounds(Swap(r4), there[9], there[8]) = Swap(r3)
  BY <1>5, TwoRoundsBack
<1>7. r5 \in Blocks /\ TwoRounds(Swap(r5), there[11], there[10]) = Swap(r4)
  BY <1>6, TwoRoundsBack
<1>8. r6 \in Blocks /\ TwoRounds(Swap(r6), there[13], there[12]) = Swap(r5)
  BY <1>7, TwoRoundsBack
<1>9. r7 \in Blocks /\ TwoRounds(Swap(r7), there[15], there[14]) = Swap(r6)
  BY <1>8, TwoRoundsBack
<1>10. Rounds(p, there) = r7
  BY DEF Rounds
<1> HIDE DEF r0, r1, r2, r3, r4, r5, r6, r7
<1>11. Rounds(Swap(r7), back) = Swap(p)
  BY <1>1, <1>2, <1>3, <1>4, <1>5, <1>6, <1>7, <1>8, <1>9 DEF Rounds
<1> QED BY <1>9, <1>10, <1>11

\* The subkeys for decryption are those for encryption, last first.
LEMMA KeysReversed ==
    ASSUME NEW k
    PROVE  /\ \A i \in 0 .. 15 : DESKey(k, FALSE)[i] = DESKey(k, TRUE)[15 - i]
           /\ \A i \in 0 .. 15 : DESKey(k, TRUE)[i] = DESKey(k, FALSE)[15 - i]
BY DEF DESKey

LEMMA DESFunctionType ==
    ASSUME NEW p \in Blocks, NEW subkeys
    PROVE  DESFunction(p, subkeys) \in Blocks
<1> DEFINE back == [k \in 0 .. 15 |-> subkeys[15 - k]]
<1>1. \A k \in 0 .. 15 : back[k] = subkeys[15 - k]
  OBVIOUS
<1>2. Initial(p) \in Blocks
  BY FinalUndoesInitial
<1> HIDE DEF back
<1>3. Rounds(Initial(p), subkeys) \in Blocks
  BY <1>1, <1>2, RoundsBack
<1> QED BY <1>3, InitialUndoesFinal DEF DESFunction

\* Whatever the tables hold, a block comes back: DESFunction with the subkeys
\* for one direction undoes DESFunction with those for the other.
THEOREM DESFunctionInverts ==
    ASSUME NEW k, NEW p \in Blocks, NEW encrypt \in BOOLEAN
    PROVE  /\ DESFunction(p, DESKey(k, encrypt)) \in Blocks
           /\ DESFunction(DESFunction(p, DESKey(k, encrypt)), DESKey(k, ~encrypt)) = p
<1> DEFINE there == DESKey(k, encrypt)
           back == DESKey(k, ~encrypt)
           q == Rounds(Initial(p), there)
<1>1. \A i \in 0 .. 15 : back[i] = there[15 - i]
  BY KeysReversed
<1>2. Initial(p) \in Blocks /\ Final(Swap(Initial(p))) = p
  BY FinalUndoesInitial
<1> HIDE DEF there, back
<1>3. q \in Blocks /\ Rounds(Swap(q), back) = Swap(Initial(p))
  BY <1>1, <1>2, RoundsBack
<1>4. Final(q) \in Blocks /\ Initial(Final(q)) = Swap(q)
  BY <1>3, InitialUndoesFinal
<1>5. DESFunction(p, there) = Final(q)
  BY DEF DESFunction
<1>6. DESFunction(Final(q), back) = Final(Rounds(Initial(Final(q)), back))
  BY DEF DESFunction
<1>7. DESFunction(Final(q), back) = p
  BY <1>2, <1>3, <1>4, <1>6
<1> QED BY <1>4, <1>5, <1>7 DEF there, back

-----------------------------------------------------------------------------
(* The modes                                                               *)

Sender(algorithm, k, iv) == CipherInit(algorithm, k, iv, TRUE)
Receiver(algorithm, k, iv) == CipherInit(algorithm, k, iv, FALSE)
At(c, iv) == [c EXCEPT !.iv = iv]

\* The two contexts of a key, at any chaining values.
Paired(e, d) ==
    \E algorithm \in Algorithms, k \in [1 .. 3 -> Keys], iv \in Blocks, x \in Blocks, y \in Blocks :
        /\ e = At(Sender(algorithm, k, iv), x)
        /\ d = At(Receiver(algorithm, k, iv), y)

\* Eight bytes of a key make two words.
LEMMA PackType ==
    ASSUME NEW k
    PROVE  Pack(k) \in Blocks
BY DEF Pack, Blocks, Half

\* Deciphering undoes enciphering, in every mode, where the chaining values
\* agree.
THEOREM ModesInvert ==
    ASSUME NEW e, NEW d, Paired(e, d), NEW iv \in Blocks, NEW input \in Blocks
    PROVE  /\ Output(At(e, iv), input) \in Blocks
           /\ Output(At(d, iv), Output(At(e, iv), input)) = input
<1>1. PICK algorithm \in Algorithms, k \in [1 .. 3 -> Keys], iv0 \in Blocks,
          x \in Blocks, y \in Blocks :
        /\ e = At(Sender(algorithm, k, iv0), x)
        /\ d = At(Receiver(algorithm, k, iv0), y)
  BY DEF Paired
<1> DEFINE en == At(e, iv)
           de == At(d, iv)
<1>2. /\ en.algorithm = algorithm /\ en.encrypt = TRUE /\ en.iv = iv
      /\ en.inputWhitener = Pack(k[2]) /\ en.outputWhitener = Pack(k[3])
      /\ de.algorithm = algorithm /\ de.encrypt = FALSE /\ de.iv = iv
      /\ de.inputWhitener = Pack(k[2]) /\ de.outputWhitener = Pack(k[3])
  BY <1>1 DEF At, Sender, Receiver, CipherInit, Context
<1>3. /\ en.subkeys[1] = DESKey(k[1], TRUE)
      /\ en.subkeys[2] = DESKey(k[2], FALSE)
      /\ en.subkeys[3] = DESKey(k[3], TRUE)
      /\ algorithm # "des3" => de.subkeys[1] = DESKey(k[1], FALSE)
      /\ algorithm = "des3" => /\ de.subkeys[1] = DESKey(k[3], FALSE)
                               /\ de.subkeys[2] = DESKey(k[2], TRUE)
                               /\ de.subkeys[3] = DESKey(k[1], FALSE)
  BY <1>1 DEF At, Sender, Receiver, CipherInit, Context
<1> HIDE DEF en, de
<1>4. \A p \in Blocks : Through(en, p) \in Blocks /\ Through(de, Through(en, p)) = p
  <2> SUFFICES ASSUME NEW p \in Blocks
               PROVE  Through(en, p) \in Blocks /\ Through(de, Through(en, p)) = p
    OBVIOUS
  <2> DEFINE p1 == DESFunction(p, DESKey(k[1], TRUE))
             p2 == DESFunction(p1, DESKey(k[2], FALSE))
             p3 == DESFunction(p2, DESKey(k[3], TRUE))
  <2>1. p1 \in Blocks /\ DESFunction(p1, DESKey(k[1], FALSE)) = p
    BY DESFunctionInverts
  <2>2. p2 \in Blocks /\ DESFunction(p2, DESKey(k[2], TRUE)) = p1
    BY <2>1, DESFunctionInverts
  <2>3. p3 \in Blocks /\ DESFunction(p3, DESKey(k[3], FALSE)) = p2
    BY <2>2, DESFunctionInverts
  <2> HIDE DEF p1, p2, p3
  <2>4. CASE algorithm # "des3"
    <3>1. Through(en, p) = p1
      BY <2>4, <1>2, <1>3 DEF Through, p1
    <3>2. Through(de, p1) = p
      BY <2>1, <2>4, <1>2, <1>3 DEF Through
    <3> QED BY <3>1, <3>2, <2>1
  <2>5. CASE algorithm = "des3"
    <3>1. Through(en, p) = p3
      BY <2>5, <1>2, <1>3 DEF Through, p1, p2, p3
    <3>2. Through(de, p3) = p
      BY <2>1, <2>2, <2>3, <2>5, <1>2, <1>3 DEF Through
    <3> QED BY <3>1, <3>2, <2>3
  <2> QED BY <2>4, <2>5
<1>5. <<{}, {}>> \in Blocks /\ Pack(k[2]) \in Blocks /\ Pack(k[3]) \in Blocks
  BY PackType DEF Blocks, Half
<1>6. PICK w \in Blocks, y1 \in Blocks :
        /\ Before(en) = XorBlock(iv, w) /\ After(en) = y1
        /\ Before(de) = y1 /\ After(de) = XorBlock(iv, w)
  <2>1. CASE algorithm = "desx"
    BY <2>1, <1>2, <1>5 DEF Before, After
  <2>2. CASE algorithm # "desx"
    BY <2>2, <1>2, <1>5 DEF Before, After
  <2> QED BY <2>1, <2>2
<1> DEFINE z == XorBlock(iv, w)
           p == XorBlock(input, z)
           q == Through(en, p)
<1>7. z \in Blocks
  BY XorBlockTwice
<1>8. p \in Blocks /\ XorBlock(p, z) = input
  BY <1>7, XorBlockTwice
<1>9. q \in Blocks /\ Through(de, q) = p
  BY <1>8, <1>4
<1>10. XorBlock(q, y1) \in Blocks /\ XorBlock(XorBlock(q, y1), y1) = q
  BY <1>9, XorBlockTwice
<1>11. Output(en, input) = XorBlock(q, y1)
  BY <1>6 DEF Output
<1>12. Output(de, XorBlock(q, y1)) = XorBlock(Through(de, XorBlock(XorBlock(q, y1), y1)), z)
  BY <1>6 DEF Output
<1> QED BY <1>8, <1>9, <1>10, <1>11, <1>12 DEF en, de

\* Whatever comes, a block goes out.
LEMMA OutputType ==
    ASSUME NEW e, NEW d, Paired(e, d), NEW iv \in Blocks, NEW input \in Blocks
    PROVE  Output(At(d, iv), input) \in Blocks
<1>1. PICK algorithm \in Algorithms, k \in [1 .. 3 -> Keys], iv0 \in Blocks,
          x \in Blocks, y \in Blocks :
        /\ e = At(Sender(algorithm, k, iv0), x)
        /\ d = At(Receiver(algorithm, k, iv0), y)
  BY DEF Paired
<1> DEFINE de == At(d, iv)
<1>2. /\ de.algorithm = algorithm /\ de.encrypt = FALSE /\ de.iv = iv
      /\ de.inputWhitener = Pack(k[2]) /\ de.outputWhitener = Pack(k[3])
  BY <1>1 DEF At, Receiver, CipherInit, Context
<1> HIDE DEF de
<1>3. <<{}, {}>> \in Blocks /\ Pack(k[2]) \in Blocks /\ Pack(k[3]) \in Blocks
  BY PackType DEF Blocks, Half
<1>4. PICK w \in Blocks, v \in Blocks : Before(de) = v /\ After(de) = XorBlock(iv, w)
  BY <1>2, <1>3 DEF Before, After
<1>5. XorBlock(iv, w) \in Blocks /\ XorBlock(input, v) \in Blocks
  BY XorBlockTwice
<1>6. Through(de, XorBlock(input, v)) \in Blocks
  BY <1>5, DESFunctionType DEF Through
<1> QED BY <1>4, <1>5, <1>6, XorBlockTwice DEF Output, de

-----------------------------------------------------------------------------
(* The channel                                                             *)

\* A new context is at its initializing vector.
LEMMA MadeIV ==
    ASSUME NEW algorithm, NEW k, NEW iv
    PROVE  /\ Sender(algorithm, k, iv).iv = iv
           /\ Receiver(algorithm, k, iv).iv = iv
BY DEF Sender, Receiver, CipherInit, Context

LEMMA MadeAt ==
    ASSUME NEW algorithm, NEW k, NEW iv
    PROVE  /\ At(Sender(algorithm, k, iv), iv) = Sender(algorithm, k, iv)
           /\ At(Receiver(algorithm, k, iv), iv) = Receiver(algorithm, k, iv)
<1> DEFINE c == Sender(algorithm, k, iv)
           b == Receiver(algorithm, k, iv)
<1>1. c = At(c, c.iv) /\ b = At(b, b.iv)
  BY DEF Sender, Receiver, CipherInit, Context, At
<1> QED BY <1>1, MadeIV

\* Contexts stay what they were made to be, but for the chaining value.
LEMMA Moved ==
    ASSUME NEW algorithm, NEW k, NEW iv, NEW x1
    PROVE  /\ At(Sender(algorithm, k, iv), x1).iv = x1
           /\ At(Sender(algorithm, k, iv), x1).originalIV = iv
           /\ At(Receiver(algorithm, k, iv), x1).iv = x1
           /\ At(Receiver(algorithm, k, iv), x1).originalIV = iv
BY DEF Sender, Receiver, CipherInit, Context, At

LEMMA Directions ==
    ASSUME NEW e, NEW d, Paired(e, d)
    PROVE  e.encrypt = TRUE /\ d.encrypt = FALSE
BY DEF Paired, Sender, Receiver, CipherInit, Context, At

LEMMA MovedTwice ==
    ASSUME NEW algorithm, NEW k, NEW iv, NEW x1, NEW y1
    PROVE  /\ At(At(Sender(algorithm, k, iv), x1), y1)
                = At(Sender(algorithm, k, iv), y1)
           /\ At(At(Receiver(algorithm, k, iv), x1), y1)
                = At(Receiver(algorithm, k, iv), y1)
BY DEF Sender, Receiver, CipherInit, Context, At

LEMMA PairedTypes ==
    ASSUME NEW e, NEW d, Paired(e, d)
    PROVE  /\ e.iv \in Blocks /\ d.iv \in Blocks
           /\ e.originalIV = d.originalIV /\ e.originalIV \in Blocks
BY Moved DEF Paired

LEMMA PairedSame ==
    ASSUME NEW e, NEW d, Paired(e, d)
    PROVE  At(e, e.iv) = e /\ At(d, d.iv) = d
BY Moved, MovedTwice DEF Paired

LEMMA PairedMoved ==
    ASSUME NEW e, NEW d, Paired(e, d), NEW x \in Blocks, NEW y \in Blocks
    PROVE  /\ Paired(At(e, x), At(d, y))
           /\ At(e, x).iv = x /\ At(d, y).iv = y
           /\ At(e, x).originalIV = e.originalIV /\ At(d, y).originalIV = d.originalIV
<1>1. PICK algorithm \in Algorithms, k \in [1 .. 3 -> Keys], iv \in Blocks,
          x1 \in Blocks, y1 \in Blocks :
        /\ e = At(Sender(algorithm, k, iv), x1)
        /\ d = At(Receiver(algorithm, k, iv), y1)
  BY DEF Paired
<1>2. /\ At(e, x) = At(Sender(algorithm, k, iv), x)
      /\ At(d, y) = At(Receiver(algorithm, k, iv), y)
  BY <1>1, MovedTwice
<1>3. Paired(At(e, x), At(d, y))
  BY <1>2 DEF Paired
<1> QED BY <1>1, <1>2, <1>3, Moved

LEMMA PairedMovedTwice ==
    ASSUME NEW e, NEW d, Paired(e, d), NEW x, NEW z
    PROVE  At(At(e, x), z) = At(e, z)
BY MovedTwice DEF Paired

\* The chaining value after piece w, and the one before piece k + 1.
AfterPiece(e, w) == IF w.end THEN e.originalIV ELSE Output(At(e, w.before), w.plain)
Ahead(e, pieces, k) == IF k = Len(pieces) THEN e.iv ELSE pieces[k + 1].before

Links(e, pieces) ==
    \A k \in 1 .. Len(pieces) :
        /\ Ahead(e, pieces, k) = AfterPiece(e, pieces[k])
        /\ ~pieces[k].end /\ pieces[k].clean => pieces[k].cipher = AfterPiece(e, pieces[k])

\* What is on its way was enciphered with the chaining values the receiver
\* will have, unless the block it took last was damaged.
Chained == Links(enc, wire) /\ (clean => dec.iv = Ahead(enc, wire, 0))

IInv == TypeOK /\ Paired(enc, dec) /\ Chained /\ Recovers

LEMMA InitChained == Init => IInv
<1> SUFFICES ASSUME Init
             PROVE  IInv
  OBVIOUS
<1>1. PICK algorithm \in Algorithms, iv \in IVs :
        /\ key \in KeyTriple
        /\ enc = Sender(algorithm, key, iv)
        /\ dec = Receiver(algorithm, key, iv)
  BY DEF Init, Sender, Receiver
<1>2. key \in [1 .. 3 -> Keys] /\ iv \in Blocks
  BY <1>1, ChannelConstants
<1>3. /\ enc = At(Sender(algorithm, key, iv), iv)
      /\ dec = At(Receiver(algorithm, key, iv), iv)
      /\ enc.iv = iv /\ dec.iv = iv
  BY <1>1, MadeAt, MadeIV
<1>4. Paired(enc, dec)
  BY <1>2, <1>3 DEF Paired
<1>5. wire = <<>> /\ given = 0 /\ got = <<>> /\ clean = TRUE
  BY DEF Init
<1>6. TypeOK
  BY <1>2, <1>3, <1>5 DEF TypeOK
<1>7. Chained /\ Recovers
  <2>1. Len(wire) = 0 /\ DOMAIN got = {}
    BY <1>5
  <2> QED BY <1>3, <2>1 DEF Chained, Links, Ahead, Recovers
<1> QED BY <1>4, <1>6, <1>7 DEF IInv

\* A piece put behind the others, with the chaining value after it.
LEMMA LinkMore ==
    ASSUME NEW e, NEW d, Paired(e, d), NEW pieces \in Seq(Piece), Links(e, pieces),
           NEW w \in Piece, w.before = e.iv, w.cipher = AfterPiece(e, w)
    PROVE  /\ Links(At(e, w.cipher), Append(pieces, w))
           /\ Ahead(At(e, w.cipher), Append(pieces, w), 0) = Ahead(e, pieces, 0)
<1> DEFINE f == At(e, w.cipher)
           more == Append(pieces, w)
           n == Len(pieces)
<1>1. w.cipher \in Blocks /\ w.before \in Blocks
  BY DEF Piece
<1>2. /\ f.iv = w.cipher /\ f.originalIV = e.originalIV
      /\ \A z \in Blocks : At(f, z) = At(e, z)
  <2>1. d.iv \in Blocks
    BY PairedTypes
  <2>2. f.iv = w.cipher /\ f.originalIV = e.originalIV
    BY <1>1, <2>1, PairedMoved
  <2>3. \A z \in Blocks : At(f, z) = At(e, z)
    BY PairedMovedTwice
  <2> QED BY <2>2, <2>3
<1>3. /\ n \in Nat /\ Len(more) = n + 1 /\ more[n + 1] = w
      /\ \A k \in 1 .. n : more[k] = pieces[k] /\ pieces[k] \in Piece
  OBVIOUS
<1> HIDE DEF f, more, n
<1>4. \A y1 \in Piece : AfterPiece(f, y1) = AfterPiece(e, y1)
  BY <1>2 DEF AfterPiece, Piece
<1>5. \A k \in 0 .. n : Ahead(f, more, k) = Ahead(e, pieces, k)
  <2> SUFFICES ASSUME NEW k \in 0 .. n
               PROVE  Ahead(f, more, k) = Ahead(e, pieces, k)
    OBVIOUS
  <2>1. Ahead(f, more, k) = more[k + 1].before
    BY <1>3 DEF Ahead
  <2>2. CASE k = n
    BY <2>1, <2>2, <1>3 DEF Ahead, n
  <2>3. CASE k # n
    <3>1. k + 1 \in 1 .. n
      BY <2>3, <1>3
    <3> QED BY <3>1, <2>1, <2>3, <1>3 DEF Ahead, n
  <2> QED BY <2>2, <2>3
<1>6. Ahead(f, more, n + 1) = w.cipher
  BY <1>2, <1>3 DEF Ahead
<1>7. ASSUME NEW k \in 1 .. n + 1
      PROVE  /\ Ahead(f, more, k) = AfterPiece(f, more[k])
             /\ ~more[k].end /\ more[k].clean => more[k].cipher = AfterPiece(f, more[k])
  <2>1. CASE k = n + 1
    BY <2>1, <1>3, <1>4, <1>6
  <2>2. CASE k # n + 1
    <3>1. k \in 1 .. n
      BY <2>2, <1>3
    <3> QED BY <3>1, <1>3, <1>4, <1>5 DEF Links, n
  <2> QED BY <2>1, <2>2
<1>8. Links(f, more)
  BY <1>3, <1>7 DEF Links
<1>9. Ahead(f, more, 0) = Ahead(e, pieces, 0)
  BY <1>5, <1>3
<1> QED BY <1>8, <1>9 DEF f, more

\* The first piece taken away.
LEMMA LinkFewer ==
    ASSUME NEW e, NEW pieces \in Seq(Piece), pieces # <<>>, Links(e, pieces)
    PROVE  /\ Links(e, Tail(pieces)) /\ Tail(pieces) \in Seq(Piece)
           /\ Ahead(e, Tail(pieces), 0) = AfterPiece(e, Head(pieces))
           /\ Ahead(e, pieces, 0) = Head(pieces).before
           /\ Head(pieces) \in Piece
           /\ ~Head(pieces).end /\ Head(pieces).clean
                => Head(pieces).cipher = AfterPiece(e, Head(pieces))
<1> DEFINE n == Len(pieces)
           rest == Tail(pieces)
<1>1. /\ n \in Nat /\ n > 0 /\ rest \in Seq(Piece) /\ Len(rest) = n - 1
      /\ \A k \in 1 .. n - 1 : rest[k] = pieces[k + 1]
      /\ Head(pieces) = pieces[1] /\ pieces[1] \in Piece
  OBVIOUS
<1> HIDE DEF n, rest
<1>2. \A k \in 0 .. n - 1 : Ahead(e, rest, k) = Ahead(e, pieces, k + 1)
  <2> SUFFICES ASSUME NEW k \in 0 .. n - 1
               PROVE  Ahead(e, rest, k) = Ahead(e, pieces, k + 1)
    OBVIOUS
  <2>1. CASE k = n - 1
    BY <2>1, <1>1 DEF Ahead, n
  <2>2. CASE k # n - 1
    <3>1. k + 1 \in 1 .. n - 1 /\ k + 1 # n /\ k # Len(rest)
      BY <2>2, <1>1
    <3> QED BY <3>1, <1>1 DEF Ahead, n
  <2> QED BY <2>1, <2>2
<1>3. Links(e, rest)
  <2> SUFFICES ASSUME NEW k \in 1 .. n - 1
               PROVE  /\ Ahead(e, rest, k) = AfterPiece(e, rest[k])
                      /\ ~rest[k].end /\ rest[k].clean
                            => rest[k].cipher = AfterPiece(e, rest[k])
    BY <1>1 DEF Links
  <2>1. k + 1 \in 1 .. n /\ k \in 0 .. n - 1
    BY <1>1
  <2> QED BY <2>1, <1>1, <1>2 DEF Links, n
<1>4. Ahead(e, rest, 0) = AfterPiece(e, pieces[1])
  <2>1. 1 \in 1 .. n /\ 0 \in 0 .. n - 1 /\ 0 + 1 = 1
    BY <1>1
  <2> QED BY <2>1, <1>2 DEF Links, n
<1>5. Ahead(e, pieces, 0) = pieces[1].before
  BY <1>1 DEF Ahead, n
<1> QED BY <1>1, <1>3, <1>4, <1>5 DEF Links, n, rest

\* What the sender does: a piece more, and its context at the value after it.
LEMMA SendStep ==
    ASSUME IInv, NEW end \in BOOLEAN, NEW plain \in Blocks, NEW cipher \in Blocks,
           Send(end, plain, cipher), enc' = At(enc, cipher),
           cipher = (IF end THEN enc.originalIV ELSE Output(enc, plain)),
           UNCHANGED <<key, dec, got, clean>>
    PROVE  IInv'
<1> DEFINE piece == [end |-> end, before |-> enc.iv, plain |-> plain,
                     cipher |-> cipher, clean |-> TRUE]
<1>1. wire' = Append(wire, piece) /\ given' = given + 1
  BY DEF Send
<1>2. Paired(enc, dec) /\ enc.iv \in Blocks /\ dec.iv \in Blocks
      /\ At(enc, enc.iv) = enc /\ At(dec, dec.iv) = dec
  BY PairedTypes, PairedSame DEF IInv
<1>3. piece \in Piece /\ piece.before = enc.iv /\ piece.cipher = cipher
  BY <1>2 DEF Piece
<1>4. piece.cipher = AfterPiece(enc, piece)
  BY <1>2 DEF AfterPiece
<1> HIDE DEF piece
<1>5. wire \in Seq(Piece) /\ Links(enc, wire) /\ (clean => dec.iv = Ahead(enc, wire, 0))
  BY DEF IInv, TypeOK, Chained
<1>6. Links(enc', wire') /\ Ahead(enc', wire', 0) = Ahead(enc, wire, 0)
  BY <1>1, <1>2, <1>3, <1>4, <1>5, LinkMore
<1>7. Chained'
  BY <1>5, <1>6 DEF Chained
<1>8. Paired(enc', dec') /\ enc'.iv = cipher
  BY <1>2, PairedMoved
<1>9. TypeOK'
  BY <1>1, <1>3, <1>5, <1>8 DEF IInv, TypeOK
<1> QED BY <1>7, <1>8, <1>9 DEF IInv, Recovers

LEMMA EncipherStep ==
    ASSUME IInv, NEW input \in Input, EncipherBlock(input)
    PROVE  IInv'
<1>1. Paired(enc, dec) /\ enc.iv \in Blocks /\ At(enc, enc.iv) = enc /\ enc.encrypt
  BY PairedTypes, PairedSame, Directions DEF IInv
<1>2. input \in Blocks
  BY ChannelConstants
<1>3. Output(enc, input) \in Blocks
  BY <1>1, <1>2, ModesInvert
<1>4. enc' = At(enc, Output(enc, input))
  BY <1>1 DEF EncipherBlock, Update, At
<1> QED BY <1>2, <1>3, <1>4, SendStep DEF EncipherBlock

LEMMA EndStep ==
    ASSUME IInv, EndMessage
    PROVE  IInv'
<1>1. enc.originalIV \in Blocks
  BY PairedTypes DEF IInv
<1>2. enc' = At(enc, enc.originalIV)
  BY DEF EndMessage, Restart, At
<1> QED BY <1>1, <1>2, SendStep DEF EndMessage

\* What the receiver does: a piece less, and its context at the value after it
\* if the piece was undamaged.
LEMMA TakeStep ==
    ASSUME IInv, wire # <<>>, wire' = Tail(wire), NEW z \in Blocks, dec' = At(dec, z),
           UNCHANGED <<key, enc, given>>, got' \in Seq(Result), clean' \in BOOLEAN,
           clean' => z = AfterPiece(enc, Head(wire)), Recovers'
    PROVE  IInv'
<1>1. Paired(enc, dec) /\ enc.iv \in Blocks /\ At(enc, enc.iv) = enc
  BY PairedTypes, PairedSame DEF IInv
<1>2. Paired(enc', dec') /\ dec'.iv = z
  BY <1>1, PairedMoved
<1>3. wire \in Seq(Piece) /\ Links(enc, wire)
  BY DEF IInv, TypeOK, Chained
<1>4. wire' \in Seq(Piece) /\ Links(enc', wire')
      /\ Ahead(enc', wire', 0) = AfterPiece(enc, Head(wire))
  BY <1>3, LinkFewer
<1>5. Chained'
  BY <1>2, <1>4 DEF Chained
<1>6. TypeOK'
  BY <1>1, <1>2, <1>4 DEF IInv, TypeOK
<1> QED BY <1>2, <1>5, <1>6 DEF IInv

LEMMA DecipherStep ==
    ASSUME IInv, DecipherBlock
    PROVE  IInv'
<1> DEFINE piece == Head(wire)
           result == [plain |-> piece.plain, output |-> Output(dec, piece.cipher),
                      sound |-> clean /\ piece.clean]
<1>1. /\ wire # <<>> /\ ~piece.end /\ wire' = Tail(wire)
      /\ dec' = Update(dec, piece.cipher) /\ got' = Append(got, result)
      /\ clean' = piece.clean /\ UNCHANGED <<key, enc, given>>
  BY DEF DecipherBlock
<1>2. wire \in Seq(Piece) /\ Links(enc, wire) /\ (clean => dec.iv = Ahead(enc, wire, 0))
      /\ clean \in BOOLEAN /\ got \in Seq(Result)
  BY DEF IInv, TypeOK, Chained
<1>3. /\ piece \in Piece /\ Ahead(enc, wire, 0) = piece.before
      /\ piece.clean => piece.cipher = AfterPiece(enc, piece)
  BY <1>1, <1>2, LinkFewer
<1>4. /\ piece.plain \in Blocks /\ piece.cipher \in Blocks /\ piece.clean \in BOOLEAN
      /\ piece.before \in Blocks
  BY <1>3 DEF Piece
<1>5. Paired(enc, dec) /\ ~dec.encrypt /\ dec.iv \in Blocks /\ At(dec, dec.iv) = dec
  BY PairedTypes, PairedSame, Directions DEF IInv
<1>6. dec' = At(dec, piece.cipher)
  BY <1>1, <1>5 DEF Update, At
<1> HIDE DEF piece
<1>7. clean /\ piece.clean => Output(dec, piece.cipher) = piece.plain
  <2> SUFFICES ASSUME clean, piece.clean
               PROVE  Output(dec, piece.cipher) = piece.plain
    OBVIOUS
  <2>1. piece.cipher = Output(At(enc, dec.iv), piece.plain)
    BY <1>1, <1>2, <1>3 DEF AfterPiece
  <2> QED BY <2>1, <1>4, <1>5, ModesInvert
<1>8. Output(dec, piece.cipher) \in Blocks
  BY <1>4, <1>5, OutputType
<1>9. result \in Result /\ got' \in Seq(Result) /\ clean' \in BOOLEAN
  BY <1>1, <1>2, <1>4, <1>8 DEF Result
<1>10. Recovers'
  <2>1. /\ Len(got') = Len(got) + 1 /\ got'[Len(got) + 1] = result
        /\ \A k \in 1 .. Len(got) : got'[k] = got[k]
    BY <1>1, <1>2, <1>9
  <2>2. \A k \in 1 .. Len(got) : got[k].sound => got[k].output = got[k].plain
    BY <1>2 DEF IInv, Recovers
  <2>3. result.sound => result.output = result.plain
    BY <1>7
  <2>4. DOMAIN got' = 1 .. Len(got) + 1
    BY <2>1, <1>9
  <2> QED BY <2>1, <2>2, <2>3, <2>4, <1>2 DEF Recovers
<1> QED BY <1>1, <1>3, <1>4, <1>6, <1>9, <1>10, TakeStep DEF piece

LEMMA NextMessageStep ==
    ASSUME IInv, NextMessage
    PROVE  IInv'
<1>1. enc.originalIV = dec.originalIV /\ enc.originalIV \in Blocks
  BY PairedTypes DEF IInv
<1>2. dec' = At(dec, enc.originalIV)
  BY <1>1 DEF NextMessage, Restart, At
<1>3. AfterPiece(enc, Head(wire)) = enc.originalIV
  BY DEF NextMessage, AfterPiece
<1> QED BY <1>1, <1>2, <1>3, TakeStep DEF NextMessage, IInv, TypeOK, Recovers

LEMMA DamageStep ==
    ASSUME IInv, NEW k \in DOMAIN wire, DamageBlock(k)
    PROVE  IInv'
<1> DEFINE damaged == Damaged(wire[k])
<1>1. /\ wire' = [wire EXCEPT ![k] = damaged]
      /\ UNCHANGED <<key, enc, dec, given, got, clean>>
  BY DEF DamageBlock
<1>2. wire \in Seq(Piece) /\ Links(enc, wire) /\ (clean => dec.iv = Ahead(enc, wire, 0))
  BY DEF IInv, TypeOK, Chained
<1>3. wire[k] \in Piece
  BY <1>2
<1>4. wire[k].cipher \in Blocks /\ OneBit \in Blocks
  BY <1>3 DEF Piece, OneBit, Blocks, Half, Places
<1>5. XorBlock(wire[k].cipher, OneBit) \in Blocks
  BY <1>4, XorBlockTwice
<1>8. /\ damaged \in Piece /\ damaged.end = wire[k].end /\ damaged.before = wire[k].before
      /\ damaged.plain = wire[k].plain /\ damaged.clean = FALSE
  BY <1>3, <1>5 DEF Piece, Damaged
<1> HIDE DEF damaged
<1>9. /\ wire' \in Seq(Piece) /\ Len(wire') = Len(wire) /\ wire'[k] = damaged
      /\ \A j \in 1 .. Len(wire) : j # k => wire'[j] = wire[j]
  BY <1>1, <1>2, <1>8
<1>10. \A j \in 1 .. Len(wire) : wire'[j].before = wire[j].before
  BY <1>8, <1>9
<1>11. \A j \in 0 .. Len(wire) : Ahead(enc, wire', j) = Ahead(enc, wire, j)
  <2> SUFFICES ASSUME NEW j \in 0 .. Len(wire)
               PROVE  Ahead(enc, wire', j) = Ahead(enc, wire, j)
    OBVIOUS
  <2>1. CASE j = Len(wire)
    BY <2>1, <1>9 DEF Ahead
  <2>2. CASE j # Len(wire)
    <3>1. j + 1 \in 1 .. Len(wire)
      BY <2>2, <1>2
    <3> QED BY <3>1, <2>2, <1>9, <1>10 DEF Ahead
  <2> QED BY <2>1, <2>2
<1>12. \A j \in 1 .. Len(wire) : AfterPiece(enc, wire'[j]) = AfterPiece(enc, wire[j])
  BY <1>8, <1>9 DEF AfterPiece
<1>13. Links(enc, wire')
  <2> SUFFICES ASSUME NEW j \in 1 .. Len(wire)
               PROVE  /\ Ahead(enc, wire', j) = AfterPiece(enc, wire'[j])
                      /\ ~wire'[j].end /\ wire'[j].clean
                            => wire'[j].cipher = AfterPiece(enc, wire'[j])
    BY <1>9 DEF Links
  <2>1. Ahead(enc, wire', j) = AfterPiece(enc, wire'[j])
    BY <1>2, <1>11, <1>12 DEF Links
  <2>2. CASE j = k
    BY <2>1, <2>2, <1>8, <1>9
  <2>3. CASE j # k
    BY <2>1, <2>3, <1>2, <1>9 DEF Links
  <2> QED BY <2>2, <2>3
<1>14. Ahead(enc, wire', 0) = Ahead(enc, wire, 0)
  BY <1>2, <1>11
<1>15. Chained'
  BY <1>1, <1>2, <1>13, <1>14 DEF Chained
<1> QED BY <1>1, <1>9, <1>15 DEF IInv, TypeOK, Recovers

LEMMA StepKeepsInvariant == IInv /\ [Next]_vars => IInv'
<1> SUFFICES ASSUME IInv, [Next]_vars
             PROVE  IInv'
  OBVIOUS
<1>1. ASSUME NEW input \in Input, EncipherBlock(input)
      PROVE  IInv'
  BY <1>1, EncipherStep
<1>2. CASE EndMessage
  BY <1>2, EndStep
<1>3. ASSUME NEW k \in DOMAIN wire, DamageBlock(k)
      PROVE  IInv'
  BY <1>3, DamageStep
<1>4. CASE DecipherBlock
  BY <1>4, DecipherStep
<1>5. CASE NextMessage
  BY <1>5, NextMessageStep
<1>6. CASE UNCHANGED vars
  BY <1>6 DEF vars, IInv, TypeOK, Chained, Recovers
<1> QED BY <1>1, <1>2, <1>3, <1>4, <1>5, <1>6 DEF Next

THEOREM ChannelInvariant == Spec => []IInv
BY InitChained, StepKeepsInvariant, PTL DEF Spec

\* No bit comes out beyond the 32 of a word, in any mode.
THEOREM ChannelTypes == Spec => []TypeOK
BY ChannelInvariant, PTL DEF IInv

\* Every block whose own cipher block and the one before it came undamaged is
\* deciphered to what was enciphered: for all keys, messages and damages, and
\* whatever the substitution tables hold.
THEOREM ChannelRecovers == Spec => []Recovers
BY ChannelInvariant, PTL DEF IInv

\* The contexts chain alike whenever all has been deciphered.
THEOREM ContextsInStep == Spec => []InStep
<1>1. IInv => InStep
  BY DEF IInv, Chained, InStep, Ahead
<1> QED BY <1>1, ChannelInvariant, PTL

-----------------------------------------------------------------------------
(* What a damaged block costs the one after it                             *)

LEMMA XorMoves ==
    ASSUME NEW p \in Blocks, NEW q \in Blocks, NEW r \in Blocks
    PROVE  XorBlock(p, XorBlock(XorBlock(q, r), OneBit))
               = XorBlock(XorBlock(p, XorBlock(q, r)), OneBit)
<1>1. ASSUME NEW a, NEW b, NEW c
      PROVE  Xor(a, Xor(b, c)) = Xor(Xor(a, b), c)
  BY DEF Xor
<1> QED BY <1>1 DEF XorBlock

LEMMA XorSwaps ==
    ASSUME NEW p \in Blocks, NEW r \in Blocks
    PROVE  XorBlock(XorBlock(p, OneBit), r) = XorBlock(XorBlock(p, r), OneBit)
<1>1. ASSUME NEW a, NEW b, NEW c
      PROVE  Xor(Xor(a, b), c) = Xor(Xor(a, c), b)
  BY DEF Xor
<1> QED BY <1>1 DEF XorBlock

LEMMA OneBitType == OneBit \in Blocks
BY DEF OneBit, Blocks, Half, Places

\* A bit of the chaining value is a bit of what is deciphered with it.
LEMMA DamageThrough ==
    ASSUME NEW e, NEW d, Paired(e, d), NEW iv \in Blocks, NEW input \in Blocks
    PROVE  Output(At(d, XorBlock(iv, OneBit)), input)
               = XorBlock(Output(At(d, iv), input), OneBit)
<1>1. PICK algorithm \in Algorithms, k \in [1 .. 3 -> Keys], iv0 \in Blocks,
          x \in Blocks, y \in Blocks :
        /\ e = At(Sender(algorithm, k, iv0), x)
        /\ d = At(Receiver(algorithm, k, iv0), y)
  BY DEF Paired
<1> DEFINE de == At(d, iv)
           df == At(d, XorBlock(iv, OneBit))
<1>2. /\ de.algorithm = algorithm /\ de.encrypt = FALSE /\ de.iv = iv
      /\ de.inputWhitener = Pack(k[2]) /\ de.outputWhitener = Pack(k[3])
      /\ df.algorithm = algorithm /\ df.encrypt = FALSE /\ df.iv = XorBlock(iv, OneBit)
      /\ df.inputWhitener = Pack(k[2]) /\ df.outputWhitener = Pack(k[3])
      /\ de.subkeys = df.subkeys
  BY <1>1 DEF At, Receiver, CipherInit, Context
<1> HIDE DEF de, df
<1>3. <<{}, {}>> \in Blocks /\ Pack(k[2]) \in Blocks /\ Pack(k[3]) \in Blocks
  BY PackType DEF Blocks, Half
<1>4. PICK w \in Blocks, v \in Blocks :
        /\ Before(de) = v /\ After(de) = XorBlock(iv, w)
        /\ Before(df) = v /\ After(df) = XorBlock(XorBlock(iv, OneBit), w)
  BY <1>2, <1>3 DEF Before, After
<1> DEFINE p == XorBlock(input, v)
<1>5. p \in Blocks
  BY XorBlockTwice
<1>6. Through(df, p) = Through(de, p) /\ Through(de, p) \in Blocks
  BY <1>2, <1>5, DESFunctionType DEF Through
<1>7. After(df) = XorBlock(XorBlock(iv, w), OneBit)
  BY <1>4, XorSwaps
<1>8. Output(df, input) = XorBlock(Through(de, p), XorBlock(XorBlock(iv, w), OneBit))
  BY <1>4, <1>6, <1>7 DEF Output
<1>9. Output(de, input) = XorBlock(Through(de, p), XorBlock(iv, w))
  BY <1>4 DEF Output
<1> QED BY <1>6, <1>8, <1>9, XorMoves DEF de, df

\* The one damage: on its way, in the chaining value, or in the past.
OnWire ==
    \A j \in DOMAIN wire : ~wire[j].clean =>
        /\ clean /\ \A k \in DOMAIN got : got[k].sound
        /\ \A i \in DOMAIN wire : i # j => wire[i].clean
        /\ ~wire[j].end /\ wire[j].cipher = XorBlock(AfterPiece(enc, wire[j]), OneBit)
InChain ==
    ~clean =>
        /\ \A j \in DOMAIN wire : wire[j].clean
        /\ got # <<>>
        /\ \A k \in 1 .. Len(got) - 1 : got[k].sound
        /\ dec.iv = XorBlock(Ahead(enc, wire, 0), OneBit)
DamageInv == IInv /\ OnWire /\ InChain /\ DamageStays

LEMMA InitDamage == Init => DamageInv
<1> SUFFICES ASSUME Init PROVE DamageInv
  OBVIOUS
<1>1. IInv
  BY InitChained
<1>2. wire = <<>> /\ got = <<>> /\ clean
  BY DEF Init
<1>3. DOMAIN wire = {} /\ DOMAIN got = {}
  BY <1>2
<1> QED BY <1>1, <1>2, <1>3 DEF DamageInv, OnWire, InChain, DamageStays

\* A piece more: what is on its way is followed by the same values.
LEMMA SendDamage ==
    ASSUME DamageInv, NEW end \in BOOLEAN, NEW plain \in Blocks, NEW cipher \in Blocks,
           Send(end, plain, cipher), enc' = At(enc, cipher),
           cipher = (IF end THEN enc.originalIV ELSE Output(enc, plain)),
           UNCHANGED <<key, dec, got, clean>>
    PROVE  DamageInv'
<1> DEFINE piece == [end |-> end, before |-> enc.iv, plain |-> plain,
                     cipher |-> cipher, clean |-> TRUE]
<1>0. IInv /\ IInv'
  BY SendStep DEF DamageInv
<1>1. wire' = Append(wire, piece)
  BY DEF Send
<1>2. Paired(enc, dec) /\ enc.iv \in Blocks /\ dec.iv \in Blocks /\ At(enc, enc.iv) = enc
      /\ wire \in Seq(Piece) /\ Links(enc, wire)
  BY <1>0, PairedTypes, PairedSame DEF IInv, TypeOK, Chained
<1>3. piece \in Piece /\ piece.before = enc.iv /\ piece.cipher = cipher /\ piece.clean
  BY <1>2 DEF Piece
<1>4. piece.cipher = AfterPiece(enc, piece)
  BY <1>2 DEF AfterPiece
<1> HIDE DEF piece
<1>5. Ahead(enc', wire', 0) = Ahead(enc, wire, 0)
  BY <1>1, <1>2, <1>3, <1>4, LinkMore
<1>6. /\ DOMAIN wire' = 1 .. Len(wire) + 1 /\ DOMAIN wire = 1 .. Len(wire) /\ Len(wire) \in Nat
      /\ wire'[Len(wire) + 1] = piece
      /\ \A j \in 1 .. Len(wire) : wire'[j] = wire[j]
  BY <1>1, <1>2, <1>3
<1>7. ASSUME NEW w \in Piece
      PROVE  AfterPiece(enc', w) = AfterPiece(enc, w)
  BY <1>2, PairedMoved, PairedMovedTwice DEF AfterPiece
<1>8. \A j \in 1 .. Len(wire) : wire[j] \in Piece
  BY <1>2
<1>9. OnWire'
  <2> SUFFICES ASSUME NEW j \in DOMAIN wire', ~wire'[j].clean
               PROVE  /\ clean /\ \A k \in DOMAIN got : got[k].sound
                      /\ \A i \in DOMAIN wire' : i # j => wire'[i].clean
                      /\ ~wire'[j].end
                      /\ wire'[j].cipher = XorBlock(AfterPiece(enc', wire'[j]), OneBit)
    BY DEF OnWire
  <2>1. j \in 1 .. Len(wire) /\ wire'[j] = wire[j]
    BY <1>3, <1>6
  <2>2. /\ clean /\ \A k \in DOMAIN got : got[k].sound
        /\ \A i \in DOMAIN wire : i # j => wire[i].clean
        /\ ~wire[j].end /\ wire[j].cipher = XorBlock(AfterPiece(enc, wire[j]), OneBit)
    BY <1>6, <2>1 DEF DamageInv, OnWire
  <2>3. AfterPiece(enc', wire[j]) = AfterPiece(enc, wire[j])
    BY <1>7, <1>8, <2>1
  <2> QED BY <1>3, <1>6, <2>1, <2>2, <2>3
<1>10. InChain'
  BY <1>3, <1>5, <1>6 DEF DamageInv, InChain
<1> QED BY <1>0, <1>9, <1>10 DEF DamageInv, DamageStays

\* A piece less: what remains is followed by the same values.
LEMMA TailDamage ==
    ASSUME DamageInv, wire # <<>>, wire' = Tail(wire), enc' = enc, clean', got' \in Seq(Result),
           \A j \in DOMAIN wire : ~wire[j].clean /\ j # 1 =>
               \A k \in DOMAIN got' : got'[k].sound
    PROVE  OnWire' /\ InChain'
<1>1. wire \in Seq(Piece)
  BY DEF DamageInv, IInv, TypeOK
<1>2. /\ DOMAIN wire' = 1 .. Len(wire) - 1 /\ DOMAIN wire = 1 .. Len(wire) /\ Len(wire) \in Nat
      /\ \A j \in 1 .. Len(wire) - 1 : wire'[j] = wire[j + 1]
  BY <1>1
<1>3. ASSUME NEW j \in DOMAIN wire', ~wire'[j].clean
      PROVE  /\ \A k \in DOMAIN got' : got'[k].sound
             /\ \A i \in DOMAIN wire' : i # j => wire'[i].clean
             /\ ~wire'[j].end
             /\ wire'[j].cipher = XorBlock(AfterPiece(enc', wire'[j]), OneBit)
  <2>1. j + 1 \in DOMAIN wire /\ j + 1 # 1 /\ wire'[j] = wire[j + 1]
    BY <1>2, <1>3
  <2>2. /\ \A i \in DOMAIN wire : i # j + 1 => wire[i].clean
        /\ ~wire[j + 1].end
        /\ wire[j + 1].cipher = XorBlock(AfterPiece(enc, wire[j + 1]), OneBit)
    BY <1>3, <2>1 DEF DamageInv, OnWire
  <2>3. \A i \in DOMAIN wire' : i # j => wire'[i].clean
    <3> TAKE i \in DOMAIN wire'
    <3>1. i + 1 \in DOMAIN wire /\ wire'[i] = wire[i + 1] /\ (i # j => i + 1 # j + 1)
      BY <1>2, <2>1
    <3> QED BY <2>2, <3>1
  <2> QED BY <1>3, <2>1, <2>2, <2>3
<1> QED BY <1>3 DEF OnWire, InChain

LEMMA EncipherDamage ==
    ASSUME DamageInv, NEW input \in Input, EncipherBlock(input)
    PROVE  DamageInv'
<1>1. Paired(enc, dec) /\ enc.iv \in Blocks /\ At(enc, enc.iv) = enc /\ enc.encrypt
  BY PairedTypes, PairedSame, Directions DEF DamageInv, IInv
<1>2. input \in Blocks
  BY ChannelConstants
<1>3. Output(enc, input) \in Blocks
  BY <1>1, <1>2, ModesInvert
<1>4. enc' = At(enc, Output(enc, input))
  BY <1>1 DEF EncipherBlock, Update, At
<1> QED BY <1>2, <1>3, <1>4, SendDamage DEF EncipherBlock

LEMMA EndDamage ==
    ASSUME DamageInv, EndMessage
    PROVE  DamageInv'
<1>1. enc.originalIV \in Blocks
  BY PairedTypes DEF DamageInv, IInv
<1>2. enc' = At(enc, enc.originalIV)
  BY DEF EndMessage, Restart, At
<1> QED BY <1>1, <1>2, SendDamage DEF EndMessage

\* The damage is one bit of what would have been the next chaining value.
LEMMA BlockDamage ==
    ASSUME DamageInv, NEW k \in DOMAIN wire, DamageBlock(k)
    PROVE  DamageInv'
<1> DEFINE damaged == Damaged(wire[k])
<1>1. /\ wire' = [wire EXCEPT ![k] = damaged] /\ ~wire[k].end
      /\ \A j \in DOMAIN wire : wire[j].clean
      /\ clean /\ \A j \in DOMAIN got : got[j].sound
      /\ UNCHANGED <<key, enc, dec, given, got, clean>>
  BY DEF DamageBlock
<1>2. IInv /\ IInv'
  BY DamageStep DEF DamageInv
<1>3. wire \in Seq(Piece) /\ Links(enc, wire)
  BY <1>2 DEF IInv, TypeOK, Chained
<1>4. /\ DOMAIN wire' = DOMAIN wire /\ wire'[k] = damaged
      /\ \A j \in DOMAIN wire : j # k => wire'[j] = wire[j]
  BY <1>1, <1>3
<1>5. wire[k].cipher = AfterPiece(enc, wire[k]) /\ wire[k] \in Piece
  BY <1>1, <1>3 DEF Links
<1>6. /\ damaged.end = wire[k].end /\ damaged.before = wire[k].before
      /\ damaged.plain = wire[k].plain
      /\ damaged.cipher = XorBlock(wire[k].cipher, OneBit)
  BY <1>5 DEF Damaged, Piece
<1> HIDE DEF damaged
<1>7. AfterPiece(enc', damaged) = AfterPiece(enc, wire[k])
  BY <1>1, <1>6 DEF AfterPiece
<1>8. OnWire'
  <2> SUFFICES ASSUME NEW j \in DOMAIN wire', ~wire'[j].clean
               PROVE  /\ \A i \in DOMAIN wire' : i # j => wire'[i].clean
                      /\ ~wire'[j].end
                      /\ wire'[j].cipher = XorBlock(AfterPiece(enc', wire'[j]), OneBit)
    BY <1>1 DEF OnWire
  <2>1. j = k
    BY <1>1, <1>4
  <2> QED BY <1>1, <1>4, <1>5, <1>6, <1>7, <2>1
<1>9. InChain'
  BY <1>1 DEF InChain
<1> QED BY <1>1, <1>2, <1>8, <1>9 DEF DamageInv, DamageStays

LEMMA DecipherDamage ==
    ASSUME DamageInv, DecipherBlock
    PROVE  DamageInv'
<1> DEFINE piece == Head(wire)
           result == [plain |-> piece.plain, output |-> Output(dec, piece.cipher),
                      sound |-> clean /\ piece.clean]
<1>1. /\ wire # <<>> /\ ~piece.end /\ wire' = Tail(wire)
      /\ dec' = Update(dec, piece.cipher) /\ got' = Append(got, result)
      /\ clean' = piece.clean /\ UNCHANGED <<key, enc, given>>
  BY DEF DecipherBlock
<1>2. IInv /\ IInv'
  BY DecipherStep DEF DamageInv
<1>3. wire \in Seq(Piece) /\ Links(enc, wire) /\ clean \in BOOLEAN /\ got \in Seq(Result)
  BY <1>2 DEF IInv, TypeOK, Chained
<1>4. /\ piece \in Piece /\ Ahead(enc, wire, 0) = piece.before
      /\ Ahead(enc, Tail(wire), 0) = AfterPiece(enc, piece)
      /\ piece.clean => piece.cipher = AfterPiece(enc, piece)
  BY <1>1, <1>3, LinkFewer
<1>5. /\ piece.plain \in Blocks /\ piece.cipher \in Blocks /\ piece.clean \in BOOLEAN
      /\ piece.before \in Blocks
  BY <1>4 DEF Piece
<1>6. Paired(enc, dec) /\ ~dec.encrypt /\ At(dec, dec.iv) = dec
  BY <1>2, PairedSame, Directions DEF IInv
<1>7. dec'.iv = piece.cipher
  <2>1. dec' = At(dec, piece.cipher)
    BY <1>1, <1>6 DEF Update, At
  <2> QED BY <1>5, <1>6, <2>1, PairedMoved, PairedTypes
<1>8. 1 \in DOMAIN wire /\ piece = wire[1]
  BY <1>1, <1>3
<1>9. got' \in Seq(Result)
  BY <1>2 DEF IInv, TypeOK
<1> HIDE DEF piece
<1>10. /\ Len(got') = Len(got) + 1 /\ got'[Len(got) + 1] = result
       /\ \A k \in 1 .. Len(got) : got'[k] = got[k]
       /\ DOMAIN got' = 1 .. Len(got) + 1 /\ DOMAIN got = 1 .. Len(got) /\ Len(got) \in Nat
  BY <1>1, <1>3, <1>9
<1>11. result.sound = (clean /\ piece.clean) /\ result.plain = piece.plain
       /\ result.output = Output(dec, piece.cipher)
  OBVIOUS
<1> HIDE DEF result
<1>12. CASE clean /\ piece.clean
  <2>0. result.sound
    BY <1>11, <1>12
  <2>1. \A j \in DOMAIN wire : ~wire[j].clean /\ j # 1 => \A k \in DOMAIN got' : got'[k].sound
    <3> SUFFICES ASSUME NEW j \in DOMAIN wire, ~wire[j].clean, NEW k \in DOMAIN got'
                 PROVE  got'[k].sound
      OBVIOUS
    <3>1. \A i \in DOMAIN got : got[i].sound
      BY DEF DamageInv, OnWire
    <3>2. k \in DOMAIN got \/ k = Len(got) + 1
      BY <1>10
    <3> QED BY <1>10, <2>0, <3>1, <3>2
  <2>2. OnWire' /\ InChain'
    BY <1>1, <1>9, <1>12, <2>1, TailDamage
  <2>3. DamageStays'
    BY <1>10, <2>0 DEF DamageInv, DamageStays
  <2> QED BY <1>2, <2>2, <2>3 DEF DamageInv
<1>13. CASE clean /\ ~piece.clean
  <2>1. /\ \A k \in DOMAIN got : got[k].sound
        /\ \A i \in DOMAIN wire : i # 1 => wire[i].clean
        /\ piece.cipher = XorBlock(AfterPiece(enc, piece), OneBit)
    BY <1>8, <1>13 DEF DamageInv, OnWire
  <2>2. \A j \in DOMAIN wire' : wire'[j].clean
    <3>1. \A j \in DOMAIN wire' : j + 1 \in DOMAIN wire /\ j + 1 # 1 /\ wire'[j] = wire[j + 1]
      BY <1>1, <1>3
    <3> QED BY <2>1, <3>1
  <2>3. got' # <<>> /\ \A k \in 1 .. Len(got') - 1 : got'[k].sound
    BY <1>10, <2>1
  <2>4. dec'.iv = XorBlock(Ahead(enc', wire', 0), OneBit)
    BY <1>1, <1>4, <1>7, <2>1
  <2>5. OnWire' /\ InChain'
    BY <2>2, <2>3, <2>4 DEF OnWire, InChain
  <2>6. DamageStays'
    BY <1>10, <2>1 DEF DamageInv, DamageStays
  <2> QED BY <1>2, <2>5, <2>6 DEF DamageInv
<1>14. CASE ~clean
  <2>1. /\ \A j \in DOMAIN wire : wire[j].clean
        /\ dec.iv = XorBlock(piece.before, OneBit)
    BY <1>4, <1>14 DEF DamageInv, InChain
  <2>2. piece.clean /\ piece.cipher = Output(At(enc, piece.before), piece.plain)
    BY <1>1, <1>4, <1>8, <2>1 DEF AfterPiece
  <2>3. Output(At(dec, piece.before), piece.cipher) = piece.plain
    BY <1>5, <1>6, <2>2, ModesInvert
  <2>4. result.output = XorBlock(result.plain, OneBit)
    BY <1>5, <1>6, <1>11, <2>1, <2>3, DamageThrough
  <2>5. DamageStays'
    BY <1>10, <2>4 DEF DamageInv, DamageStays
  <2>6. OnWire' /\ InChain'
    BY <1>1, <1>9, <2>1, <2>2, TailDamage
  <2> QED BY <1>2, <2>5, <2>6 DEF DamageInv
<1> QED BY <1>3, <1>5, <1>12, <1>13, <1>14

LEMMA NextDamage ==
    ASSUME DamageInv, NextMessage
    PROVE  DamageInv'
<1>1. IInv /\ IInv'
  BY NextMessageStep DEF DamageInv
<1>2. \A j \in DOMAIN wire : ~wire[j].clean => \A k \in DOMAIN got' : got'[k].sound
  BY DEF DamageInv, OnWire, NextMessage
<1>3. OnWire' /\ InChain'
  BY <1>1, <1>2, TailDamage DEF NextMessage, IInv, TypeOK
<1> QED BY <1>1, <1>3 DEF DamageInv, DamageStays, NextMessage

LEMMA StepKeepsDamage == DamageInv /\ [Next]_vars => DamageInv'
<1> SUFFICES ASSUME DamageInv, [Next]_vars
             PROVE  DamageInv'
  OBVIOUS
<1>1. ASSUME NEW input \in Input, EncipherBlock(input)
      PROVE  DamageInv'
  BY <1>1, EncipherDamage
<1>2. CASE EndMessage
  BY <1>2, EndDamage
<1>3. ASSUME NEW k \in DOMAIN wire, DamageBlock(k)
      PROVE  DamageInv'
  BY <1>3, BlockDamage
<1>4. CASE DecipherBlock
  BY <1>4, DecipherDamage
<1>5. CASE NextMessage
  BY <1>5, NextDamage
<1>6. CASE UNCHANGED vars
  <2>1. IInv'
    BY <1>6, StepKeepsInvariant DEF DamageInv
  <2> QED BY <1>6, <2>1 DEF vars, DamageInv, OnWire, InChain, DamageStays
<1> QED BY <1>1, <1>2, <1>3, <1>4, <1>5, <1>6 DEF Next

\* A damaged bit of the cipher text is the same bit of the block after it and
\* no other, in all three modes: what is chained is what came.
THEOREM DamageIsKept == Spec => []DamageStays
<1>1. DamageInv => DamageStays
  BY DEF DamageInv
<1> QED BY <1>1, InitDamage, StepKeepsDamage, PTL DEF Spec

-----------------------------------------------------------------------------
(* Texts and their blocks                                                  *)

\* Of a text that has as many blocks: n blocks after block i, what is chained
\* up to block i, and what n blocks after it are enciphered to.
Has(text, n) == n * Block <= Len(text)
Cut(text, i, n) == SubSeq(text, i * Block + 1, (i + n) * Block)
Chain(text, i) == [k \in 1 .. i |-> Cut(text, k - 1, 1)]
Crypt(text, i, n) == [p \in 1 .. n * Block |-> <<Chain(text, i + BlockOf(p)), PlaceOf(p)>>]

LEMMA Division ==
    ASSUME Block \in Nat \ {0}, NEW n \in Nat
    PROVE  /\ n \div Block \in Nat /\ n % Block \in 0 .. Block - 1
           /\ n = (n \div Block) * Block + (n % Block)
OBVIOUS

LEMMA Quotient ==
    ASSUME Block \in Nat \ {0}, NEW i \in Nat, NEW r \in 0 .. Block - 1
    PROVE  /\ (i * Block + r) \div Block = i
           /\ (i * Block + r) % Block = r
<1> DEFINE n == i * Block + r
           q == n \div Block
           s == n % Block
<1>1. n \in Nat /\ q \in Nat /\ s \in 0 .. Block - 1 /\ n = q * Block + s
  BY Division
<1>2. i * Block + r = q * Block + s
  BY <1>1
<1> HIDE DEF n, q, s
<1>3. ASSUME q < i PROVE FALSE
  <2>1. i * Block = (i - q) * Block + q * Block
    BY <1>1
  <2>2. (i - q) * Block >= Block
    BY <1>1, <1>3
  <2> QED BY <2>1, <2>2, <1>1, <1>2
<1>4. ASSUME i < q PROVE FALSE
  <2>1. q * Block = (q - i) * Block + i * Block
    BY <1>1
  <2>2. (q - i) * Block >= Block
    BY <1>1, <1>4
  <2> QED BY <2>1, <2>2, <1>1, <1>2
<1>5. q = i /\ s = r
  BY <1>1, <1>2, <1>3, <1>4
<1> QED BY <1>5 DEF q, s, n

LEMMA Multiples ==
    ASSUME Block \in Nat \ {0}, NEW i \in Nat, NEW j \in Nat
    PROVE  /\ i * Block \in Nat
           /\ (i + j) * Block = i * Block + j * Block
           /\ (i * Block) \div Block = i
           /\ i <= j <=> i * Block <= j * Block
<1>1. (i * Block + 0) \div Block = i
  BY Quotient
<1>2. i * Block \in Nat /\ (i + j) * Block = i * Block + j * Block
  OBVIOUS
<1>3. ASSUME i <= j PROVE i * Block <= j * Block
  <2>1. j * Block = i * Block + (j - i) * Block /\ (j - i) * Block \in Nat
    BY <1>3
  <2> QED BY <2>1, <1>2
<1>4. ASSUME j < i PROVE j * Block < i * Block
  <2>1. i * Block = j * Block + (i - j) * Block /\ (i - j) * Block >= Block
    BY <1>4
  <2> QED BY <2>1, <1>2
<1> QED BY <1>1, <1>2, <1>3, <1>4

\* A byte is at its place in its block.
LEMMA PlacesOf ==
    ASSUME Block \in Nat \ {0}, NEW i \in Nat, NEW n \in Nat, NEW p \in 1 .. n * Block
    PROVE  /\ BlockOf(p) \in 1 .. n /\ PlaceOf(p) \in 1 .. Block
           /\ p = (BlockOf(p) - 1) * Block + PlaceOf(p)
           /\ BlockOf(i * Block + p) = i + BlockOf(p)
           /\ PlaceOf(i * Block + p) = PlaceOf(p)
<1> DEFINE q == (p - 1) \div Block
           r == (p - 1) % Block
<1>1. p - 1 \in Nat /\ q \in Nat /\ r \in 0 .. Block - 1 /\ p - 1 = q * Block + r
  BY Division, Multiples
<1>2. BlockOf(p) = q + 1 /\ PlaceOf(p) = r + 1
  BY DEF BlockOf, PlaceOf
<1> HIDE DEF q, r
<1>3. i * Block + p - 1 = (i + q) * Block + r /\ i + q \in Nat
  BY <1>1, Multiples
<1>4. BlockOf(i * Block + p) = i + q + 1 /\ PlaceOf(i * Block + p) = r + 1
  <2>1. ((i + q) * Block + r) \div Block = i + q /\ ((i + q) * Block + r) % Block = r
    BY <1>1, <1>3, Quotient
  <2>2. (i * Block + p - 1) \div Block = i + q /\ (i * Block + p - 1) % Block = r
    BY ONLY <1>3, <2>1
  <2> QED BY <2>2 DEF BlockOf, PlaceOf
<1>5. q < n
  <2>1. q * Block < n * Block
    BY <1>1, Multiples
  <2> QED BY <2>1, <1>1, Multiples
<1> QED BY <1>1, <1>2, <1>4, <1>5

-----------------------------------------------------------------------------

LEMMA PieceIs ==
    ASSUME NEW S, NEW text \in Seq(S), NEW a \in Nat, NEW b \in Nat, b <= Len(text)
    PROVE  /\ SubSeq(text, a + 1, b) \in Seq(S)
           /\ Len(SubSeq(text, a + 1, b)) = (IF a <= b THEN b - a ELSE 0)
           /\ \A p \in 1 .. b - a : SubSeq(text, a + 1, b)[p] = text[a + p]
<1>1. \A p \in a + 1 .. b : text[p] \in S
  BY ElementOfSeq
<1>2. \A p \in 1 .. b - (a + 1) + 1 : SubSeq(text, a + 1, b)[p] = text[a + 1 + p - 1]
  BY <1>1, SubSeqProperties
<1>3. ASSUME NEW p \in 1 .. b - a PROVE SubSeq(text, a + 1, b)[p] = text[a + p]
  <2>1. p \in 1 .. b - (a + 1) + 1 /\ a + 1 + p - 1 = a + p
    OBVIOUS
  <2> QED BY <2>1, <1>2
<1>4. SubSeq(text, a + 1, b) \in Seq(S)
  BY <1>1, SubSeqProperties
<1>5. Len(SubSeq(text, a + 1, b)) = IF a + 1 <= b THEN b - (a + 1) + 1 ELSE 0
  BY <1>1, SubSeqProperties
<1>6. Len(SubSeq(text, a + 1, b)) = IF a <= b THEN b - a ELSE 0
  BY <1>5, LenProperties
<1> QED BY <1>3, <1>4, <1>6

LEMMA PieceOfPiece ==
    ASSUME NEW S, NEW text \in Seq(S), NEW a \in Nat, NEW b \in Nat, a <= b, b <= Len(text),
           NEW c \in Nat, NEW d \in Nat, d <= b - a
    PROVE  SubSeq(SubSeq(text, a + 1, b), c + 1, d) = SubSeq(text, (a + c) + 1, a + d)
<1> DEFINE part == SubSeq(text, a + 1, b)
           one == SubSeq(part, c + 1, d)
           two == SubSeq(text, (a + c) + 1, a + d)
<1>1. /\ part \in Seq(S) /\ Len(part) = b - a
      /\ \A p \in 1 .. b - a : part[p] = text[a + p]
  BY PieceIs
<1>2. /\ one \in Seq(S) /\ Len(one) = (IF c <= d THEN d - c ELSE 0)
      /\ \A p \in 1 .. d - c : one[p] = part[c + p]
  <2>1. part \in Seq(S) /\ c \in Nat /\ d \in Nat /\ d <= Len(part)
    BY <1>1
  <2> HIDE DEF part
  <2> QED BY ONLY <2>1, PieceIs DEF one
<1>3. a + c \in Nat /\ a + d \in Nat /\ a + d <= Len(text)
  BY LenProperties
<1>4. /\ two \in Seq(S) /\ Len(two) = (IF a + c <= a + d THEN (a + d) - (a + c) ELSE 0)
      /\ \A p \in 1 .. (a + d) - (a + c) : two[p] = text[(a + c) + p]
  <2> DEFINE x == a + c
             y == a + d
  <2>1. x \in Nat /\ y \in Nat /\ y <= Len(text)
    BY <1>3
  <2> HIDE DEF x, y
  <2>2. /\ SubSeq(text, x + 1, y) \in Seq(S)
        /\ Len(SubSeq(text, x + 1, y)) = (IF x <= y THEN y - x ELSE 0)
        /\ \A p \in 1 .. y - x : SubSeq(text, x + 1, y)[p] = text[x + p]
    BY <2>1, PieceIs
  <2> QED BY <2>2 DEF x, y
<1> HIDE DEF one, two, part
<1>5. Len(one) = Len(two)
  BY <1>2, <1>4
<1>6. ASSUME NEW p \in 1 .. Len(one) PROVE one[p] = two[p]
  <2>1. p \in 1 .. d - c /\ c + p \in 1 .. b - a /\ p \in 1 .. (a + d) - (a + c)
        /\ a + (c + p) = (a + c) + p
    BY <1>2
  <2> QED BY <2>1, <1>1, <1>2, <1>4
<1>7. one = two
  BY <1>2, <1>4, <1>5, <1>6, SeqEqual
<1> QED BY <1>7 DEF one, two, part

\* A piece, and the piece after it.
LEMMA Pieces ==
    ASSUME NEW S, NEW text \in Seq(S), NEW a \in Nat, NEW b \in Nat, NEW c \in Nat,
           a <= b, b <= c, c <= Len(text)
    PROVE  SubSeq(text, a + 1, b) \o SubSeq(text, b + 1, c) = SubSeq(text, a + 1, c)
<1>1. a + 1 \in 1 .. Len(text) + 1 /\ b \in (a + 1) - 1 .. Len(text) /\ c \in b .. Len(text)
  BY LenProperties
<1> QED BY <1>1, ConcatAdjacentSubSeq

LEMMA PieceOfMore ==
    ASSUME NEW S, NEW text \in Seq(S), NEW more \in Seq(S), NEW a \in Nat, NEW b \in Nat,
           b <= Len(text)
    PROVE  SubSeq(text \o more, a + 1, b) = SubSeq(text, a + 1, b)
<1> DEFINE long == text \o more
           one == SubSeq(long, a + 1, b)
           two == SubSeq(text, a + 1, b)
<1>1. /\ long \in Seq(S) /\ Len(long) = Len(text) + Len(more)
      /\ \A p \in 1 .. Len(text) + Len(more) :
            long[p] = IF p <= Len(text) THEN text[p] ELSE more[p - Len(text)]
  BY ConcatProperties
<1>2. Len(text) \in Nat /\ Len(more) \in Nat
  BY LenProperties
<1>3. /\ one \in Seq(S) /\ Len(one) = (IF a <= b THEN b - a ELSE 0)
      /\ \A p \in 1 .. b - a : one[p] = long[a + p]
  <2>1. long \in Seq(S) /\ a \in Nat /\ b \in Nat /\ b <= Len(long)
    BY <1>1, <1>2
  <2> HIDE DEF long
  <2> QED BY ONLY <2>1, PieceIs DEF one
<1>4. /\ two \in Seq(S) /\ Len(two) = (IF a <= b THEN b - a ELSE 0)
      /\ \A p \in 1 .. b - a : two[p] = text[a + p]
  BY PieceIs
<1> HIDE DEF one, two, long
<1>5. ASSUME NEW p \in 1 .. b - a PROVE one[p] = two[p]
  <2>1. a + p \in 1 .. Len(text) + Len(more) /\ a + p <= Len(text)
    BY <1>2
  <2> QED BY <2>1, <1>1, <1>3, <1>4
<1>6. one = two
  BY <1>3, <1>4, <1>5, SeqEqual
<1> QED BY <1>6 DEF one, two, long

\* The rest of a text and what comes after it are the rest of both.
LEMMA RestOfMore ==
    ASSUME NEW S, NEW text \in Seq(S), NEW more \in Seq(S), NEW a \in Nat, a <= Len(text)
    PROVE  SubSeq(text, a + 1, Len(text)) \o more
               = SubSeq(text \o more, a + 1, Len(text) + Len(more))
<1> DEFINE n == Len(text)
           m == Len(more)
           long == text \o more
           rest == SubSeq(text, a + 1, n)
           one == rest \o more
           two == SubSeq(long, a + 1, n + m)
<1>1. n \in Nat /\ m \in Nat /\ n + m \in Nat
  BY LenProperties
<1>2. /\ long \in Seq(S) /\ Len(long) = n + m
      /\ \A p \in 1 .. n + m : long[p] = IF p <= n THEN text[p] ELSE more[p - n]
  BY ConcatProperties
<1>3. rest \in Seq(S) /\ Len(rest) = n - a /\ \A p \in 1 .. n - a : rest[p] = text[a + p]
  BY PieceIs, <1>1
<1>4. /\ one \in Seq(S) /\ Len(one) = Len(rest) + m
      /\ \A p \in 1 .. Len(rest) + m :
            one[p] = IF p <= Len(rest) THEN rest[p] ELSE more[p - Len(rest)]
  BY <1>3, ConcatProperties
<1>5. /\ two \in Seq(S) /\ Len(two) = (n + m) - a
      /\ \A p \in 1 .. (n + m) - a : two[p] = long[a + p]
  <2> DEFINE b == n + m
  <2>1. b \in Nat /\ b <= Len(long) /\ a <= b
    BY <1>1, <1>2
  <2> HIDE DEF long, b
  <2>2. /\ SubSeq(long, a + 1, b) \in Seq(S) /\ Len(SubSeq(long, a + 1, b)) = b - a
        /\ \A p \in 1 .. b - a : SubSeq(long, a + 1, b)[p] = long[a + p]
    BY <1>2, <2>1, PieceIs
  <2> QED BY <2>2 DEF b
<1> HIDE DEF one, two, long, rest, n, m
<1>6. ASSUME NEW p \in 1 .. Len(one) PROVE one[p] = two[p]
  <2>1. p \in 1 .. (n - a) + m /\ p \in 1 .. (n + m) - a /\ a + p \in 1 .. n + m
    BY <1>1, <1>3, <1>4
  <2>2. two[p] = IF a + p <= n THEN text[a + p] ELSE more[(a + p) - n]
    BY <2>1, <1>5, <1>2
  <2>3. one[p] = IF p <= n - a THEN rest[p] ELSE more[p - (n - a)]
    BY <2>1, <1>3, <1>4
  <2>4. CASE p <= n - a
    BY <2>1, <2>2, <2>3, <2>4, <1>1, <1>3
  <2>5. CASE ~(p <= n - a)
    <3>1. (a + p) - n = p - (n - a) /\ ~(a + p <= n)
      BY <2>1, <2>5, <1>1
    <3> QED BY <3>1, <2>2, <2>3, <2>5
  <2> QED BY <2>4, <2>5
<1>7. Len(one) = Len(two)
  BY <1>1, <1>3, <1>4, <1>5
<1>8. one = two
  BY <1>4, <1>5, <1>6, <1>7, SeqEqual
<1> QED BY <1>8 DEF one, two, long, rest, n, m

-----------------------------------------------------------------------------
(* Whole blocks of a text                                                  *)

LEMMA HasFewer ==
    ASSUME Block \in Nat \ {0}, NEW S, NEW text \in Seq(S), NEW n \in Nat, Has(text, n),
           NEW i \in Nat, i <= n
    PROVE  Has(text, i)
<1>1. i * Block \in Nat /\ n * Block \in Nat /\ i * Block <= n * Block /\ Len(text) \in Nat
  BY Multiples, LenProperties
<1> DEFINE x == i * Block
           y == n * Block
<1>2. x \in Nat /\ y \in Nat /\ x <= y /\ y <= Len(text)
  BY <1>1 DEF Has
<1> HIDE DEF x, y
<1>3. x <= Len(text)
  BY <1>1, <1>2
<1> QED BY <1>3 DEF x, Has

LEMMA CutType ==
    ASSUME Block \in Nat \ {0}, NEW S, NEW text \in Seq(S), NEW i \in Nat, NEW n \in Nat,
           Has(text, i + n)
    PROVE  /\ Cut(text, i, n) \in Seq(S) /\ Len(Cut(text, i, n)) = n * Block
           /\ \A p \in 1 .. n * Block : Cut(text, i, n)[p] = text[i * Block + p]
<1> DEFINE a == i * Block
           b == (i + n) * Block
           c == n * Block
<1>1. a \in Nat /\ b \in Nat /\ c \in Nat /\ b = a + c /\ b <= Len(text)
  BY Multiples DEF Has
<1>2. Cut(text, i, n) = SubSeq(text, a + 1, b)
  BY DEF Cut
<1> HIDE DEF a, b, c
<1>3. /\ SubSeq(text, a + 1, b) \in Seq(S) /\ Len(SubSeq(text, a + 1, b)) = b - a
      /\ \A p \in 1 .. b - a : SubSeq(text, a + 1, b)[p] = text[a + p]
  BY <1>1, PieceIs
<1>4. b - a = c
  BY <1>1
<1>5. /\ Cut(text, i, n) \in Seq(S) /\ Len(Cut(text, i, n)) = c
      /\ \A p \in 1 .. c : Cut(text, i, n)[p] = text[a + p]
  BY <1>2, <1>3, <1>4
<1> QED BY <1>5 DEF a, c

LEMMA TextCut ==
    ASSUME Block \in Nat \ {0}, NEW text \in Seq(Nat), NEW i \in Nat, NEW n \in Nat,
           Has(text, i + n)
    PROVE  \A p \in 1 .. n * Block : Cut(text, i, n)[p] = text[i * Block + p]
<1> DEFINE T == Nat
<1>1. text \in Seq(T)
  OBVIOUS
<1> HIDE DEF T
<1> QED BY <1>1, CutType

LEMMA CutOfMore ==
    ASSUME Block \in Nat \ {0}, NEW S, NEW text \in Seq(S), NEW more \in Seq(S),
           NEW i \in Nat, NEW n \in Nat, Has(text, i + n)
    PROVE  Cut(text \o more, i, n) = Cut(text, i, n)
<1> DEFINE a == i * Block
           b == (i + n) * Block
<1>1. a \in Nat /\ b \in Nat /\ b <= Len(text)
  BY Multiples DEF Has
<1> HIDE DEF a, b
<1>2. SubSeq(text \o more, a + 1, b) = SubSeq(text, a + 1, b)
  BY <1>1, PieceOfMore
<1> QED BY <1>2 DEF Cut, a, b

LEMMA CutOfCut ==
    ASSUME Block \in Nat \ {0}, NEW S, NEW text \in Seq(S), NEW i \in Nat, NEW n \in Nat,
           Has(text, i + n), NEW j \in Nat, NEW m \in Nat, j + m <= n
    PROVE  Cut(Cut(text, i, n), j, m) = Cut(text, i + j, m)
<1> DEFINE a == i * Block
           b == (i + n) * Block
           c == j * Block
           d == (j + m) * Block
<1>1. a \in Nat /\ b \in Nat /\ b <= Len(text) /\ a <= b /\ c \in Nat /\ d \in Nat /\ d <= b - a
  <2>1. b = a + n * Block /\ n * Block \in Nat /\ d <= n * Block
    BY Multiples
  <2> QED BY <2>1, Multiples DEF Has
<1>2. (i + j) * Block = a + c /\ ((i + j) + m) * Block = a + d
  <2>1. (i + j) + m = i + (j + m) /\ j + m \in Nat
    OBVIOUS
  <2>2. (i + (j + m)) * Block = i * Block + (j + m) * Block
    BY <2>1, Multiples
  <2>3. (i + j) * Block = i * Block + j * Block
    BY Multiples
  <2> QED BY <2>1, <2>2, <2>3
<1>3. Cut(text, i + j, m) = SubSeq(text, (a + c) + 1, a + d)
  <2> HIDE DEF a, c, d
  <2> QED BY <1>2 DEF Cut
<1>4. Cut(Cut(text, i, n), j, m) = SubSeq(SubSeq(text, a + 1, b), c + 1, d)
  BY DEF Cut
<1> HIDE DEF a, b, c, d
<1>5. SubSeq(SubSeq(text, a + 1, b), c + 1, d) = SubSeq(text, (a + c) + 1, a + d)
  BY <1>1, PieceOfPiece
<1> QED BY <1>3, <1>4, <1>5

LEMMA BlocksOfCut ==
    ASSUME Block \in Nat \ {0}, NEW S, NEW text \in Seq(S), NEW i \in Nat, NEW n \in Nat,
           Has(text, i + n)
    PROVE  BlocksOf(Cut(text, i, n)) = [k \in 1 .. n |-> Cut(text, i + (k - 1), 1)]
<1>1. Len(Cut(text, i, n)) = n * Block /\ (n * Block) \div Block = n
  <2>1. Len(Cut(text, i, n)) = n * Block
    BY CutType
  <2>2. (n * Block) \div Block = n
    BY Multiples
  <2> QED BY <2>1, <2>2
<1>2. ASSUME NEW k \in 1 .. n
      PROVE  SubSeq(Cut(text, i, n), (k - 1) * Block + 1, k * Block) = Cut(text, i + (k - 1), 1)
  <2>1. k - 1 \in Nat /\ 1 \in Nat /\ (k - 1) + 1 <= n /\ (k - 1) + 1 = k
    OBVIOUS
  <2>2. Cut(Cut(text, i, n), k - 1, 1) = Cut(text, i + (k - 1), 1)
    <3> DEFINE j == k - 1
    <3>1. j \in Nat /\ j + 1 <= n
      BY <2>1
    <3> HIDE DEF j
    <3>2. Cut(Cut(text, i, n), j, 1) = Cut(text, i + j, 1)
      BY <3>1, CutOfCut
    <3> QED BY <3>2 DEF j
  <2>3. Cut(Cut(text, i, n), k - 1, 1)
            = SubSeq(Cut(text, i, n), (k - 1) * Block + 1, ((k - 1) + 1) * Block)
    BY DEF Cut
  <2> QED BY <2>1, <2>2, <2>3
<1> DEFINE part == Cut(text, i, n)
           x == n * Block
<1> HIDE DEF part, x
<1>3. BlocksOf(part) = [k \in 1 .. x \div Block |-> SubSeq(part, (k - 1) * Block + 1, k * Block)]
  BY <1>1 DEF BlocksOf, part, x
<1>4. x \div Block = n
  BY <1>1 DEF x
<1> QED BY <1>2, <1>3, <1>4 DEF part

LEMMA ChainType ==
    ASSUME Block \in Nat \ {0}, NEW text \in Seq(Nat), NEW i \in Nat, Has(text, i)
    PROVE  /\ Chain(text, i) \in Seq(Seq(Nat)) /\ Len(Chain(text, i)) = i
           /\ \A k \in 1 .. i : Chain(text, i)[k] = Cut(text, k - 1, 1)
<1>1. ASSUME NEW k \in 1 .. i PROVE Cut(text, k - 1, 1) \in Seq(Nat)
  <2> DEFINE j == k - 1
  <2>1. j \in Nat /\ j + 1 \in Nat /\ j + 1 <= i /\ 1 \in Nat
    OBVIOUS
  <2> HIDE DEF j
  <2>2. Has(text, j + 1)
    BY <2>1, HasFewer
  <2>3. Cut(text, j, 1) \in Seq(Nat)
    BY <2>1, <2>2, CutType
  <2> QED BY <2>3 DEF j
<1>2. Chain(text, i) \in [1 .. i -> Seq(Nat)]
  BY <1>1 DEF Chain
<1> QED BY <1>2 DEF Chain

\* A message that goes on keeps its blocks.
LEMMA ChainOfMore ==
    ASSUME Block \in Nat \ {0}, NEW text \in Seq(Nat), NEW more \in Seq(Nat),
           NEW i \in Nat, Has(text, i)
    PROVE  Chain(text \o more, i) = Chain(text, i)
<1>1. ASSUME NEW k \in 1 .. i PROVE Cut(text \o more, k - 1, 1) = Cut(text, k - 1, 1)
  <2> DEFINE j == k - 1
  <2>1. j \in Nat /\ j + 1 \in Nat /\ j + 1 <= i /\ 1 \in Nat
    OBVIOUS
  <2> HIDE DEF j
  <2>2. Has(text, j + 1)
    BY <2>1, HasFewer
  <2>3. Cut(text \o more, j, 1) = Cut(text, j, 1)
    BY <2>1, <2>2, CutOfMore
  <2> QED BY <2>3 DEF j
<1> QED BY <1>1 DEF Chain

LEMMA CryptOfMore ==
    ASSUME Block \in Nat \ {0}, NEW text \in Seq(Nat), NEW more \in Seq(Nat),
           NEW n \in Nat, Has(text, n)
    PROVE  Crypt(text \o more, 0, n) = Crypt(text, 0, n)
<1>1. ASSUME NEW p \in 1 .. n * Block
      PROVE  Chain(text \o more, 0 + BlockOf(p)) = Chain(text, 0 + BlockOf(p))
  <2> DEFINE j == 0 + BlockOf(p)
  <2>1. j \in Nat /\ j <= n
    <3>1. BlockOf(p) \in 1 .. n
      BY PlacesOf
    <3> QED BY <3>1
  <2> HIDE DEF j
  <2>2. Chain(text \o more, j) = Chain(text, j)
    BY <2>1, HasFewer, ChainOfMore
  <2> QED BY <2>2 DEF j
<1> QED BY <1>1 DEF Crypt

LEMMA ChainFront ==
    ASSUME Block \in Nat \ {0}, NEW text \in Seq(Nat), NEW n \in Nat, Has(text, n),
           NEW i \in Nat, i <= n
    PROVE  SubSeq(Chain(text, n), 1, i) = Chain(text, i)
<1> DEFINE all == Chain(text, n)
           one == SubSeq(all, 0 + 1, i)
           two == Chain(text, i)
<1>1. /\ all \in Seq(Seq(Nat)) /\ Len(all) = n
      /\ \A k \in 1 .. n : all[k] = Cut(text, k - 1, 1)
  BY ChainType
<1>2. /\ two \in Seq(Seq(Nat)) /\ Len(two) = i
      /\ \A k \in 1 .. i : two[k] = Cut(text, k - 1, 1)
  BY HasFewer, ChainType
<1>3. SubSeq(all, 1, i) = one
  OBVIOUS
<1>4. one \in Seq(Seq(Nat)) /\ Len(one) = i - 0 /\ \A k \in 1 .. i - 0 : one[k] = all[0 + k]
  <2>1. i <= Len(all) /\ 0 \in Nat
    BY <1>1
  <2> HIDE DEF all
  <2> QED BY <2>1, <1>1, PieceIs
<1> HIDE DEF one, two, all
<1>5. ASSUME NEW k \in 1 .. i PROVE one[k] = two[k]
  <2>1. k \in 1 .. i - 0 /\ k \in 1 .. n /\ 0 + k = k
    OBVIOUS
  <2>2. one[k] = all[k]
    BY <2>1, <1>4
  <2> QED BY <2>1, <2>2, <1>1, <1>2
<1>6. one = two
  BY <1>2, <1>4, <1>5, SeqEqual
<1> QED BY <1>3, <1>6 DEF one, two, all

-----------------------------------------------------------------------------
(* What goes through the cipher, and what comes back                       *)

LEMMA EnciphersText ==
    ASSUME Block \in Nat \ {0}, NEW text \in Seq(Nat), NEW i \in Nat, NEW n \in Nat,
           Has(text, i + n), NEW context, context.chain = Chain(text, i)
    PROVE  Encipher(context, Cut(text, i, n))
               = Done([context EXCEPT !.chain = Chain(text, i + n)], Crypt(text, i, n))
<1> DEFINE part == Cut(text, i, n)
           blocks == BlocksOf(part)
           front == Chain(text, i)
           all == Chain(text, i + n)
           chain == front \o blocks
<1>1. i + n \in Nat /\ i <= i + n
  OBVIOUS
<1>2. Len(part) = n * Block
  BY CutType
<1>3. front \in Seq(Seq(Nat)) /\ Len(front) = i /\ \A k \in 1 .. i : front[k] = Cut(text, k - 1, 1)
  BY <1>1, HasFewer, ChainType
<1>4. /\ all \in Seq(Seq(Nat)) /\ Len(all) = i + n
      /\ \A k \in 1 .. i + n : all[k] = Cut(text, k - 1, 1)
  BY <1>1, ChainType
<1>5. blocks = [k \in 1 .. n |-> Cut(text, i + (k - 1), 1)]
  BY BlocksOfCut
<1> HIDE DEF all, front, blocks
<1>6. ASSUME NEW k \in 1 .. n PROVE blocks[k] = all[i + k]
  <2>1. i + k \in 1 .. i + n /\ (i + k) - 1 = i + (k - 1)
    OBVIOUS
  <2> QED BY <2>1, <1>4, <1>5
<1>7. blocks \in Seq(Seq(Nat)) /\ Len(blocks) = n
  <2>1. ASSUME NEW k \in 1 .. n PROVE blocks[k] \in Seq(Nat)
    <3>1. i + k \in 1 .. i + n
      OBVIOUS
    <3> QED BY <3>1, <1>4, <1>6, ElementOfSeq
  <2>2. DOMAIN blocks = 1 .. n /\ blocks = [k \in DOMAIN blocks |-> blocks[k]]
    BY <1>5
  <2>3. blocks \in [1 .. n -> Seq(Nat)]
    BY <2>1, <2>2
  <2> QED BY <2>3
<1>8. /\ chain \in Seq(Seq(Nat)) /\ Len(chain) = i + n
      /\ \A k \in 1 .. i + n : chain[k] = IF k <= i THEN front[k] ELSE blocks[k - i]
  <2>1. /\ chain \in Seq(Seq(Nat)) /\ Len(chain) = Len(front) + Len(blocks)
        /\ \A k \in 1 .. Len(front) + Len(blocks) :
              chain[k] = IF k <= Len(front) THEN front[k] ELSE blocks[k - Len(front)]
    BY <1>3, <1>7, ConcatProperties
  <2> QED BY <2>1, <1>3, <1>7
<1> HIDE DEF chain
<1>9. chain = all
  <2>1. ASSUME NEW k \in 1 .. i + n PROVE chain[k] = all[k]
    <3>1. CASE k <= i
      <4>1. k \in 1 .. i
        BY <3>1
      <4> QED BY <3>1, <4>1, <1>3, <1>4, <1>8
    <3>2. CASE ~(k <= i)
      <4>1. k - i \in 1 .. n /\ i + (k - i) = k
        BY <3>2
      <4> QED BY <3>2, <4>1, <1>6, <1>8
    <3> QED BY <3>1, <3>2
  <2> QED BY <2>1, <1>4, <1>8, SeqEqual
<1>10. ASSUME NEW p \in 1 .. n * Block
       PROVE  SubSeq(chain, 1, Len(front) + BlockOf(p)) = Chain(text, i + BlockOf(p))
  <2> DEFINE j == i + BlockOf(p)
  <2>1. j \in Nat /\ j <= i + n
    <3>1. BlockOf(p) \in 1 .. n
      BY PlacesOf
    <3> QED BY <3>1
  <2> HIDE DEF j
  <2>2. SubSeq(all, 1, j) = Chain(text, j)
    BY <2>1, <1>1, ChainFront DEF all
  <2> QED BY <2>2, <1>9, <1>3 DEF j
<1> DEFINE output == [p \in 1 .. Len(part) |-> <<SubSeq(chain, 1, Len(front) + BlockOf(p)), PlaceOf(p)>>]
<1>11. output = Crypt(text, i, n)
  <2> HIDE DEF part
  <2> QED BY <1>2, <1>10 DEF Crypt
<1>12. Encipher(context, part) = Done([context EXCEPT !.chain = chain], output)
  BY DEF Encipher, front, chain, blocks
<1> HIDE DEF output
<1> QED BY <1>9, <1>11, <1>12 DEF all

LEMMA CryptType ==
    ASSUME Block \in Nat \ {0}, NEW text \in Seq(Nat), NEW i \in Nat, NEW n \in Nat,
           Has(text, i + n)
    PROVE  /\ Crypt(text, i, n) \in Seq(Seq(Seq(Nat)) \X Nat)
           /\ Len(Crypt(text, i, n)) = n * Block
           /\ \A p \in 1 .. n * Block :
                 Crypt(text, i, n)[p] = <<Chain(text, i + BlockOf(p)), PlaceOf(p)>>
<1>1. n * Block \in Nat
  BY Multiples
<1>2. ASSUME NEW p \in 1 .. n * Block
      PROVE  Chain(text, i + BlockOf(p)) \in Seq(Seq(Nat)) /\ PlaceOf(p) \in Nat
  <2> DEFINE j == i + BlockOf(p)
  <2>1. BlockOf(p) \in 1 .. n /\ PlaceOf(p) \in 1 .. Block
    BY PlacesOf
  <2>2. j \in Nat /\ j <= i + n /\ i + n \in Nat
    BY <2>1
  <2> HIDE DEF j
  <2>3. Chain(text, j) \in Seq(Seq(Nat))
    BY <2>2, HasFewer, ChainType
  <2> QED BY <2>1, <2>3 DEF j
<1> DEFINE m == n * Block
           s == Crypt(text, i, n)
<1>3. s \in [1 .. m -> Seq(Seq(Nat)) \X Nat]
  BY <1>2 DEF Crypt
<1>4. \A p \in 1 .. m : s[p] = <<Chain(text, i + BlockOf(p)), PlaceOf(p)>>
  BY DEF Crypt
<1>5. m \in Nat
  BY <1>1
<1> HIDE DEF m, s
<1>6. s \in Seq(Seq(Seq(Nat)) \X Nat) /\ Len(s) = m
  BY <1>3, <1>5
<1> QED BY <1>4, <1>6 DEF m, s

\* A block of the cipher's, as it comes.
LEMMA CryptBlock ==
    ASSUME Block \in Nat \ {0}, NEW text \in Seq(Nat), NEW i \in Nat, NEW n \in Nat,
           Has(text, i + n), NEW k \in 1 .. n
    PROVE  LET bytes == Cut(Crypt(text, i, n), k - 1, 1)
           IN IsCipherBlock(bytes) /\ bytes[1][1] = Chain(text, i + k)
<1> DEFINE s == Crypt(text, i, n)
           a == k - 1
           bytes == Cut(s, a, 1)
<1>1. /\ s \in Seq(Seq(Seq(Nat)) \X Nat) /\ Len(s) = n * Block
      /\ \A p \in 1 .. n * Block : s[p] = <<Chain(text, i + BlockOf(p)), PlaceOf(p)>>
  BY CryptType
<1>2. a \in Nat /\ a + 1 \in Nat /\ a + 1 = k /\ a + 1 <= n /\ 1 \in Nat
  OBVIOUS
<1>3. Has(s, a + 1)
  <2>1. n * Block \in Nat /\ (a + 1) * Block <= n * Block
    BY <1>2, Multiples
  <2> HIDE DEF s, a
  <2> QED BY <2>1, <1>1 DEF Has
<1>4. \A j \in 1 .. 1 * Block : bytes[j] = s[a * Block + j]
  <2> DEFINE T == Seq(Seq(Nat)) \X Nat
  <2>1. s \in Seq(T)
    BY <1>1
  <2> HIDE DEF s, a, T
  <2> QED BY <1>2, <1>3, <2>1, CutType
<1>5. ASSUME NEW j \in 1 .. Block PROVE bytes[j] = <<Chain(text, i + k), j>>
  <2>1. j \in 1 .. 1 * Block /\ 1 * Block = Block
    OBVIOUS
  <2>2. /\ BlockOf(j) \in 1 .. 1 /\ PlaceOf(j) \in 1 .. Block
        /\ j = (BlockOf(j) - 1) * Block + PlaceOf(j)
        /\ BlockOf(a * Block + j) = a + BlockOf(j)
        /\ PlaceOf(a * Block + j) = PlaceOf(j)
    <3> HIDE DEF a
    <3> QED BY <1>2, <2>1, PlacesOf
  <2>3. BlockOf(j) = 1 /\ PlaceOf(j) = j
    <3>1. BlockOf(j) = 1
      BY <2>2
    <3>2. (BlockOf(j) - 1) * Block = 0
      BY <3>1
    <3> QED BY <3>1, <3>2, <2>2
  <2>4. BlockOf(a * Block + j) = k /\ PlaceOf(a * Block + j) = j
    BY <2>2, <2>3, <1>2
  <2>5. a * Block + j \in 1 .. n * Block
    <3>1. a * Block \in Nat /\ (a + 1) * Block = a * Block + 1 * Block /\ (a + 1) * Block <= n * Block
      BY <1>2, Multiples
    <3> HIDE DEF a
    <3>2. n * Block \in Nat
      BY Multiples
    <3> QED BY <2>1, <3>1, <3>2
  <2>6. s[a * Block + j] = <<Chain(text, i + k), j>>
    <3> DEFINE p == a * Block + j
    <3>1. p \in 1 .. n * Block /\ BlockOf(p) = k /\ PlaceOf(p) = j
      BY <2>4, <2>5
    <3> HIDE DEF p, s
    <3>2. s[p] = <<Chain(text, i + k), j>>
      BY <3>1, <1>1
    <3> QED BY <3>2 DEF p
  <2> HIDE DEF bytes, a, s
  <2> QED BY <2>1, <2>6, <1>4
<1>6. 1 \in 1 .. Block
  OBVIOUS
<1> HIDE DEF bytes, s, a
<1>7. bytes[1][1] = Chain(text, i + k)
  BY <1>5, <1>6
<1>8. IsCipherBlock(bytes)
  BY <1>5, <1>7 DEF IsCipherBlock
<1> QED BY <1>7, <1>8 DEF bytes, s, a

\* What was chained before and after a block gives it back.
LEMMA PlainBlock ==
    ASSUME Block \in Nat \ {0}, NEW text \in Seq(Nat), NEW k \in Nat, Has(text, k + 1),
           NEW bytes, IsCipherBlock(bytes), bytes[1][1] = Chain(text, k + 1)
    PROVE  Plain(Chain(text, k), bytes) = Cut(text, k, 1)
<1> DEFINE chain == Chain(text, k + 1)
<1>1. /\ chain \in Seq(Seq(Nat)) /\ Len(chain) = k + 1
      /\ \A j \in 1 .. k + 1 : chain[j] = Cut(text, j - 1, 1)
  <2> DEFINE n == k + 1
  <2>1. n \in Nat /\ Has(text, n)
    OBVIOUS
  <2> HIDE DEF n
  <2>2. /\ Chain(text, n) \in Seq(Seq(Nat)) /\ Len(Chain(text, n)) = n
        /\ \A j \in 1 .. n : Chain(text, n)[j] = Cut(text, j - 1, 1)
    BY <2>1, ChainType
  <2> QED BY <2>2 DEF n
<1>2. SubSeq(chain, 1, k) = Chain(text, k)
  BY ChainFront
<1> HIDE DEF chain
<1>3. Front(chain) = Chain(text, k)
  <2>1. Len(chain) - 1 = k
    BY <1>1
  <2>2. Front(chain) = SubSeq(chain, 1, Len(chain) - 1)
    BY DEF Front
  <2> QED BY <2>1, <2>2, <1>2
<1>4. Last(chain) = Cut(text, k, 1)
  <2>1. k + 1 \in 1 .. k + 1 /\ (k + 1) - 1 = k
    OBVIOUS
  <2>2. chain[k + 1] = Cut(text, k, 1)
    BY <2>1, <1>1
  <2> QED BY <2>2, <1>1 DEF Last
<1>5. bytes[1][1] = chain
  BY DEF chain
<1> QED BY <1>3, <1>4, <1>5 DEF Plain

LEMMA DeciphersText ==
    ASSUME Block \in Nat \ {0}, NEW text \in Seq(Nat), NEW i \in Nat, NEW n \in Nat,
           Has(text, i + n), NEW context, context.chain = Chain(text, i)
    PROVE  Decipher(context, Crypt(text, i, n))
               = Done([context EXCEPT !.chain = Chain(text, i + n)], Cut(text, i, n))
<1> DEFINE s == Crypt(text, i, n)
           blocks == BlocksOf(s)
           last(k) == IF k = 0 THEN context.chain
                      ELSE IF IsCipherBlock(blocks[k]) THEN blocks[k][1][1]
                      ELSE <<<<Garbled>>>>
           output == [p \in 1 .. Len(s) |->
                         Plain(last(BlockOf(p) - 1), blocks[BlockOf(p)])[PlaceOf(p)]]
<1>1. s \in Seq(Seq(Seq(Nat)) \X Nat) /\ Len(s) = n * Block
  BY CryptType
<1>2. blocks = [k \in 1 .. n |-> Cut(s, k - 1, 1)]
  <2>1. (n * Block) \div Block = n
    BY Multiples
  <2>2. ASSUME NEW k \in 1 .. n
        PROVE  SubSeq(s, (k - 1) * Block + 1, k * Block) = Cut(s, k - 1, 1)
    <3>1. (k - 1) + 1 = k
      OBVIOUS
    <3> HIDE DEF s
    <3> QED BY <3>1 DEF Cut
  <2>3. Len(s) \div Block = n
    BY <2>1, <1>1
  <2> HIDE DEF s
  <2> QED BY <2>2, <2>3 DEF BlocksOf
<1>3. ASSUME NEW k \in 1 .. n
      PROVE  IsCipherBlock(blocks[k]) /\ blocks[k][1][1] = Chain(text, i + k)
  <2>1. IsCipherBlock(Cut(s, k - 1, 1)) /\ Cut(s, k - 1, 1)[1][1] = Chain(text, i + k)
    BY CryptBlock
  <2> HIDE DEF s, blocks
  <2> QED BY <2>1, <1>2
<1>4. ASSUME NEW k \in 0 .. n PROVE last(k) = Chain(text, i + k)
  <2>1. CASE k = 0
    <3>1. i + k = i
      BY <2>1
    <3> QED BY <2>1, <3>1
  <2>2. CASE k # 0
    <3>1. k \in 1 .. n
      BY <2>2
    <3> HIDE DEF blocks
    <3> QED BY <2>2, <3>1, <1>3
  <2> QED BY <2>1, <2>2
<1> HIDE DEF last
<1>5. ASSUME NEW p \in 1 .. n * Block
      PROVE  Plain(last(BlockOf(p) - 1), blocks[BlockOf(p)])[PlaceOf(p)] = Cut(text, i, n)[p]
  <2> DEFINE k == BlockOf(p)
             h == i + (k - 1)
  <2>1. /\ k \in 1 .. n /\ PlaceOf(p) \in 1 .. Block /\ p = (k - 1) * Block + PlaceOf(p)
    BY PlacesOf
  <2>2. /\ k - 1 \in 0 .. n /\ h \in Nat /\ h + 1 = i + k /\ h + 1 \in Nat /\ h + 1 <= i + n
        /\ i + n \in Nat
    BY <2>1
  <2>3. last(k - 1) = Chain(text, h)
    <3> HIDE DEF k
    <3> QED BY <2>2, <1>4
  <2>4. IsCipherBlock(blocks[k]) /\ blocks[k][1][1] = Chain(text, h + 1)
    <3> HIDE DEF k, h, blocks
    <3> QED BY <2>1, <2>2, <1>3
  <2>5. Has(text, h + 1)
    <3> HIDE DEF k, h
    <3> QED BY <2>2, HasFewer
  <2>6. Plain(last(k - 1), blocks[k]) = Cut(text, h, 1)
    <3> HIDE DEF k, h, blocks
    <3> QED BY <2>2, <2>3, <2>4, <2>5, PlainBlock
  <2>7. Cut(text, h, 1)[PlaceOf(p)] = text[h * Block + PlaceOf(p)]
    <3>1. PlaceOf(p) \in 1 .. 1 * Block
      BY <2>1
    <3> HIDE DEF k, h
    <3>2. \A q \in 1 .. 1 * Block : Cut(text, h, 1)[q] = text[h * Block + q]
      <4>1. /\ Block \in Nat \ {0} /\ text \in Seq(Nat) /\ h \in Nat /\ 1 \in Nat
            /\ Has(text, h + 1)
        BY <2>2, <2>5
      <4> QED BY ONLY <4>1, TextCut
    <3> QED BY <3>1, <3>2
  <2>8. h * Block + PlaceOf(p) = i * Block + p
    <3>1. k - 1 \in Nat
      BY <2>1
    <3>2. h * Block = i * Block + (k - 1) * Block /\ i * Block \in Nat /\ (k - 1) * Block \in Nat
      BY <3>1, Multiples
    <3> HIDE DEF k, h
    <3> QED BY <2>1, <3>2
  <2>9. \A q \in 1 .. n * Block : Cut(text, i, n)[q] = text[i * Block + q]
    BY TextCut
  <2> QED BY <2>6, <2>7, <2>8, <2>9
<1>6. output = Cut(text, i, n)
  <2> DEFINE cut == Cut(text, i, n)
  <2>1. cut \in Seq(Nat) /\ Len(cut) = n * Block
    BY CutType
  <2>2. output = [p \in 1 .. n * Block |-> cut[p]]
    <3> HIDE DEF s, blocks, cut
    <3> QED BY <1>1, <1>5 DEF cut
  <2> HIDE DEF cut, output
  <2>3. cut = [p \in 1 .. Len(cut) |-> cut[p]]
    BY <2>1
  <2> QED BY <2>1, <2>2, <2>3 DEF cut
<1>7. last(Len(blocks)) = Chain(text, i + n)
  <2>1. Len(blocks) = n /\ n \in 0 .. n
    <3> HIDE DEF s
    <3> QED BY <1>2
  <2> HIDE DEF blocks
  <2> QED BY <2>1, <1>4
<1>8. Decipher(context, s) = Done([context EXCEPT !.chain = last(Len(blocks))], output)
  <2> HIDE DEF s
  <2> QED BY DEF Decipher, last
<1> HIDE DEF output, blocks
<1> QED BY <1>6, <1>7, <1>8

LEMMA CryptCut ==
    ASSUME Block \in Nat \ {0}, NEW text \in Seq(Nat), NEW all \in Nat, Has(text, all),
           NEW i \in Nat, NEW n \in Nat, i + n <= all
    PROVE  /\ Has(Crypt(text, 0, all), all)
           /\ Cut(Crypt(text, 0, all), i, n) = Crypt(text, i, n)
<1> DEFINE T == Seq(Seq(Nat)) \X Nat
           s == Crypt(text, 0, all)
           one == Cut(s, i, n)
           two == Crypt(text, i, n)
           a == i * Block
           m == n * Block
<1>1. /\ s \in Seq(T) /\ Len(s) = all * Block
      /\ \A p \in 1 .. all * Block : s[p] = <<Chain(text, 0 + BlockOf(p)), PlaceOf(p)>>
  <2>1. Has(text, 0 + all) /\ 0 \in Nat
    OBVIOUS
  <2> QED BY <2>1, CryptType
<1>2. i + n \in Nat
  OBVIOUS
<1>3. Has(text, i + n)
  BY <1>2, HasFewer
<1>4. /\ two \in Seq(T) /\ Len(two) = m
      /\ \A p \in 1 .. m : two[p] = <<Chain(text, i + BlockOf(p)), PlaceOf(p)>>
  BY <1>3, CryptType
<1>5. Has(s, all)
  <2> HIDE DEF s
  <2>1. all * Block \in Nat
    BY Multiples
  <2> QED BY <1>1, <2>1 DEF Has
<1> HIDE DEF T
<1>6. Has(s, i + n)
  <2> HIDE DEF s
  <2> QED BY <1>1, <1>2, <1>5, HasFewer
<1>7. one \in Seq(T) /\ Len(one) = m /\ \A p \in 1 .. m : one[p] = s[a + p]
  <2> DEFINE b == (i + n) * Block
  <2>1. a \in Nat /\ m \in Nat /\ b \in Nat /\ b = a + m
    BY <1>2, Multiples
  <2> HIDE DEF s
  <2>2. b <= Len(s)
    BY <1>6 DEF Has
  <2>3. one = SubSeq(s, a + 1, b)
    BY DEF Cut
  <2> HIDE DEF one, a, b, m
  <2>4. s \in Seq(T) /\ a \in Nat /\ b \in Nat /\ b <= Len(s)
    BY <1>1, <2>1, <2>2
  <2>5. /\ SubSeq(s, a + 1, b) \in Seq(T)
        /\ Len(SubSeq(s, a + 1, b)) = (IF a <= b THEN b - a ELSE 0)
        /\ \A p \in 1 .. b - a : SubSeq(s, a + 1, b)[p] = s[a + p]
    BY ONLY <2>4, PieceIs
  <2>6. a <= b /\ b - a = m
    BY <2>1
  <2> QED BY <2>3, <2>5, <2>6
<1>8. a \in Nat /\ m \in Nat /\ a + m <= all * Block /\ all * Block \in Nat
  <2>1. (i + n) * Block <= all * Block /\ (i + n) * Block = i * Block + n * Block
    BY <1>2, Multiples
  <2> QED BY <2>1, Multiples
<1>9. ASSUME NEW p \in 1 .. m PROVE one[p] = two[p]
  <2>1. /\ BlockOf(p) \in 1 .. n /\ BlockOf(a + p) = i + BlockOf(p) /\ PlaceOf(a + p) = PlaceOf(p)
    BY PlacesOf
  <2>2. 0 + BlockOf(a + p) = i + BlockOf(p)
    BY <2>1
  <2>3. a + p \in 1 .. all * Block
    <3> DEFINE x == all * Block
    <3>1. x \in Nat /\ a + m <= x
      BY <1>8
    <3> HIDE DEF a, m, x
    <3>2. a + p \in 1 .. x
      BY <1>8, <3>1
    <3> QED BY <3>2 DEF x
  <2>4. s[a + p] = <<Chain(text, 0 + BlockOf(a + p)), PlaceOf(a + p)>>
    <3> DEFINE q == a + p
    <3>1. q \in 1 .. all * Block
      BY <2>3
    <3> HIDE DEF s, q
    <3>2. s[q] = <<Chain(text, 0 + BlockOf(q)), PlaceOf(q)>>
      BY <1>1, <3>1
    <3> QED BY <3>2 DEF q
  <2> HIDE DEF one, two, s, a, m
  <2> QED BY <1>4, <1>7, <2>1, <2>2, <2>4
<1> HIDE DEF one, two
<1>10. one = two
  <2> HIDE DEF m, s, a
  <2> QED BY <1>4, <1>7, <1>9, SeqEqual
<1> QED BY <1>5, <1>10 DEF one, two

\* One cut after another.
LEMMA CutsJoin ==
    ASSUME Block \in Nat \ {0}, NEW S, NEW text \in Seq(S), NEW i \in Nat, NEW n \in Nat,
           Has(text, i + n)
    PROVE  Cut(text, 0, i) \o Cut(text, i, n) = Cut(text, 0, i + n)
<1> DEFINE a == i * Block
           b == (i + n) * Block
<1>1. 0 * Block = 0 /\ a \in Nat /\ b \in Nat /\ a <= b /\ b <= Len(text)
  <2>1. i + n \in Nat /\ i <= i + n
    OBVIOUS
  <2> QED BY <2>1, Multiples DEF Has
<1>2. /\ Cut(text, 0, i) = SubSeq(text, 0 + 1, a) /\ Cut(text, i, n) = SubSeq(text, a + 1, b)
      /\ Cut(text, 0, i + n) = SubSeq(text, 0 + 1, b)
  BY <1>1 DEF Cut
<1> HIDE DEF a, b
<1>3. SubSeq(text, 0 + 1, a) \o SubSeq(text, a + 1, b) = SubSeq(text, 0 + 1, b)
  BY <1>1, Pieces
<1> QED BY <1>2, <1>3

LEMMA CryptsJoin ==
    ASSUME Block \in Nat \ {0}, NEW text \in Seq(Nat), NEW i \in Nat, NEW n \in Nat,
           Has(text, i + n)
    PROVE  Crypt(text, 0, i) \o Crypt(text, i, n) = Crypt(text, 0, i + n)
<1> DEFINE T == Seq(Seq(Nat)) \X Nat
           all == i + n
           s == Crypt(text, 0, all)
<1>1. all \in Nat /\ 0 + all = all /\ 0 + i <= all /\ i + n <= all /\ Has(text, all) /\ 0 \in Nat
      /\ Has(text, 0 + all)
  OBVIOUS
<1>2. s \in Seq(T)
  <2> HIDE DEF all
  <2> QED BY <1>1, CryptType
<1> HIDE DEF all, T
<1>3. /\ Has(s, all) /\ Cut(s, 0, i) = Crypt(text, 0, i) /\ Cut(s, i, n) = Crypt(text, i, n)
      /\ Cut(s, 0, all) = Crypt(text, 0, all)
  BY <1>1, CryptCut
<1> HIDE DEF s
<1>4. Cut(s, 0, i) \o Cut(s, i, n) = Cut(s, 0, i + n)
  BY <1>1, <1>2, <1>3, CutsJoin DEF all
<1> QED BY <1>3, <1>4 DEF all

-----------------------------------------------------------------------------
(* Sealing                                                                 *)

\* The blocks that are whole, the bytes after them, and the context of a sender
\* who has given the text so far.
Whole(text) == Len(text) \div Block
Rest(text) == SubSeq(text, Whole(text) * Block + 1, Len(text))
Held(text) == [chain |-> Chain(text, Whole(text)), buffer |-> Rest(text)]

LEMMA WholeIs ==
    ASSUME Block \in Nat \ {0}, NEW S, NEW text \in Seq(S)
    PROVE  /\ Whole(text) \in Nat /\ Has(text, Whole(text))
           /\ Whole(text) * Block \in Nat
           /\ Len(text) - Whole(text) * Block \in 0 .. Block - 1
           /\ \A n \in Nat : Has(text, n) => n <= Whole(text)
           /\ Rest(text) \in Seq(S) /\ Len(Rest(text)) = Len(text) - Whole(text) * Block
<1> DEFINE w == Whole(text)
           a == w * Block
           r == Len(text) % Block
<1>1. Len(text) \in Nat
  BY LenProperties
<1>2. w \in Nat /\ a \in Nat /\ r \in 0 .. Block - 1 /\ Len(text) = a + r
  BY <1>1, Division, Multiples DEF Whole
<1>3. Has(text, w)
  BY <1>1, <1>2 DEF Has
<1>4. ASSUME NEW n \in Nat, Has(text, n) PROVE n <= w
  <2>1. SUFFICES ASSUME w + 1 <= n PROVE FALSE
    BY <1>2
  <2>4. w + 1 \in Nat /\ 1 \in Nat
    BY <1>2
  <2> HIDE DEF w
  <2>5. (w + 1) * Block = w * Block + 1 * Block
    BY <1>2, Multiples
  <2>6. (w + 1) * Block <= n * Block /\ n * Block \in Nat
    BY <2>1, <2>4, Multiples
  <2>2. (w + 1) * Block = a + Block /\ (w + 1) * Block <= n * Block /\ n * Block \in Nat
    BY <2>5, <2>6
  <2>3. n * Block <= Len(text)
    BY <1>4 DEF Has
  <2> HIDE DEF a, r
  <2> QED BY <1>2, <2>2, <2>3
<1>5. Rest(text) = SubSeq(text, a + 1, Len(text))
  BY DEF Rest
<1> HIDE DEF w, a, r
<1>6. SubSeq(text, a + 1, Len(text)) \in Seq(S) /\ Len(SubSeq(text, a + 1, Len(text))) = Len(text) - a
  BY <1>1, <1>2, PieceIs
<1>7. Len(text) - a \in 0 .. Block - 1
  BY <1>1, <1>2
<1> QED BY <1>2, <1>3, <1>4, <1>5, <1>6, <1>7 DEF w, a

\* What a text has is whole blocks and less than one more.
LEMMA WholeExactly ==
    ASSUME Block \in Nat \ {0}, NEW S, NEW text \in Seq(S), NEW w \in Nat, Has(text, w),
           Len(text) < (w + 1) * Block
    PROVE  Whole(text) = w
<1>1. Whole(text) \in Nat /\ w <= Whole(text) /\ Has(text, Whole(text)) /\ Len(text) \in Nat
  BY WholeIs, LenProperties
<1>2. SUFFICES ASSUME w + 1 <= Whole(text) PROVE FALSE
  BY <1>1
<1>3. Has(text, w + 1)
  BY <1>1, <1>2, HasFewer
<1>4. (w + 1) * Block \in Nat
  BY Multiples
<1> QED BY <1>1, <1>3, <1>4 DEF Has

LEMMA SealsText ==
    ASSUME Block \in Nat \ {0}, NEW text \in Seq(Nat), NEW part \in Seq(Nat)
    PROVE  LET more == text \o part
           IN /\ more \in Seq(Nat) /\ Len(more) = Len(text) + Len(part)
              /\ Whole(text) <= Whole(more)
              /\ SealUpdate(Held(text), part)
                     = Done(Held(more), Crypt(more, Whole(text), Whole(more) - Whole(text)))
<1> DEFINE more == text \o part
           i == Whole(text)
           j == Whole(more)
           n == j - i
           a == i * Block
           go == n * Block
           bytes == Rest(text) \o part
           length == Len(Rest(text)) + Len(part)
<1>1. more \in Seq(Nat) /\ Len(more) = Len(text) + Len(part) /\ Len(text) \in Nat /\ Len(part) \in Nat
  BY ConcatProperties, LenProperties
<1>2. /\ i \in Nat /\ Has(text, i) /\ a \in Nat /\ Len(text) - a \in 0 .. Block - 1
      /\ Rest(text) \in Seq(Nat) /\ Len(Rest(text)) = Len(text) - a
  BY WholeIs
<1>3. /\ j \in Nat /\ Has(more, j) /\ j * Block \in Nat /\ Len(more) - j * Block \in 0 .. Block - 1
      /\ (Has(more, i) => i <= j)
  <2> HIDE DEF more, i
  <2> QED BY <1>1, <1>2, WholeIs
<1>4. Has(more, i)
  <2>1. a <= Len(text)
    BY <1>2 DEF Has
  <2>2. a <= Len(more)
    <3> HIDE DEF more, a
    <3> QED BY <1>1, <1>2, <2>1
  <2> QED BY <2>2 DEF Has
<1>5. i <= j /\ n \in Nat /\ i + n = j
  <2>1. i \in Nat /\ j \in Nat /\ i <= j
    BY <1>2, <1>3, <1>4
  <2> HIDE DEF i, j
  <2> QED BY <2>1
<1>6. go \in Nat /\ j * Block = a + go
  <2>1. (i + n) * Block = i * Block + n * Block /\ n * Block \in Nat
    BY <1>2, <1>5, Multiples
  <2> HIDE DEF i, j, n
  <2> QED BY <2>1, <1>5
<1>7. length = (Len(more) - a) /\ length \div Block = n
  <2> DEFINE r == Len(more) - j * Block
  <2>1. length = Len(more) - a
    <3> HIDE DEF more, a
    <3> QED BY <1>1, <1>2
  <2>2. length = n * Block + r
    <3>1. length = go + r
      <4> DEFINE x == j * Block
                 all == Len(more)
      <4>1. x = a + go /\ r = all - x /\ a \in Nat /\ go \in Nat
        BY <1>2, <1>6
      <4>2. all \in Nat /\ length = all - a
        <5> HIDE DEF length
        <5> QED BY <1>1, <2>1
      <4> HIDE DEF length, a, go, x, r, all
      <4> QED BY <4>1, <4>2
    <3> HIDE DEF length, n, r
    <3> QED BY <3>1
  <2>3. r \in 0 .. Block - 1
    BY <1>3
  <2> HIDE DEF r, n, length
  <2>4. (n * Block + r) \div Block = n
    BY <1>5, <2>3, Quotient
  <2> QED BY <2>1, <2>2, <2>4
<1>8. bytes = SubSeq(more, a + 1, Len(more))
  <2>1. Rest(text) = SubSeq(text, a + 1, Len(text))
    BY DEF Rest
  <2>2. a <= Len(text)
    <3> HIDE DEF a
    <3> QED BY <1>1, <1>2
  <2> HIDE DEF a
  <2>3. SubSeq(text, a + 1, Len(text)) \o part = SubSeq(text \o part, a + 1, Len(text) + Len(part))
    BY <1>2, <2>2, RestOfMore
  <2> QED BY <2>1, <2>3, <1>1
<1>9. Len(bytes) = Len(more) - a
  <2>1. Len(Rest(text) \o part) = Len(Rest(text)) + Len(part)
    BY <1>2, ConcatProperties
  <2> QED BY <2>1, <1>7
<1>10. SubSeq(bytes, 1, go) = Cut(more, i, n)
  <2> DEFINE b == Len(more)
             part1 == SubSeq(more, a + 1, b)
  <2>1. b \in Nat /\ a <= b /\ go <= b - a
    <3> HIDE DEF more, a, go, j
    <3> QED BY <1>1, <1>2, <1>3, <1>6
  <2> HIDE DEF a, go, b, more
  <2>2. SubSeq(part1, 0 + 1, go) = SubSeq(more, (a + 0) + 1, a + go)
    BY <1>1, <1>2, <1>6, <2>1, PieceOfPiece DEF b
  <2>3. SubSeq(part1, 1, go) = SubSeq(more, a + 1, a + go)
    <3>1. 0 + 1 = 1 /\ a + 0 = a
      BY <1>2
    <3> HIDE DEF part1
    <3> QED BY <2>2, <3>1
  <2>4. Cut(more, i, n) = SubSeq(more, a + 1, a + go)
    BY <1>5, <1>6 DEF Cut, a
  <2> QED BY <2>3, <2>4, <1>8 DEF b
<1>11. SubSeq(bytes, go + 1, Len(bytes)) = Rest(more)
  <2> DEFINE b == Len(more)
             d == b - a
             part1 == SubSeq(more, a + 1, b)
  <2>1. b \in Nat /\ a <= b /\ d \in Nat /\ a + d = b
    <3> HIDE DEF more, a
    <3> QED BY <1>1, <1>2, <1>3, <1>6
  <2> HIDE DEF a, go, b, d, more
  <2>2. SubSeq(part1, go + 1, d) = SubSeq(more, (a + go) + 1, a + d)
    <3>1. /\ more \in Seq(Nat) /\ a \in Nat /\ b \in Nat /\ a <= b /\ b <= Len(more)
          /\ go \in Nat /\ d \in Nat /\ d <= b - a
      BY <1>1, <1>2, <1>6, <2>1 DEF b, d
    <3> QED BY ONLY <3>1, PieceOfPiece DEF part1
  <2>3. Rest(more) = SubSeq(more, (a + go) + 1, a + d)
    BY <1>6, <2>1 DEF Rest, b
  <2> QED BY <2>2, <2>3, <1>8, <1>9 DEF b, d
<1>12. Encipher(Held(text), Cut(more, i, n))
           = Done([Held(text) EXCEPT !.chain = Chain(more, j)], Crypt(more, i, n))
  <2>1. Held(text).chain = Chain(more, i)
    BY <1>2, ChainOfMore DEF Held
  <2> HIDE DEF more, i, n
  <2>2. Encipher(Held(text), Cut(more, i, n))
            = Done([Held(text) EXCEPT !.chain = Chain(more, i + n)], Crypt(more, i, n))
    BY <1>1, <1>2, <1>3, <1>5, <2>1, EnciphersText
  <2> QED BY <2>2, <1>5
<1>13. SealUpdate(Held(text), part)
           = Done([Encipher(Held(text), SubSeq(bytes, 1, (length \div Block) * Block)).context
                       EXCEPT !.buffer = SubSeq(bytes, (length \div Block) * Block + 1, Len(bytes))],
                  Encipher(Held(text), SubSeq(bytes, 1, (length \div Block) * Block)).output)
  BY DEF SealUpdate, Buffered, Held
<1> HIDE DEF length, bytes
<1>14. SealUpdate(Held(text), part)
           = Done([Encipher(Held(text), Cut(more, i, n)).context EXCEPT !.buffer = Rest(more)],
                  Encipher(Held(text), Cut(more, i, n)).output)
  BY <1>7, <1>10, <1>11, <1>13
<1>15. SealUpdate(Held(text), part) = Done(Held(more), Crypt(more, i, n))
  <2> HIDE DEF more, i, n
  <2>1. [Held(text) EXCEPT !.chain = Chain(more, j)] = [chain |-> Chain(more, j), buffer |-> Rest(text)]
    BY DEF Held
  <2>2. /\ Encipher(Held(text), Cut(more, i, n)).context = [chain |-> Chain(more, j), buffer |-> Rest(text)]
        /\ Encipher(Held(text), Cut(more, i, n)).output = Crypt(more, i, n)
    BY <1>12, <2>1 DEF Done
  <2>3. [[chain |-> Chain(more, j), buffer |-> Rest(text)] EXCEPT !.buffer = Rest(more)] = Held(more)
    BY DEF Held
  <2> QED BY <2>2, <2>3, <1>14
<1> QED BY <1>1, <1>5, <1>15

\* The text with its padding.
Padding(text) == Block - Len(Rest(text))
Padded(text) == text \o [k \in 1 .. Padding(text) |-> Padding(text)]

LEMMA PaddedIs ==
    ASSUME Block \in Nat \ {0}, NEW text \in Seq(Nat)
    PROVE  /\ Padding(text) \in 1 .. Block
           /\ Padded(text) \in Seq(Nat) /\ Len(Padded(text)) = Len(text) + Padding(text)
           /\ \A p \in 1 .. Len(text) : Padded(text)[p] = text[p]
           /\ \A p \in 1 .. Padding(text) : Padded(text)[Len(text) + p] = Padding(text)
           /\ Whole(Padded(text)) = Whole(text) + 1
           /\ Len(Padded(text)) = (Whole(text) + 1) * Block
           /\ Rest(text) \o [k \in 1 .. Padding(text) |-> Padding(text)]
                  = Cut(Padded(text), Whole(text), 1)
<1> DEFINE w == Whole(text)
           a == w * Block
           n == Padding(text)
           pad == [k \in 1 .. n |-> n]
           all == text \o pad
<1>1. /\ w \in Nat /\ a \in Nat /\ Len(text) - a \in 0 .. Block - 1
      /\ Len(Rest(text)) = Len(text) - a /\ Len(text) \in Nat
  BY WholeIs, LenProperties
<1>2. n = Block - (Len(text) - a) /\ n \in 1 .. Block /\ n \in Nat
  <2> HIDE DEF a
  <2> QED BY <1>1 DEF Padding
<1> HIDE DEF n
<1>3. pad \in Seq(Nat) /\ Len(pad) = n /\ \A p \in 1 .. n : pad[p] = n
  <2>1. pad \in [1 .. n -> Nat]
    BY <1>2
  <2> QED BY <1>2, <2>1
<1> HIDE DEF pad
<1>4. /\ all \in Seq(Nat) /\ Len(all) = Len(text) + n
      /\ \A p \in 1 .. Len(text) + n :
            all[p] = IF p <= Len(text) THEN text[p] ELSE pad[p - Len(text)]
  BY <1>3, ConcatProperties
<1>5. all = Padded(text)
  BY DEF Padded, pad, n
<1> HIDE DEF all
<1>12. Len(text) \in Nat /\ n \in Nat
  BY <1>1, <1>2
<1>6. ASSUME NEW p \in 1 .. Len(text) PROVE all[p] = text[p]
  <2>1. p \in 1 .. Len(text) + n /\ p <= Len(text)
    BY <1>12
  <2> QED BY <2>1, <1>4
<1>7. ASSUME NEW p \in 1 .. n PROVE all[Len(text) + p] = n
  <2>1. Len(text) + p \in 1 .. Len(text) + n /\ ~(Len(text) + p <= Len(text))
        /\ (Len(text) + p) - Len(text) = p
    BY <1>12
  <2> QED BY <2>1, <1>3, <1>4
<1>8. Len(all) = (w + 1) * Block /\ (w + 1) * Block = a + Block
  <2>1. (w + 1) * Block = w * Block + 1 * Block
    BY <1>1, Multiples
  <2>2. (w + 1) * Block = a + Block
    BY <2>1
  <2> HIDE DEF a, w
  <2> QED BY <2>2, <1>1, <1>2, <1>4
<1>9. Has(all, w + 1)
  BY <1>1, <1>8, Multiples DEF Has
<1>10. Whole(all) = w + 1
  <2> DEFINE v == w + 1
  <2>1. v \in Nat /\ Has(all, v)
    BY <1>1, <1>9
  <2>2. Len(all) < (v + 1) * Block
    <3>1. (v + 1) * Block = v * Block + 1 * Block /\ v * Block \in Nat
      BY <2>1, Multiples
    <3>2. Len(all) = v * Block
      BY <1>8
    <3> HIDE DEF v
    <3> QED BY <3>1, <3>2
  <2> HIDE DEF v
  <2>3. Whole(all) = v
    BY <1>4, <2>1, <2>2, WholeExactly
  <2> QED BY <2>3 DEF v
<1>11. Rest(text) \o pad = Cut(all, w, 1)
  <2>1. Rest(text) = SubSeq(text, a + 1, Len(text))
    BY DEF Rest
  <2>2. a <= Len(text)
    <3> HIDE DEF a
    <3> QED BY <1>1
  <2>3. Cut(all, w, 1) = SubSeq(all, a + 1, Len(text) + Len(pad))
    BY <1>3, <1>4, <1>8 DEF Cut
  <2> HIDE DEF a
  <2>4. SubSeq(text, a + 1, Len(text)) \o pad = SubSeq(text \o pad, a + 1, Len(text) + Len(pad))
    BY <1>1, <1>3, <2>2, RestOfMore
  <2> QED BY <2>1, <2>3, <2>4 DEF all
<1> QED BY <1>2, <1>4, <1>5, <1>6, <1>7, <1>8, <1>10, <1>11 DEF pad, n

LEMMA EndsText ==
    ASSUME Block \in Nat \ {0}, NEW text \in Seq(Nat)
    PROVE  SealFinal(Held(text)) = Done(FreshContext, Crypt(Padded(text), Whole(text), 1))
<1> DEFINE all == Padded(text)
           w == Whole(text)
           n == Padding(text)
<1>1. w \in Nat /\ Has(text, w) /\ 1 \in Nat
  BY WholeIs
<1>2. all \in Seq(Nat) /\ Len(all) = (w + 1) * Block /\ n \in 1 .. Block
      /\ Rest(text) \o [k \in 1 .. n |-> n] = Cut(all, w, 1)
  BY PaddedIs
<1>3. Has(all, w + 1)
  BY <1>1, <1>2, Multiples DEF Has
<1>4. Held(text).chain = Chain(all, w)
  <2> DEFINE pad == [k \in 1 .. n |-> n]
  <2>1. pad \in Seq(Nat)
    <3>1. pad \in [1 .. n -> Nat] /\ n \in Nat
      BY <1>2
    <3> QED BY <3>1
  <2>2. all = text \o pad
    BY DEF Padded
  <2> HIDE DEF pad, all, w
  <2>3. Chain(text \o pad, w) = Chain(text, w)
    BY <1>1, <2>1, ChainOfMore
  <2> QED BY <2>2, <2>3 DEF Held, w
<1>5. Encipher(Held(text), Cut(all, w, 1))
          = Done([Held(text) EXCEPT !.chain = Chain(all, w + 1)], Crypt(all, w, 1))
  <2> HIDE DEF all, w
  <2> QED BY <1>1, <1>2, <1>3, <1>4, EnciphersText
<1>6. SealFinal(Held(text))
          = Done(FreshContext, Encipher(Held(text), Rest(text) \o [k \in 1 .. n |-> n]).output)
  BY DEF SealFinal, Held, Padding, Restarted
<1>7. Encipher(Held(text), Cut(all, w, 1)).output = Crypt(all, w, 1)
  BY <1>5 DEF Done
<1> QED BY <1>2, <1>6, <1>7

LEMMA FreshIsHeld ==
    ASSUME Block \in Nat \ {0}
    PROVE  Held(<<>>) = FreshContext /\ Crypt(<<>>, 0, 0) = <<>> /\ Whole(<<>>) = 0
<1>1. 0 \div Block = 0
  <2>1. (0 * Block) \div Block = 0 /\ 0 * Block = 0
    BY Multiples
  <2> QED BY <2>1
<1>2. Whole(<<>>) = 0
  BY <1>1 DEF Whole
<1>3. 0 * Block = 0
  OBVIOUS
<1>4. Chain(<<>>, 0) = <<>>
  BY DEF Chain
<1>5. Rest(<<>>) = <<>>
  BY <1>2, <1>3, SubSeqEmpty DEF Rest
<1>6. Crypt(<<>>, 0, 0) = <<>>
  BY <1>3 DEF Crypt
<1> QED BY <1>2, <1>4, <1>5, <1>6 DEF Held, FreshContext

-----------------------------------------------------------------------------
(* Opening                                                                 *)

\* The blocks that are deciphered when t bytes are taken: all but the last one.
Out(t) == IF t = 0 THEN 0 ELSE (t - 1) \div Block

LEMMA OutIs ==
    ASSUME Block \in Nat \ {0}, NEW t \in Nat
    PROVE  /\ Out(t) \in Nat /\ Out(t) * Block \in Nat
           /\ t = 0 => Out(t) = 0 /\ Out(t) * Block = 0
           /\ t # 0 => t - Out(t) * Block \in 1 .. Block
           /\ Out(t) * Block <= t
<1> DEFINE o == Out(t)
           a == o * Block
<1>1. CASE t = 0
  <2>1. o = 0
    BY <1>1 DEF Out
  <2>2. a = 0
    BY <2>1
  <2> HIDE DEF o, a
  <2>3. o \in Nat /\ a \in Nat /\ (t = 0 => o = 0 /\ a = 0) /\ (t # 0 => t - a \in 1 .. Block) /\ a <= t
    BY <1>1, <2>1, <2>2
  <2> QED BY <2>3 DEF o, a
<1>2. CASE t # 0
  <2> DEFINE q == (t - 1) \div Block
             r == (t - 1) % Block
  <2>1. t - 1 \in Nat
    BY <1>2
  <2>2. q \in Nat /\ r \in 0 .. Block - 1 /\ t - 1 = q * Block + r /\ q * Block \in Nat
    BY <2>1, Division, Multiples
  <2>3. o = q
    BY <1>2 DEF Out
  <2>4. a = q * Block
    BY <2>3
  <2> HIDE DEF o, a, q, r
  <2>5. o \in Nat /\ a \in Nat /\ (t = 0 => o = 0 /\ a = 0) /\ (t # 0 => t - a \in 1 .. Block) /\ a <= t
    <3> DEFINE x == q * Block
    <3> HIDE DEF x
    <3>1. a = x /\ t - 1 = x + r /\ x \in Nat
      BY <2>2, <2>4 DEF x
    <3> QED BY <1>2, <2>2, <2>3, <3>1
  <2> QED BY <2>5 DEF o, a
<1> QED BY <1>1, <1>2

\* That says which block it is.
LEMMA OutExactly ==
    ASSUME Block \in Nat \ {0}, NEW o \in Nat, NEW r \in 1 .. Block
    PROVE  Out(o * Block + r) = o
<1> DEFINE a == o * Block
<1>1. a \in Nat
  BY Multiples
<1>2. r - 1 \in 0 .. Block - 1
  OBVIOUS
<1>3. (o * Block + (r - 1)) \div Block = o
  BY <1>2, Quotient
<1>4. (a + (r - 1)) \div Block = o
  BY <1>3
<1>5. a + r # 0 /\ (a + r) - 1 = a + (r - 1)
  <2> HIDE DEF a
  <2> QED BY <1>1
<1> HIDE DEF a
<1>6. ((a + r) - 1) \div Block = o
  BY <1>4, <1>5
<1>7. Out(a + r) = o
  BY <1>5, <1>6 DEF Out
<1> QED BY <1>7 DEF a

LEMMA OutGrows ==
    ASSUME Block \in Nat \ {0}, NEW t \in Nat, NEW m \in Nat
    PROVE  /\ Out(t) <= Out(t + m)
           /\ (Out(t + m) - Out(t)) * Block <= m + Block - 1
           /\ LET length == t - Out(t) * Block + m
              IN (IF length <= Block THEN 0 ELSE ((length - 1) \div Block) * Block)
                     = (Out(t + m) - Out(t)) * Block
<1> DEFINE u == t + m
           o == Out(t)
           p == Out(u)
           a == o * Block
           b == p * Block
           n == p - o
           length == t - a + m
           r == u - b
<1>1. o \in Nat /\ a \in Nat /\ (t = 0 => o = 0 /\ a = 0) /\ (t # 0 => t - a \in 1 .. Block) /\ a <= t
  BY OutIs
<1>2. u \in Nat /\ p \in Nat /\ b \in Nat /\ (u = 0 => p = 0 /\ b = 0)
      /\ (u # 0 => r \in 1 .. Block) /\ b <= u
  <2>1. u \in Nat
    OBVIOUS
  <2> HIDE DEF u
  <2> QED BY <2>1, OutIs
<1>3. a <= b + Block - 1 /\ length = u - a
  <2> HIDE DEF a, b, o, p
  <2> QED BY <1>1, <1>2
<1>4. o <= p
  <2>1. SUFFICES ASSUME p + 1 <= o PROVE FALSE
    BY <1>1, <1>2
  <2>2. p + 1 \in Nat /\ 1 \in Nat
    BY <1>2
  <2> HIDE DEF o, p
  <2>3. (p + 1) * Block = p * Block + 1 * Block /\ (p + 1) * Block <= o * Block
    BY <1>1, <1>2, <2>1, <2>2, Multiples
  <2>4. b + Block <= a
    BY <2>3
  <2> HIDE DEF a, b
  <2> QED BY <2>4, <1>1, <1>2, <1>3
<1>5. n \in Nat /\ n * Block \in Nat /\ b = a + n * Block
  <2>1. n \in Nat /\ o + n = p
    <3> HIDE DEF o, p
    <3> QED BY <1>1, <1>2, <1>4
  <2> HIDE DEF o, p, n
  <2>2. (o + n) * Block = o * Block + n * Block
    BY <1>1, <2>1, Multiples
  <2> QED BY <2>1, <2>2, Multiples
<1> DEFINE go == n * Block
<1>6. go \in Nat /\ b = a + go
  BY <1>5
<1>7. go <= m + Block - 1
  <2> HIDE DEF a, b, o, p, n, go
  <2> QED BY <1>1, <1>2, <1>6
<1>8. (IF length <= Block THEN 0 ELSE ((length - 1) \div Block) * Block) = go
  <2>1. CASE u = 0
    <3>1. length = 0 /\ go = 0
      <4> HIDE DEF a, b, o, p, n, go
      <4> QED BY <2>1, <1>1, <1>2, <1>3, <1>6
    <3> HIDE DEF length, go
    <3> QED BY <3>1
  <2>2. CASE u # 0
    <3>1. length = go + r /\ r \in 1 .. Block
      <4> HIDE DEF a, b, o, p, n, go, u
      <4> QED BY <2>2, <1>1, <1>2, <1>3, <1>6
    <3>2. CASE length <= Block
      <4>1. go < Block
        <5> HIDE DEF length, go, r
        <5> QED BY <3>1, <3>2, <1>6
      <4>2. n = 0
        <5>1. SUFFICES ASSUME 1 <= n PROVE FALSE
          BY <1>5
        <5> HIDE DEF n
        <5>2. 1 * Block <= n * Block
          BY <5>1, <1>5, Multiples
        <5> HIDE DEF length
        <5> QED BY <4>1, <5>2, <1>5
      <4>3. go = 0
        <5> HIDE DEF n
        <5> QED BY <4>2
      <4> HIDE DEF length, go
      <4> QED BY <3>2, <4>3
    <3>3. CASE ~(length <= Block)
      <4>1. r - 1 \in 0 .. Block - 1 /\ length - 1 = go + (r - 1)
        <5> HIDE DEF length, go, r
        <5> QED BY <3>1, <1>6
      <4> HIDE DEF length, r
      <4>2. (n * Block + (r - 1)) \div Block = n
        <5> HIDE DEF n
        <5> QED BY <1>5, <4>1, Quotient
      <4>3. (length - 1) \div Block = n
        BY <4>1, <4>2
      <4> HIDE DEF n
      <4> QED BY <4>3, <3>3
    <3> QED BY <3>2, <3>3
  <2> QED BY <2>1, <2>2
<1> QED BY <1>4, <1>7, <1>8

\* The context of a receiver who has taken t bytes of what was sealed of a text.
Opened(text, w, t) ==
    [chain |-> Chain(text, Out(t)),
     buffer |-> SubSeq(Crypt(text, 0, w), Out(t) * Block + 1, t)]

LEMMA OpensText ==
    ASSUME Block \in Nat \ {0}, NEW text \in Seq(Nat), NEW w \in Nat, Has(text, w),
           NEW t \in Nat, NEW m \in Nat, t + m <= w * Block
    PROVE  /\ Out(t) <= Out(t + m) /\ Out(t + m) <= w
           /\ OpenUpdate(Opened(text, w, t), SubSeq(Crypt(text, 0, w), t + 1, t + m))
                  = Done(Opened(text, w, t + m), Cut(text, Out(t), Out(t + m) - Out(t)))
<1> DEFINE T == Seq(Seq(Nat)) \X Nat
           s == Crypt(text, 0, w)
           u == t + m
           o == Out(t)
           p == Out(u)
           n == p - o
           a == o * Block
           b == p * Block
           go == n * Block
           buffer == SubSeq(s, a + 1, t)
           input == SubSeq(s, t + 1, u)
           bytes == SubSeq(s, a + 1, u)
           length == Len(buffer) + Len(input)
           context == Opened(text, w, t)
<1>1. s \in Seq(T) /\ Len(s) = w * Block /\ w * Block \in Nat /\ Has(s, w)
  <2>1. Has(text, 0 + w) /\ 0 \in Nat
    OBVIOUS
  <2>2. s \in Seq(T) /\ Len(s) = w * Block
    BY <2>1, CryptType
  <2> HIDE DEF s
  <2> QED BY <2>2, Multiples DEF Has
<1> HIDE DEF T
<1>2. o \in Nat /\ a \in Nat /\ a <= t
  BY OutIs
<1>3. u \in Nat /\ p \in Nat /\ b \in Nat /\ b <= u /\ u <= Len(s)
  <2>1. u \in Nat /\ u <= w * Block
    OBVIOUS
  <2> HIDE DEF u, s
  <2> QED BY <2>1, <1>1, OutIs
<1>4. o <= p /\ n \in Nat /\ o + n = p
      /\ (IF t - a + m <= Block THEN 0 ELSE (((t - a + m) - 1) \div Block) * Block) = go
  <2>1. o <= p /\ (IF t - a + m <= Block THEN 0 ELSE (((t - a + m) - 1) \div Block) * Block) = go
    BY OutGrows
  <2>2. n \in Nat /\ o + n = p
    <3> HIDE DEF o, p
    <3> QED BY <2>1, <1>2, <1>3
  <2> QED BY <2>1, <2>2
<1>5. p <= w
  <2>1. SUFFICES ASSUME w + 1 <= p PROVE FALSE
    BY <1>3
  <2>2. w + 1 \in Nat /\ w <= p
    BY <1>3, <2>1
  <2> HIDE DEF p
  <2>3. (w + 1) * Block <= p * Block /\ (w + 1) * Block = w * Block + 1 * Block
    BY <1>3, <2>1, <2>2, Multiples
  <2> HIDE DEF s, u
  <2> QED BY <2>3, <1>1, <1>3
<1>6. go \in Nat /\ b = a + go
  <2> HIDE DEF o, p, n
  <2>1. (o + n) * Block = o * Block + n * Block /\ n * Block \in Nat
    BY <1>2, <1>4, Multiples
  <2> QED BY <2>1, <1>4
<1> HIDE DEF s
<1>7. a <= u /\ go <= u - a /\ t <= u /\ u - a \in Nat
  <2>1. t <= u
    OBVIOUS
  <2> HIDE DEF u, a, b, go
  <2> QED BY <2>1, <1>2, <1>3, <1>6
<1>8. buffer \in Seq(T) /\ Len(buffer) = t - a /\ input \in Seq(T) /\ Len(input) = m
      /\ bytes \in Seq(T) /\ Len(bytes) = u - a
  <2>1. t <= Len(s)
    <3> HIDE DEF u
    <3> QED BY <1>1, <1>3, <1>7
  <2>2. u - t = m
    OBVIOUS
  <2> HIDE DEF a, u
  <2> QED BY <1>1, <1>2, <1>3, <1>7, <2>1, <2>2, PieceIs
<1>9. buffer \o input = bytes
  <2> HIDE DEF a, u
  <2>1. SubSeq(s, a + 1, t) \o SubSeq(s, t + 1, u) = SubSeq(s, a + 1, u)
    <3>1. /\ s \in Seq(T) /\ a \in Nat /\ t \in Nat /\ u \in Nat /\ a <= t /\ t <= u
          /\ u <= Len(s)
      BY <1>1, <1>2, <1>3, <1>7
    <3> QED BY ONLY <3>1, Pieces
  <2> QED BY <2>1
<1>10. length = t - a + m
  <2> HIDE DEF buffer, input, a
  <2> QED BY <1>8
<1>11. SubSeq(bytes, 1, go) = Crypt(text, o, n)
  <2>1. SubSeq(SubSeq(s, a + 1, u), 0 + 1, go) = SubSeq(s, (a + 0) + 1, a + go)
    <3> HIDE DEF a, u, go
    <3> QED BY <1>1, <1>2, <1>3, <1>6, <1>7, PieceOfPiece
  <2>2. Cut(s, o, n) = SubSeq(s, a + 1, a + go)
    BY <1>4, <1>6 DEF Cut
  <2>3. Cut(s, o, n) = Crypt(text, o, n)
    <3> HIDE DEF o, n
    <3> QED BY <1>2, <1>4, <1>5, CryptCut DEF s
  <2>4. 0 + 1 = 1 /\ a + 0 = a
    BY <1>2
  <2> HIDE DEF a, u, go, o, n
  <2> QED BY <2>1, <2>2, <2>3, <2>4
<1>12. SubSeq(bytes, go + 1, Len(bytes)) = SubSeq(s, b + 1, u)
  <2> DEFINE d == u - a
  <2>1. d \in Nat /\ a + d = u
    <3> HIDE DEF a, u
    <3> QED BY <1>2, <1>3, <1>7
  <2>2. SubSeq(SubSeq(s, a + 1, u), go + 1, d) = SubSeq(s, (a + go) + 1, a + d)
    <3>1. d <= u - a
      BY <2>1
    <3> HIDE DEF a, u, go, d
    <3> QED BY <1>1, <1>2, <1>3, <1>6, <1>7, <2>1, <3>1, PieceOfPiece
  <2>3. Len(bytes) = d
    BY <1>8
  <2> HIDE DEF a, u, go, d, b
  <2> QED BY <2>1, <2>2, <2>3, <1>6
<1>13. Decipher(context, Crypt(text, o, n)) = Done([context EXCEPT !.chain = Chain(text, p)], Cut(text, o, n))
  <2>1. Has(text, o + n)
    <3> HIDE DEF o, n
    <3> QED BY <1>3, <1>4, <1>5, HasFewer
  <2>2. context.chain = Chain(text, o)
    BY DEF Opened
  <2> HIDE DEF o, n, p, context
  <2> QED BY <2>1, <2>2, <1>2, <1>4, DeciphersText
<1>14. context.buffer = buffer
  BY DEF Opened, s
<1>15. Buffered(Decipher, context, input, go)
           = Done([Decipher(context, SubSeq(bytes, 1, go)).context
                       EXCEPT !.buffer = SubSeq(bytes, go + 1, Len(bytes))],
                  Decipher(context, SubSeq(bytes, 1, go)).output)
  <2> HIDE DEF context, go, buffer, input, bytes
  <2> QED BY <1>9, <1>14 DEF Buffered
<1>16. OpenUpdate(context, input) = Buffered(Decipher, context, input, go)
  <2>1. OpenUpdate(context, input)
            = IF length <= Block THEN Buffered(Decipher, context, input, 0)
              ELSE Buffered(Decipher, context, input, ((length - 1) \div Block) * Block)
    <3> HIDE DEF context, input, buffer
    <3> QED BY <1>14 DEF OpenUpdate, length
  <2>2. (IF length <= Block THEN 0 ELSE ((length - 1) \div Block) * Block) = go
    <3> HIDE DEF length, go, a
    <3> QED BY <1>4, <1>10
  <2> HIDE DEF length, go, context, input
  <2> QED BY <2>1, <2>2
<1>17. [[context EXCEPT !.chain = Chain(text, p)] EXCEPT !.buffer = SubSeq(s, b + 1, u)] = Opened(text, w, u)
  <2>1. context = [chain |-> Chain(text, o), buffer |-> buffer]
    BY DEF Opened, s
  <2>2. Opened(text, w, u) = [chain |-> Chain(text, p), buffer |-> SubSeq(s, b + 1, u)]
    BY DEF Opened, s
  <2> HIDE DEF context, u, o, p, b, buffer
  <2>3. [context EXCEPT !.chain = Chain(text, p)] = [chain |-> Chain(text, p), buffer |-> buffer]
    BY <2>1
  <2>4. [[chain |-> Chain(text, p), buffer |-> buffer] EXCEPT !.buffer = SubSeq(s, b + 1, u)]
            = [chain |-> Chain(text, p), buffer |-> SubSeq(s, b + 1, u)]
    <3>1. ASSUME NEW c, NEW d, NEW e
          PROVE  [[chain |-> c, buffer |-> d] EXCEPT !.buffer = e] = [chain |-> c, buffer |-> e]
      OBVIOUS
    <3> QED BY ONLY <3>1
  <2> QED BY <2>2, <2>3, <2>4
<1> HIDE DEF context, input, bytes, go, o, p, n, b, u, s
<1>18. Decipher(context, SubSeq(bytes, 1, go)) = Done([context EXCEPT !.chain = Chain(text, p)], Cut(text, o, n))
  BY <1>11, <1>13
<1>19. /\ Decipher(context, SubSeq(bytes, 1, go)).context = [context EXCEPT !.chain = Chain(text, p)]
       /\ Decipher(context, SubSeq(bytes, 1, go)).output = Cut(text, o, n)
  BY <1>18 DEF Done
<1>20. OpenUpdate(context, input) = Done(Opened(text, w, u), Cut(text, o, n))
  BY <1>12, <1>15, <1>16, <1>17, <1>19
<1> QED BY <1>4, <1>5, <1>20 DEF context, input, o, p, n, u, s

-----------------------------------------------------------------------------
(* The end of a message                                                    *)

\* What the end of a message gives: nothing of a context that took nothing, an
\* error for less than a block, and what is before the padding of a last block.
LEMMA EndsEmpty ==
    ASSUME Block \in Nat \ {0}, NEW text \in Seq(Nat), NEW w \in Nat
    PROVE  /\ OpenFinal(Opened(text, w, 0)).status = "ok"
           /\ OpenFinal(Opened(text, w, 0)).output = <<>>
<1> DEFINE context == Opened(text, w, 0)
<1>1. Out(0) * Block + 1 = 1
  <2>1. 0 \in Nat
    OBVIOUS
  <2>2. Out(0) * Block = 0
    BY <2>1, OutIs
  <2> QED BY <2>2
<1>2. context.buffer = <<>>
  BY <1>1, SubSeqEmpty DEF Opened
<1> HIDE DEF context
<1>3. OpenFinal(context).status = "ok" /\ OpenFinal(context).output = <<>>
  BY <1>2 DEF OpenFinal
<1> QED BY <1>3 DEF context

LEMMA EndsPartial ==
    ASSUME Block \in Nat \ {0}, NEW context, context.buffer # <<>>, Len(context.buffer) # Block
    PROVE  OpenFinal(context).status = "RE_KEY" /\ OpenFinal(context).output = <<>>
BY DEF OpenFinal

\* Whether a block ends as a padding does.
Fine(plain) ==
    /\ plain[Block] \in 1 .. Block
    /\ \A k \in Block - plain[Block] + 1 .. Block : plain[k] = plain[Block]

LEMMA EndsBlock ==
    ASSUME Block \in Nat \ {0}, NEW context, context.buffer # <<>>, Len(context.buffer) = Block,
           NEW plain, Decipher(context, context.buffer).output = plain
    PROVE  /\ Fine(plain) => /\ OpenFinal(context).status = "ok"
                             /\ OpenFinal(context).output = SubSeq(plain, 1, Block - plain[Block])
           /\ ~Fine(plain) => /\ OpenFinal(context).status = "RE_KEY"
                              /\ OpenFinal(context).output = <<>>
<1> DEFINE last == Decipher(context, context.buffer)
           end == OpenFinal(context)
           rest == SubSeq(plain, 1, Block - plain[Block])
<1>1. last.output = plain
  OBVIOUS
<1> HIDE DEF last
<1>2. end
          = IF last.output[Block] \in 1 .. Block
                   /\ \A k \in Block - last.output[Block] + 1 .. Block :
                          last.output[k] = last.output[Block]
            THEN [context |-> Restarted(context),
                  output |-> SubSeq(last.output, 1, Block - last.output[Block]), status |-> "ok"]
            ELSE [context |-> last.context, output |-> <<>>, status |-> "RE_KEY"]
  BY DEF OpenFinal, last
<1>3. end = IF Fine(plain) THEN [context |-> Restarted(context), output |-> rest, status |-> "ok"]
            ELSE [context |-> last.context, output |-> <<>>, status |-> "RE_KEY"]
  BY <1>1, <1>2 DEF Fine
<1> HIDE DEF rest, end
<1>4. Fine(plain) => end.status = "ok" /\ end.output = rest
  BY <1>3
<1>5. ~Fine(plain) => end.status = "RE_KEY" /\ end.output = <<>>
  BY <1>3
<1> QED BY <1>4, <1>5 DEF rest, end

\* The last block that came, of what was sealed of a message.
LEMMA LastBlock ==
    ASSUME Block \in Nat \ {0}, NEW text \in Seq(Nat), NEW w \in Nat, Has(text, w),
           NEW t \in Nat, t # 0, t <= w * Block
    PROVE  LET context == Opened(text, w, t)
           IN /\ context.buffer # <<>>
              /\ Len(context.buffer) = t - Out(t) * Block
              /\ Len(context.buffer) = Block =>
                     /\ Has(text, Out(t) + 1) /\ (Out(t) + 1) * Block = t
                     /\ Decipher(context, context.buffer)
                            = Done([context EXCEPT !.chain = Chain(text, Out(t) + 1)],
                                   Cut(text, Out(t), 1))
<1> DEFINE T == Seq(Seq(Nat)) \X Nat
           s == Crypt(text, 0, w)
           o == Out(t)
           a == o * Block
           buffer == SubSeq(s, a + 1, t)
           context == Opened(text, w, t)
<1>1. s \in Seq(T) /\ Len(s) = w * Block /\ w * Block \in Nat
  <2>1. Has(text, 0 + w) /\ 0 \in Nat
    OBVIOUS
  <2>2. s \in Seq(T) /\ Len(s) = w * Block
    BY <2>1, CryptType
  <2> HIDE DEF s
  <2> QED BY <2>2, Multiples
<1> HIDE DEF T, s
<1>2. o \in Nat /\ a \in Nat /\ a <= t /\ t - a \in 1 .. Block
  BY OutIs
<1>3. buffer \in Seq(T) /\ Len(buffer) = t - a
  <2>1. t <= Len(s)
    BY <1>1
  <2> HIDE DEF a
  <2> QED BY <1>1, <1>2, <2>1, PieceIs
<1>4. context.buffer = buffer
  BY DEF Opened, s
<1>5. buffer # <<>>
  <2>1. ASSUME buffer = <<>> PROVE FALSE
    <3> HIDE DEF buffer, a
    <3>1. Len(buffer) = 0
      BY <2>1
    <3> QED BY <3>1, <1>2, <1>3
  <2> QED BY <2>1
<1>6. ASSUME Len(buffer) = Block
      PROVE  /\ Has(text, o + 1) /\ (o + 1) * Block = t
             /\ Decipher(context, buffer) = Done([context EXCEPT !.chain = Chain(text, o + 1)], Cut(text, o, 1))
  <2>1. (o + 1) * Block = a + Block
    <3>1. 1 \in Nat
      OBVIOUS
    <3>2. (o + 1) * Block = o * Block + 1 * Block
      BY <1>2, <3>1, Multiples
    <3> QED BY <3>2
  <2>2. t = a + Block
    <3> HIDE DEF buffer, a
    <3> QED BY <1>2, <1>3, <1>6
  <2>3. (o + 1) * Block = t
    BY <2>1, <2>2
  <2>4. o + 1 <= w
    <3>1. o + 1 \in Nat /\ (o + 1) * Block <= w * Block
      <4> DEFINE x == (o + 1) * Block
                 y == w * Block
      <4>1. x = t /\ t <= y /\ o + 1 \in Nat
        <5>1. x = t
          BY <2>3
        <5>2. t <= y
          OBVIOUS
        <5>3. o + 1 \in Nat
          <6> HIDE DEF o
          <6> QED BY <1>2
        <5> QED BY <5>1, <5>2, <5>3
      <4> HIDE DEF x, y
      <4>2. x <= y
        BY <4>1
      <4> QED BY <4>1, <4>2 DEF x, y
    <3> HIDE DEF o
    <3> QED BY <3>1, Multiples
  <2>5. Has(text, o + 1)
    <3>1. o + 1 \in Nat
      BY <1>2
    <3> HIDE DEF o
    <3> QED BY <2>4, <3>1, HasFewer
  <2>6. buffer = Cut(s, o, 1)
    <3> HIDE DEF s
    <3> QED BY <2>3 DEF Cut
  <2>7. Cut(s, o, 1) = Crypt(text, o, 1)
    <3>1. 1 \in Nat
      OBVIOUS
    <3> HIDE DEF o
    <3> QED BY <1>2, <2>4, <3>1, CryptCut DEF s
  <2>8. context.chain = Chain(text, o)
    BY DEF Opened
  <2>9. Decipher(context, Crypt(text, o, 1)) = Done([context EXCEPT !.chain = Chain(text, o + 1)], Cut(text, o, 1))
    <3>1. 1 \in Nat
      OBVIOUS
    <3> HIDE DEF o, context
    <3> QED BY <1>2, <2>5, <2>8, <3>1, DeciphersText
  <2> HIDE DEF context, buffer, o
  <2> QED BY <2>3, <2>5, <2>6, <2>7, <2>9
<1> QED BY <1>3, <1>4, <1>5, <1>6

\* What the receiver has of a message when it is at the end of what came.
LEMMA EndsOpened ==
    ASSUME Block \in Nat \ {0}, NEW message \in Seq(Nat), NEW t \in Nat,
           t <= Whole(Padded(message)) * Block
    PROVE  LET text == Padded(message)
               end == OpenFinal(Opened(text, Whole(text), t))
               front == Cut(text, 0, Out(t))
           IN /\ end.output \in Seq(Nat) /\ Len(end.output) <= Block - 1
              /\ end.status = "ok" =>
                     \E k \in Out(t) * Block .. Len(message) :
                         front \o end.output = SubSeq(message, 1, k)
              /\ end.status # "ok" => end.output = <<>>
              /\ t = Whole(text) * Block => end.status = "ok" /\ front \o end.output = message
<1> DEFINE text == Padded(message)
           w == Whole(text)
           v == Whole(message)
           pad == Padding(message)
           context == Opened(text, w, t)
           end == OpenFinal(context)
           o == Out(t)
           a == o * Block
           front == Cut(text, 0, o)
           all == Len(message)
<1>1. /\ pad \in 1 .. Block /\ text \in Seq(Nat) /\ Len(text) = all + pad
      /\ \A p \in 1 .. all : text[p] = message[p]
      /\ \A p \in 1 .. pad : text[all + p] = pad
      /\ w = v + 1 /\ Len(text) = (v + 1) * Block
  BY PaddedIs
<1>2. v \in Nat /\ v * Block \in Nat /\ all - v * Block \in 0 .. Block - 1 /\ all \in Nat
  BY WholeIs, LenProperties
<1>3. w \in Nat /\ Has(text, w) /\ w * Block = all + pad /\ w * Block \in Nat
  <2>1. w * Block = (v + 1) * Block
    BY <1>1
  <2>2. v + 1 \in Nat
    BY <1>2
  <2> HIDE DEF w, v, text
  <2>3. w \in Nat /\ w * Block = Len(text)
    BY <1>1, <2>1, <2>2
  <2>4. w * Block \in Nat
    BY <2>3, Multiples
  <2> QED BY <2>3, <2>4, <1>1 DEF Has
<1>4. o \in Nat /\ a \in Nat /\ a <= t /\ (t = 0 => o = 0 /\ a = 0) /\ (t # 0 => t - a \in 1 .. Block)
  BY OutIs
<1>5. t <= all + pad
  BY <1>3
<1> HIDE DEF w, v, text, pad, all
<1>7. CASE t = 0
  <2>1. end.status = "ok" /\ end.output = <<>>
    BY <1>1, <1>3, <1>7, EndsEmpty
  <2>2. front = <<>>
    <3>1. 0 * Block + 1 = 1 /\ (0 + o) * Block = 0
      BY <1>4, <1>7
    <3> QED BY <3>1, SubSeqEmpty DEF Cut
  <2>3. SubSeq(message, 1, 0) = <<>>
    BY SubSeqEmpty
  <2>4. 0 \in a .. all /\ t # w * Block
    <3> HIDE DEF a
    <3> QED BY <1>1, <1>2, <1>3, <1>4, <1>7
  <2>5. <<>> \o <<>> = <<>> /\ <<>> \in Seq(Nat) /\ Len(<<>>) = 0
    OBVIOUS
  <2> HIDE DEF front, end, a
  <2>6. /\ end.output \in Seq(Nat) /\ Len(end.output) <= Block - 1
        /\ front \o end.output = SubSeq(message, 1, 0)
    BY <2>1, <2>2, <2>3, <2>5
  <2> QED BY <2>1, <2>4, <2>6 DEF front, end, a, text, w, all
<1>8. CASE t # 0
  <2>1. /\ context.buffer # <<>> /\ Len(context.buffer) = t - a
        /\ Len(context.buffer) = Block =>
               /\ Has(text, o + 1) /\ (o + 1) * Block = t
               /\ Decipher(context, context.buffer)
                      = Done([context EXCEPT !.chain = Chain(text, o + 1)], Cut(text, o, 1))
    BY <1>1, <1>3, <1>8, LastBlock DEF w, text
  <2>2. CASE Len(context.buffer) # Block
    <3>1. end.status = "RE_KEY" /\ end.output = <<>>
      <4> HIDE DEF context
      <4> QED BY <2>1, <2>2, EndsPartial
    <3>2. t # w * Block
      <4>1. SUFFICES ASSUME t = w * Block PROVE FALSE
        OBVIOUS
      <4>2. w # 0
        BY <1>1, <1>2
      <4>3. (w - 1) \in Nat /\ (w - 1) + 1 = w /\ Block \in 1 .. Block /\ 1 \in Nat
        BY <1>3, <4>2
      <4>4. w * Block = (w - 1) * Block + 1 * Block
        BY ONLY <4>3, Multiples, Block \in Nat \ {0}
      <4>5. t = (w - 1) * Block + Block
        BY <4>1, <4>4
      <4>6. o = w - 1
        <5> DEFINE j == w - 1
        <5>1. j \in Nat /\ t = j * Block + Block
          BY <4>3, <4>5
        <5> HIDE DEF j
        <5> QED BY <4>3, <5>1, OutExactly DEF j
      <4>7. t - a = Block
        <5>1. a = (w - 1) * Block
          BY <4>6
        <5> QED BY <5>1, <4>5, <1>4
      <4> HIDE DEF context
      <4> QED BY <2>1, <2>2, <4>7
    <3>3. <<>> \in Seq(Nat) /\ Len(<<>>) <= Block - 1
      OBVIOUS
    <3> HIDE DEF front, end
    <3> QED BY <3>1, <3>2, <3>3 DEF front, end, text, w
  <2>3. CASE Len(context.buffer) = Block
    <3> DEFINE plain == Cut(text, o, 1)
               n == plain[Block]
               fine == Fine(plain)
    <3>1. /\ fine => end.status = "ok" /\ end.output = SubSeq(plain, 1, Block - n)
          /\ ~fine => end.status = "RE_KEY" /\ end.output = <<>>
      <4>1. Decipher(context, context.buffer)
                = Done([context EXCEPT !.chain = Chain(text, o + 1)], plain)
        <5> HIDE DEF context, plain
        <5> QED BY <2>1, <2>3 DEF plain
      <4> DEFINE chain == Chain(text, o + 1)
      <4> HIDE DEF context, plain, chain
      <4>2. Decipher(context, context.buffer) = Done([context EXCEPT !.chain = chain], plain)
        BY <4>1 DEF chain
      <4>3. context.buffer # <<>> /\ Len(context.buffer) = Block
        BY <2>1, <2>3
      <4>5. Decipher(context, context.buffer).output = plain
        BY <4>2 DEF Done
      <4>4. /\ Fine(plain) => /\ OpenFinal(context).status = "ok"
                             /\ OpenFinal(context).output = SubSeq(plain, 1, Block - plain[Block])
            /\ ~Fine(plain) => /\ OpenFinal(context).status = "RE_KEY"
                               /\ OpenFinal(context).output = <<>>
        BY <4>3, <4>5, EndsBlock
      <4> QED BY <4>4
    <3>2. t = a + Block
      <4> HIDE DEF context, a
      <4> QED BY <1>4, <2>1, <2>3
    <3>3. /\ plain \in Seq(Nat) /\ Len(plain) = Block
          /\ \A p \in 1 .. Block : plain[p] = text[a + p]
      <4>1. 1 * Block = Block /\ 1 \in Nat
        OBVIOUS
      <4>4. Has(text, o + 1)
        BY <2>1, <2>3
      <4>2. plain \in Seq(Nat) /\ Len(plain) = 1 * Block
        <5> DEFINE S == Nat
        <5>1. text \in Seq(S)
          BY <1>1
        <5> HIDE DEF o, S
        <5>2. Cut(text, o, 1) \in Seq(S) /\ Len(Cut(text, o, 1)) = 1 * Block
          BY <1>4, <4>1, <4>4, <5>1, CutType
        <5> QED BY <5>2 DEF S
      <4>3. \A p \in 1 .. 1 * Block : plain[p] = text[a + p]
        <5>1. text \in Seq(Nat)
          BY <1>1
        <5> HIDE DEF o
        <5> QED BY <1>4, <4>1, <4>4, <5>1, TextCut
      <4> HIDE DEF plain, a
      <4> QED BY <4>1, <4>2, <4>3
    <3>4. plain = SubSeq(text, a + 1, a + Block) /\ front = SubSeq(text, 0 + 1, a)
      <4>1. 0 * Block = 0 /\ 0 + o = o
        BY <1>4
      <4> QED BY <2>1, <2>3, <3>2, <4>1 DEF Cut
    <3>5. n = text[t] /\ n \in Nat
      <4>1. Block \in 1 .. Block
        OBVIOUS
      <4> HIDE DEF plain, a
      <4>2. n = text[a + Block]
        BY <3>3, <4>1
      <4> QED BY <3>2, <3>3, <4>1, <4>2, ElementOfSeq
    <3> HIDE DEF front, plain, a, context
    \* What is before the padding is of the message.
    <3>6. ASSUME NEW k \in Nat, k <= Block, a + k <= all
          PROVE  front \o SubSeq(plain, 1, k) = SubSeq(message, 1, a + k)
      <4>1. a + k \in Nat /\ a + Block \in Nat /\ a + Block <= Len(text) /\ 0 \in Nat /\ 0 <= a
            /\ a <= a + k /\ a + k <= Len(text) /\ k <= (a + Block) - a /\ a <= a + Block
        BY <1>1, <1>4, <1>5, <3>2, <3>6, <1>2
      <4> DEFINE b == a + Block
                 c == a + k
      <4>2. SubSeq(SubSeq(text, a + 1, b), 0 + 1, k) = SubSeq(text, (a + 0) + 1, a + k)
        <5>1. b \in Nat /\ a <= b /\ b <= Len(text) /\ k <= b - a
          BY <4>1
        <5> HIDE DEF b
        <5> QED BY <1>1, <1>4, <3>6, <4>1, <5>1, PieceOfPiece
      <4>3. SubSeq(plain, 1, k) = SubSeq(text, a + 1, c)
        <5>1. a + 0 = a /\ 0 + 1 = 1
          BY <1>4
        <5> QED BY <3>4, <4>2, <5>1
      <4>4. SubSeq(text, 0 + 1, a) \o SubSeq(text, a + 1, c) = SubSeq(text, 0 + 1, c)
        <5>1. /\ text \in Seq(Nat) /\ 0 \in Nat /\ a \in Nat /\ c \in Nat /\ 0 <= a /\ a <= c
              /\ c <= Len(text)
          BY <1>1, <1>4, <4>1
        <5> HIDE DEF c
        <5> QED BY <5>1, Pieces
      <4>5. SubSeq(text, 0 + 1, c) = SubSeq(message, 0 + 1, c)
        <5> DEFINE tail == [j \in 1 .. Padding(message) |-> Padding(message)]
        <5>1. text = message \o tail
          BY DEF text, Padded
        <5>2. tail \in Seq(Nat)
          <6>1. pad \in Nat
            BY <1>1
          <6>2. tail \in [1 .. pad -> Nat]
            BY <6>1 DEF pad
          <6> QED BY <6>1, <6>2
        <5>3. c \in Nat /\ c <= Len(message) /\ 0 \in Nat
          BY <3>6, <4>1 DEF all
        <5> HIDE DEF tail, c
        <5>4. SubSeq(message \o tail, 0 + 1, c) = SubSeq(message, 0 + 1, c)
          BY <5>2, <5>3, PieceOfMore
        <5> QED BY <5>1, <5>4
      <4>6. 0 + 1 = 1
        OBVIOUS
      <4> HIDE DEF b
      <4> QED BY <3>4, <4>3, <4>4, <4>5, <4>6
    <3>7. ASSUME n \in 1 .. Block
          PROVE  /\ SubSeq(plain, 1, Block - n) \in Seq(Nat)
                 /\ Len(SubSeq(plain, 1, Block - n)) <= Block - 1
      <4> DEFINE k == Block - n
      <4>1. k \in Nat /\ k <= Len(plain) /\ 0 \in Nat /\ 0 <= k /\ k - 0 <= Block - 1
        BY <3>3, <3>7
      <4> HIDE DEF k, n
      <4>2. SubSeq(plain, 0 + 1, k) \in Seq(Nat) /\ Len(SubSeq(plain, 0 + 1, k)) = k - 0
        BY <3>3, <4>1, PieceIs
      <4>3. 0 + 1 = 1
        OBVIOUS
      <4> QED BY <4>1, <4>2, <4>3 DEF k
    <3>8. ASSUME n \in 1 .. Block PROVE a + (Block - n) <= all
      <4>1. CASE t <= all
        BY <4>1, <3>2, <3>7, <1>2, <1>4, <3>8
      <4>2. CASE ~(t <= all)
        <5> DEFINE p == t - all
        <5>1. p \in 1 .. pad /\ all + p = t
          BY <4>2, <1>1, <1>2, <1>5
        <5>2. n = pad
          BY <5>1, <1>1, <3>5
        <5>3. a + Block = t /\ t <= all + pad
          BY <1>5, <3>2
        <5> HIDE DEF n
        <5> QED BY <5>2, <5>3, <1>1, <1>2, <1>4
      <4> QED BY <4>1, <4>2
    <3>9. ASSUME t = w * Block
          PROVE  fine /\ a + (Block - n) = all
      <4>1. a + Block = all + pad /\ pad \in 1 .. Block
        BY <1>1, <1>3, <3>2, <3>9
      <4>2. n = pad
        <5>1. t = all + pad /\ pad \in 1 .. pad
          BY <1>1, <1>3, <3>9
        <5> HIDE DEF n
        <5> QED BY <5>1, <1>1, <3>5
      <4>3. ASSUME NEW k \in Block - n + 1 .. Block PROVE plain[k] = n
        <5> DEFINE p == a + k - all
        <5>1. k \in 1 .. Block /\ p \in 1 .. pad /\ all + p = a + k
          BY <4>1, <4>2, <1>2, <1>4
        <5>2. text[all + p] = pad
          <6> HIDE DEF p
          <6> QED BY <5>1, <1>1
        <5> HIDE DEF n, p
        <5> QED BY <5>1, <5>2, <3>3, <4>2
      <4> HIDE DEF n
      <4> QED BY <4>1, <4>2, <4>3, <1>2, <1>4 DEF fine, Fine, n
    <3> HIDE DEF end
    <3>10. SubSeq(message, 1, all) = message
      BY SubSeqFull DEF all
    <3>11. CASE fine
      <4> DEFINE k == Block - n
      <4>1. k \in Nat /\ k <= Block /\ a + k <= all /\ a + k \in a .. all
        <5>1. n \in 1 .. Block
          BY <3>11 DEF Fine
        <5>2. a + k <= all
          BY <5>1, <3>8
        <5> HIDE DEF n, fine
        <5> QED BY <5>1, <5>2, <1>2, <1>4
      <4>2. /\ end.status = "ok" /\ end.output = SubSeq(plain, 1, k)
            /\ end.output \in Seq(Nat) /\ Len(end.output) <= Block - 1
        <5>1. n \in 1 .. Block
          BY <3>11 DEF Fine
        <5> HIDE DEF fine, n
        <5> QED BY <5>1, <3>1, <3>7, <3>11
      <4>3. t = w * Block => a + k = all
        BY <3>9
      <4> HIDE DEF k, n, fine
      <4>4. front \o end.output = SubSeq(message, 1, a + k)
        BY <3>6, <4>1, <4>2
      <4>5. t = w * Block => front \o end.output = message
        BY <3>10, <4>3, <4>4
      <4> QED BY <4>1, <4>2, <4>4, <4>5 DEF front, end, a, context, text, w, all
    <3>12. CASE ~fine
      <4>1. end.status = "RE_KEY" /\ end.output = <<>> /\ t # w * Block
        BY <3>1, <3>9, <3>12
      <4>2. <<>> \in Seq(Nat) /\ Len(<<>>) <= Block - 1
        OBVIOUS
      <4> HIDE DEF n, fine
      <4> QED BY <4>1, <4>2 DEF front, end, a, context, text, w
    <3> QED BY <3>11, <3>12
  <2> QED BY <2>2, <2>3
<1> QED BY <1>7, <1>8

-----------------------------------------------------------------------------
(* A channel                                                               *)

\* A receiver's context is of the text so far, and stays so as the text grows.
LEMMA OpenedOfMore ==
    ASSUME Block \in Nat \ {0}, NEW text \in Seq(Nat), NEW more \in Seq(Nat),
           NEW w \in Nat, NEW v \in Nat, Has(text, w), Has(text \o more, v), w <= v,
           NEW t \in Nat, t <= w * Block
    PROVE  /\ Opened(text \o more, v, t) = Opened(text, w, t)
           /\ Cut(text \o more, 0, Out(t)) = Cut(text, 0, Out(t))
<1> DEFINE T == Seq(Seq(Nat)) \X Nat
           long == text \o more
           s == Crypt(text, 0, w)
           r == Crypt(long, 0, v)
           o == Out(t)
           a == o * Block
           b == w * Block
<1>1. long \in Seq(Nat)
  OBVIOUS
<1>2. o \in Nat /\ a \in Nat /\ a <= t /\ b \in Nat /\ t <= b
  BY OutIs, Multiples
<1>3. o <= w
  <2>1. a <= b
    <3> HIDE DEF a, b
    <3> QED BY <1>2
  <2> HIDE DEF o
  <2> QED BY <1>2, <2>1, Multiples
<1>4. Has(text, o) /\ Has(long, w)
  <2>1. Has(long, v)
    OBVIOUS
  <2> HIDE DEF o, long
  <2> QED BY <1>1, <1>2, <1>3, <2>1, HasFewer
<1>5. Chain(long, o) = Chain(text, o) /\ Cut(long, 0, o) = Cut(text, 0, o)
  <2>1. 0 \in Nat /\ 0 + o = o
    BY <1>2
  <2>2. Has(text, 0 + o)
    BY <1>4, <2>1
  <2> DEFINE S == Nat
  <2>3. text \in Seq(S) /\ more \in Seq(S)
    OBVIOUS
  <2> HIDE DEF o, S
  <2>4. Cut(text \o more, 0, o) = Cut(text, 0, o)
    BY <1>2, <2>1, <2>2, <2>3, CutOfMore
  <2>5. Chain(text \o more, o) = Chain(text, o)
    BY <1>2, <1>4, ChainOfMore
  <2> QED BY <2>4, <2>5
<1>6. r \in Seq(T) /\ Len(r) = v * Block /\ s = SubSeq(r, 0 + 1, b)
  <2>1. 0 \in Nat /\ 0 + w <= v /\ Has(long, 0 + v) /\ 0 + w = w
    OBVIOUS
  <2>2. r \in Seq(T) /\ Len(r) = v * Block
    <3> HIDE DEF long
    <3> QED BY <1>1, <2>1, CryptType
  <2>3. Cut(r, 0, w) = Crypt(long, 0, w)
    <3> HIDE DEF long
    <3> QED BY <1>1, <2>1, CryptCut
  <2>4. Crypt(long, 0, w) = s
    BY CryptOfMore
  <2>5. 0 * Block = 0
    OBVIOUS
  <2> HIDE DEF r, s
  <2> QED BY <2>1, <2>2, <2>3, <2>4, <2>5 DEF Cut
<1> HIDE DEF T
<1>7. SubSeq(s, a + 1, t) = SubSeq(r, a + 1, t)
  <2>1. b <= Len(r) /\ t <= b - 0 /\ 0 <= b /\ 0 \in Nat
    <3>1. w * Block <= v * Block
      BY Multiples
    <3> DEFINE c == v * Block
    <3>2. b <= c /\ Len(r) = c
      BY <1>6, <3>1
    <3> HIDE DEF b, c, r
    <3> QED BY <1>2, <3>2
  <2> HIDE DEF a, b, r, s
  <2>2. SubSeq(SubSeq(r, 0 + 1, b), a + 1, t) = SubSeq(r, (0 + a) + 1, 0 + t)
    BY <1>2, <1>6, <2>1, PieceOfPiece
  <2>3. 0 + a = a /\ 0 + t = t
    BY <1>2
  <2> QED BY <1>6, <2>2, <2>3
<1>8. Opened(long, v, t) = [chain |-> Chain(long, o), buffer |-> SubSeq(r, a + 1, t)]
  BY DEF Opened
<1>9. Opened(text, w, t) = [chain |-> Chain(text, o), buffer |-> SubSeq(s, a + 1, t)]
  BY DEF Opened
<1> HIDE DEF r, s, o, a, long
<1> QED BY <1>5, <1>7, <1>8, <1>9 DEF long, o

-----------------------------------------------------------------------------

Texts == Seq(Nat)
Ciphers == Seq(Seq(Seq(Nat)) \X Nat)

\* What the blocks of a message are of: the text, and its padding once it ended.
Text(k) == IF k < Len(sent) THEN Padded(sent[k]) ELSE sent[k]
Ciphered(text) == Crypt(text, 0, Whole(text))

SealInv ==
    /\ sent \in Seq(Texts) /\ Len(sent) >= 1
    /\ sealed \in Seq(Ciphers) /\ Len(sealed) = Len(sent)
    /\ seal = Held(sent[Len(sent)])
    /\ \A k \in 1 .. Len(sent) : sealed[k] = Ciphered(Text(k))

OpenInv ==
    /\ opened \in Seq(Texts) /\ Len(opened) \in 1 .. Len(sent)
    /\ broken \in BOOLEAN /\ taken \in Nat
    /\ ~broken =>
           /\ taken <= Whole(Text(Len(opened))) * Block
           /\ open = Opened(Text(Len(opened)), Whole(Text(Len(opened))), taken)
           /\ opened[Len(opened)] = Cut(Text(Len(opened)), 0, Out(taken))

LEMMA CipheredType ==
    ASSUME Block \in Nat \ {0}, NEW text \in Seq(Nat)
    PROVE  Ciphered(text) \in Ciphers /\ Len(Ciphered(text)) = Whole(text) * Block
<1> DEFINE w == Whole(text)
<1>1. w \in Nat /\ Has(text, w)
  BY WholeIs
<1>2. Has(text, 0 + w) /\ 0 \in Nat
  BY <1>1
<1> HIDE DEF w
<1>3. Crypt(text, 0, w) \in Ciphers /\ Len(Crypt(text, 0, w)) = w * Block
  BY <1>1, <1>2, CryptType DEF Ciphers
<1> QED BY <1>3 DEF w, Ciphered

\* What a sequence is after something was added to its last.
LEMMA LastExtended ==
    ASSUME NEW S, NEW s \in Seq(S), Len(s) >= 1, NEW x \in S
    PROVE  /\ Len(s) \in 1 .. Len(s)
           /\ [s EXCEPT ![Len(s)] = x] \in Seq(S)
           /\ Len([s EXCEPT ![Len(s)] = x]) = Len(s)
           /\ \A k \in 1 .. Len(s) : [s EXCEPT ![Len(s)] = x][k] = IF k = Len(s) THEN x ELSE s[k]
<1> DEFINE n == Len(s)
<1>1. n \in Nat /\ n \in 1 .. Len(s)
  BY LenProperties
<1> HIDE DEF n
<1>2. [s EXCEPT ![n] = x] \in Seq(S) /\ Len([s EXCEPT ![n] = x]) = Len(s)
      /\ \A k \in 1 .. Len(s) : [s EXCEPT ![n] = x][k] = IF k = n THEN x ELSE s[k]
  BY <1>1, ExceptSeq
<1> QED BY <1>1, <1>2 DEF n

LEMMA GiveSeals ==
    ASSUME Block \in Nat \ {0}, SealInv, NEW part \in Seq(Nat), GivePart(part)
    PROVE  /\ SealInv' /\ Len(sent') = Len(sent)
           /\ sent' = [sent EXCEPT ![Len(sent)] = sent[Len(sent)] \o part]
           /\ \A k \in 1 .. Len(sent) : \E more \in Seq(Nat) : Text(k)' = Text(k) \o more
           /\ Grows(sealed, sealed') <= Grows(sent, sent') + Block - 1
<1> DEFINE n == Len(sent)
           text == sent[n]
           more == text \o part
           i == Whole(text)
           j == Whole(more)
           out == Crypt(more, i, j - i)
<1>1. n \in Nat /\ n >= 1 /\ n \in 1 .. n /\ Len(sealed) = n
  BY LenProperties DEF SealInv
<1>2. sent \in Seq(Texts) /\ sealed \in Seq(Ciphers)
  BY DEF SealInv
<1>3. text \in Seq(Nat)
  BY <1>1, <1>2, ElementOfSeq DEF Texts
<1>4. Text(n) = text
  BY <1>1 DEF Text
<1>5. sealed[n] = Ciphered(text)
  BY <1>1, <1>4 DEF SealInv
<1>6. /\ more \in Seq(Nat) /\ Len(more) = Len(text) + Len(part) /\ i <= j
      /\ SealUpdate(Held(text), part) = Done(Held(more), out)
  <2> HIDE DEF text
  <2> QED BY <1>3, SealsText
<1>7. /\ seal' = Held(more)
      /\ sealed' = [sealed EXCEPT ![n] = sealed[n] \o out]
      /\ sent' = [sent EXCEPT ![n] = more]
  <2>1. SealUpdate(seal, part) = Done(Held(more), out)
    BY <1>6 DEF SealInv
  <2>2. /\ SealUpdate(seal, part).context = Held(more)
        /\ SealUpdate(seal, part).output = out
    <3> HIDE DEF more, out
    <3> QED BY <2>1 DEF Done
  <2>3. sealed' = [sealed EXCEPT ![n] = sealed[n] \o SealUpdate(seal, part).output]
        /\ seal' = SealUpdate(seal, part).context /\ sent' = [sent EXCEPT ![n] = sent[n] \o part]
    <3>1. sealed' = [sealed EXCEPT ![Len(sealed)] = sealed[Len(sealed)] \o SealUpdate(seal, part).output]
          /\ seal' = SealUpdate(seal, part).context
          /\ sent' = [sent EXCEPT ![Len(sent)] = sent[Len(sent)] \o part]
      BY DEF GivePart
    <3> QED BY <3>1, <1>1
  <2> QED BY <2>2, <2>3
<1>8. /\ i \in Nat /\ Has(text, i) /\ i * Block \in Nat /\ Len(text) - i * Block \in 0 .. Block - 1
      /\ j \in Nat /\ Has(more, j) /\ j * Block \in Nat /\ Len(more) - j * Block \in 0 .. Block - 1
  <2> HIDE DEF text, more
  <2> QED BY <1>3, <1>6, WholeIs
<1>9. sealed[n] \o out = Ciphered(more)
  <2>1. Crypt(more, 0, i) = Crypt(text, 0, i)
    <3> HIDE DEF text, i
    <3> QED BY <1>3, <1>8, CryptOfMore
  <2>2. j - i \in Nat /\ i + (j - i) = j
    <3> HIDE DEF i, j
    <3> QED BY <1>6, <1>8
  <2> HIDE DEF more, i, j
  <2>3. Has(more, i + (j - i))
    BY <1>8, <2>2
  <2>4. Crypt(more, 0, i) \o out = Crypt(more, 0, j)
    <3> DEFINE m == j - i
    <3> HIDE DEF m
    <3>1. Crypt(more, 0, i) \o Crypt(more, i, m) = Crypt(more, 0, i + m)
      BY <1>6, <1>8, <2>2, <2>3, CryptsJoin DEF m
    <3> QED BY <2>2, <3>1 DEF m
  <2> QED BY <2>1, <2>4, <1>5 DEF Ciphered, i, j
<1> HIDE DEF n, text, more, i, j, out
<1>10. /\ sent' \in Seq(Texts) /\ Len(sent') = n
       /\ \A k \in 1 .. n : sent'[k] = IF k = n THEN more ELSE sent[k]
  <2>1. more \in Texts
    BY <1>6 DEF Texts
  <2> QED BY <1>1, <1>2, <1>7, <2>1, LastExtended DEF n
<1>11. /\ sealed' \in Seq(Ciphers) /\ Len(sealed') = n
       /\ \A k \in 1 .. n : sealed'[k] = IF k = n THEN Ciphered(more) ELSE sealed[k]
  <2>1. Ciphered(more) \in Ciphers
    BY <1>6, CipheredType
  <2>2. sealed' = [sealed EXCEPT ![Len(sealed)] = Ciphered(more)] /\ Len(sealed) >= 1
    BY <1>1, <1>7, <1>9
  <2>3. /\ [sealed EXCEPT ![Len(sealed)] = Ciphered(more)] \in Seq(Ciphers)
        /\ Len([sealed EXCEPT ![Len(sealed)] = Ciphered(more)]) = Len(sealed)
        /\ \A k \in 1 .. Len(sealed) :
              [sealed EXCEPT ![Len(sealed)] = Ciphered(more)][k]
                  = IF k = Len(sealed) THEN Ciphered(more) ELSE sealed[k]
    BY <1>2, <2>1, <2>2, LastExtended
  <2> QED BY <1>1, <2>2, <2>3
<1>12. ASSUME NEW k \in 1 .. n
       PROVE  /\ k < n => Text(k)' = Text(k)
              /\ k = n => Text(k)' = more
  BY <1>1, <1>10 DEF Text, n
<1>13. SealInv'
  <2>1. \A k \in 1 .. n : sealed[k] = Ciphered(Text(k))
    BY DEF SealInv, n
  <2>2. ASSUME NEW k \in 1 .. n PROVE sealed'[k] = Ciphered(Text(k)')
    <3>1. CASE k < n
      BY <3>1, <1>1, <1>11, <1>12, <2>1
    <3>2. CASE k = n
      BY <3>2, <1>11, <1>12
    <3> QED BY <3>1, <3>2, <1>1
  <2>3. \A k \in 1 .. Len(sent') : sealed'[k] = Ciphered(Text(k))'
    BY <1>10, <2>2 DEF Ciphered
  <2>4. seal' = Held(sent'[Len(sent')])
    BY <1>1, <1>7, <1>10
  <2>5. sent' \in Seq(Texts) /\ Len(sent') >= 1 /\ sealed' \in Seq(Ciphers) /\ Len(sealed') = Len(sent')
    BY <1>1, <1>10, <1>11
  <2> QED BY <2>3, <2>4, <2>5 DEF SealInv
<1>14. ASSUME NEW k \in 1 .. n PROVE \E m \in Seq(Nat) : Text(k)' = Text(k) \o m
  <2>1. CASE k < n
    <3>1. Text(k) \in Seq(Nat)
      <4>1. sent[k] \in Seq(Nat)
        BY <1>2, ElementOfSeq DEF Texts, n
      <4> QED BY <4>1, PaddedIs DEF Text
    <3>2. Text(k) = Text(k) \o <<>> /\ <<>> \in Seq(Nat)
      BY <3>1, ConcatEmptySeq
    <3> QED BY <2>1, <3>2, <1>12
  <2>2. CASE k = n
    <3>1. Text(k)' = text \o part
      BY <2>2, <1>12 DEF more
    <3> QED BY <2>2, <3>1, <1>4
  <2>3. k < n \/ k = n
    BY <1>1
  <2> QED BY ONLY <2>1, <2>2, <2>3
<1>15. Grows(sealed, sealed') <= Grows(sent, sent') + Block - 1
  <2>1. Grows(sent, sent') = Len(more) - Len(text)
    BY <1>1, <1>10 DEF Grows, Last, text, n
  <2>2. Grows(sealed, sealed') = Len(Ciphered(more)) - Len(Ciphered(text))
    BY <1>1, <1>5, <1>11 DEF Grows, Last
  <2>3. Len(Ciphered(more)) = j * Block /\ Len(Ciphered(text)) = i * Block
    BY <1>3, <1>6, CipheredType DEF i, j
  <2> DEFINE x == i * Block
             y == j * Block
  <2>4. Len(more) \in Nat /\ Len(text) \in Nat
    BY <1>3, <1>6, LenProperties
  <2>5. x \in Nat /\ y \in Nat /\ Len(text) - x \in 0 .. Block - 1 /\ Len(more) - y \in 0 .. Block - 1
        /\ Grows(sealed, sealed') = y - x
    BY <1>8, <2>2, <2>3
  <2> HIDE DEF x, y
  <2> QED BY <2>1, <2>4, <2>5
<1> QED BY <1>7, <1>10, <1>13, <1>14, <1>15 DEF n, more, text

LEMMA EndSeals ==
    ASSUME Block \in Nat \ {0}, SealInv, EndSealed
    PROVE  /\ SealInv' /\ Len(sent') = Len(sent) + 1
           /\ \A k \in 1 .. Len(sent) : \E more \in Seq(Nat) : Text(k)' = Text(k) \o more
           /\ \A k \in 1 .. Len(sent) : sent'[k] = sent[k]
           /\ Grows(sealed, sealed') = Block
<1> DEFINE n == Len(sent)
           text == sent[n]
           w == Whole(text)
           all == Padded(text)
           out == Crypt(all, w, 1)
           held == [sealed EXCEPT ![n] = Ciphered(all)]
<1>1. n \in Nat /\ n >= 1 /\ n \in 1 .. n /\ Len(sealed) = n
  BY LenProperties DEF SealInv
<1>2. sent \in Seq(Texts) /\ sealed \in Seq(Ciphers)
  BY DEF SealInv
<1>3. text \in Seq(Nat)
  BY <1>1, <1>2, ElementOfSeq DEF Texts
<1>4. sealed[n] = Ciphered(text)
  <2>1. Text(n) = text
    BY <1>1 DEF Text
  <2> QED BY <1>1, <2>1 DEF SealInv
<1>5. SealFinal(seal) = Done(FreshContext, out)
  <2> HIDE DEF text
  <2>1. SealFinal(Held(text)) = Done(FreshContext, out)
    BY <1>3, EndsText
  <2> QED BY <2>1 DEF SealInv, text
<1>6. /\ seal' = FreshContext /\ sent' = Append(sent, <<>>)
      /\ sealed' = Append([sealed EXCEPT ![n] = sealed[n] \o out], <<>>)
  <2>1. SealFinal(seal).context = FreshContext /\ SealFinal(seal).output = out
    <3> HIDE DEF out
    <3> QED BY <1>5 DEF Done
  <2>2. /\ seal' = SealFinal(seal).context /\ sent' = Append(sent, <<>>)
        /\ sealed' = Append([sealed EXCEPT ![Len(sealed)]
                                 = sealed[Len(sealed)] \o SealFinal(seal).output], <<>>)
    BY DEF EndSealed
  <2> HIDE DEF out
  <2> QED BY <1>1, <2>1, <2>2
<1>7. /\ all \in Seq(Nat) /\ Whole(all) = w + 1 /\ Has(all, w + 1) /\ w \in Nat /\ Has(text, w)
  <2>1. all \in Seq(Nat) /\ Whole(all) = w + 1
    BY <1>3, PaddedIs
  <2>2. Has(all, w + 1)
    <3> DEFINE S == Nat
    <3>1. all \in Seq(S)
      BY <2>1
    <3> HIDE DEF all, S
    <3>2. Has(all, Whole(all))
      BY <3>1, WholeIs
    <3> QED BY <2>1, <3>2
  <2>3. w \in Nat /\ Has(text, w)
    <3> HIDE DEF text
    <3> QED BY <1>3, WholeIs
  <2> QED BY <2>1, <2>2, <2>3
<1>8. \E more \in Seq(Nat) : all = text \o more
  <2> DEFINE pad == [k \in 1 .. Padding(text) |-> Padding(text)]
  <2>1. Padding(text) \in Nat
    <3> HIDE DEF text
    <3>1. Padding(text) \in 1 .. Block
      BY <1>3, PaddedIs
    <3> QED BY <3>1
  <2>2. pad \in [1 .. Padding(text) -> Nat]
    BY <2>1
  <2>3. pad \in Seq(Nat)
    BY <2>1, <2>2
  <2>4. all = text \o pad
    BY DEF Padded
  <2> QED BY <2>3, <2>4
<1>9. sealed[n] \o out = Ciphered(all)
  <2>1. Crypt(all, 0, w) = Crypt(text, 0, w)
    <3>1. PICK more \in Seq(Nat) : all = text \o more
      BY <1>8
    <3> HIDE DEF all, text, w
    <3> QED BY <3>1, <1>3, <1>7, CryptOfMore
  <2>2. Crypt(all, 0, w) \o out = Crypt(all, 0, w + 1)
    <3>1. 1 \in Nat
      OBVIOUS
    <3> HIDE DEF all, w
    <3> QED BY <3>1, <1>7, CryptsJoin
  <2> HIDE DEF all, out
  <2> QED BY <2>1, <2>2, <1>4, <1>7 DEF Ciphered
<1> HIDE DEF all, text, w, out
<1>10. /\ held \in Seq(Ciphers) /\ Len(held) = n
       /\ \A k \in 1 .. n : held[k] = IF k = n THEN Ciphered(all) ELSE sealed[k]
  <2>1. Ciphered(all) \in Ciphers
    BY <1>7, CipheredType
  <2>2. Len(sealed) >= 1 /\ held = [sealed EXCEPT ![Len(sealed)] = Ciphered(all)]
    BY <1>1
  <2>3. /\ [sealed EXCEPT ![Len(sealed)] = Ciphered(all)] \in Seq(Ciphers)
        /\ Len([sealed EXCEPT ![Len(sealed)] = Ciphered(all)]) = Len(sealed)
        /\ \A k \in 1 .. Len(sealed) :
              [sealed EXCEPT ![Len(sealed)] = Ciphered(all)][k]
                  = IF k = Len(sealed) THEN Ciphered(all) ELSE sealed[k]
    BY <1>2, <2>1, <2>2, LastExtended
  <2> HIDE DEF held
  <2> QED BY <1>1, <2>2, <2>3
<1>11. sealed' = Append(held, <<>>)
  BY <1>6, <1>9
<1> HIDE DEF held
<1>12. /\ sealed' \in Seq(Ciphers) /\ Len(sealed') = n + 1
       /\ \A k \in 1 .. n : sealed'[k] = IF k = n THEN Ciphered(all) ELSE sealed[k]
       /\ sealed'[n + 1] = <<>>
  <2>1. <<>> \in Ciphers
    BY DEF Ciphers
  <2>2. /\ Append(held, <<>>) \in Seq(Ciphers) /\ Len(Append(held, <<>>)) = Len(held) + 1
        /\ \A k \in 1 .. Len(held) : Append(held, <<>>)[k] = held[k]
        /\ Append(held, <<>>)[Len(held) + 1] = <<>>
    BY <1>10, <2>1, AppendProperties
  <2> QED BY <1>10, <1>11, <2>2
<1>13. /\ sent' \in Seq(Texts) /\ Len(sent') = n + 1
       /\ \A k \in 1 .. n : sent'[k] = sent[k]
       /\ sent'[n + 1] = <<>>
  <2>1. <<>> \in Texts
    BY DEF Texts
  <2>2. /\ Append(sent, <<>>) \in Seq(Texts) /\ Len(Append(sent, <<>>)) = Len(sent) + 1
        /\ \A k \in 1 .. Len(sent) : Append(sent, <<>>)[k] = sent[k]
        /\ Append(sent, <<>>)[Len(sent) + 1] = <<>>
    BY <1>2, <2>1, AppendProperties
  <2> QED BY <1>6, <2>2 DEF n
<1>14. ASSUME NEW k \in 1 .. n + 1
       PROVE  /\ k < n => Text(k)' = Text(k)
              /\ k = n => Text(k)' = all
              /\ k = n + 1 => Text(k)' = <<>>
  BY <1>1, <1>13 DEF Text, n, all, text
<1>15. SealInv'
  <2>1. \A k \in 1 .. n : sealed[k] = Ciphered(Text(k))
    BY DEF SealInv, n
  <2>2. Held(<<>>) = FreshContext /\ Ciphered(<<>>) = <<>>
    BY FreshIsHeld DEF Ciphered
  <2>3. ASSUME NEW k \in 1 .. n + 1 PROVE sealed'[k] = Ciphered(Text(k)')
    <3>1. CASE k < n
      BY <3>1, <1>1, <1>12, <1>14, <2>1
    <3>2. CASE k = n
      BY <3>2, <1>1, <1>12, <1>14
    <3>3. CASE k = n + 1
      BY <3>3, <1>12, <1>14, <2>2
    <3>4. k < n \/ k = n \/ k = n + 1
      BY <1>1
    <3> QED BY <3>1, <3>2, <3>3, <3>4
  <2>4. \A k \in 1 .. Len(sent') : sealed'[k] = Ciphered(Text(k))'
    BY <1>13, <2>3 DEF Ciphered
  <2>5. seal' = Held(sent'[Len(sent')])
    BY <1>6, <1>13, <2>2
  <2>6. sent' \in Seq(Texts) /\ Len(sent') >= 1 /\ sealed' \in Seq(Ciphers) /\ Len(sealed') = Len(sent')
    BY <1>1, <1>12, <1>13
  <2> QED BY <2>4, <2>5, <2>6 DEF SealInv
<1>16. ASSUME NEW k \in 1 .. n PROVE \E m \in Seq(Nat) : Text(k)' = Text(k) \o m
  <2>0. k \in 1 .. n + 1
    BY <1>1
  <2>1. CASE k < n
    <3>1. Text(k) \in Seq(Nat)
      <4>1. sent[k] \in Seq(Nat)
        BY <1>2, ElementOfSeq DEF Texts, n
      <4> QED BY <4>1, PaddedIs DEF Text
    <3>2. Text(k) = Text(k) \o <<>> /\ <<>> \in Seq(Nat)
      BY <3>1, ConcatEmptySeq
    <3> QED BY <2>0, <2>1, <3>2, <1>14
  <2>2. CASE k = n
    <3>1. Text(k)' = all /\ Text(k) = text
      BY <1>1, <2>0, <2>2, <1>14 DEF Text, n, text
    <3> QED BY <3>1, <1>8
  <2>3. k < n \/ k = n
    BY <1>1
  <2> QED BY ONLY <2>1, <2>2, <2>3
<1>17. Grows(sealed, sealed') = Block
  <2>1. Grows(sealed, sealed') = Len(Ciphered(all)) - Len(Ciphered(text))
    BY <1>1, <1>4, <1>12 DEF Grows, Last
  <2>2. Len(Ciphered(all)) = (w + 1) * Block /\ Len(Ciphered(text)) = w * Block
    BY <1>3, <1>7, CipheredType DEF w
  <2>3. (w + 1) * Block = w * Block + 1 * Block /\ w * Block \in Nat
    <3>1. 1 \in Nat
      OBVIOUS
    <3> QED BY <1>7, <3>1, Multiples
  <2> QED BY <2>1, <2>2, <2>3
<1> QED BY <1>13, <1>15, <1>16, <1>17 DEF n

-----------------------------------------------------------------------------
(* The receiver                                                            *)

LEMMA TextType ==
    ASSUME Block \in Nat \ {0}, SealInv, NEW k \in 1 .. Len(sent)
    PROVE  /\ sent[k] \in Seq(Nat) /\ Text(k) \in Seq(Nat)
           /\ Whole(Text(k)) \in Nat /\ Has(Text(k), Whole(Text(k)))
           /\ sealed[k] = Crypt(Text(k), 0, Whole(Text(k)))
           /\ Len(sealed[k]) = Whole(Text(k)) * Block
<1>1. sent[k] \in Seq(Nat)
  BY ElementOfSeq DEF SealInv, Texts
<1>2. Text(k) \in Seq(Nat)
  BY <1>1, PaddedIs DEF Text
<1>3. Whole(Text(k)) \in Nat /\ Has(Text(k), Whole(Text(k)))
  BY <1>2, WholeIs
<1>4. sealed[k] = Ciphered(Text(k))
  BY DEF SealInv
<1>5. Len(Ciphered(Text(k))) = Whole(Text(k)) * Block
  BY <1>2, CipheredType
<1> QED BY <1>1, <1>2, <1>3, <1>4, <1>5 DEF Ciphered

\* What is deciphered of a message is a beginning of the message, although the
\* padding is enciphered with it.
LEMMA FrontOfMessage ==
    ASSUME Block \in Nat \ {0}, NEW message \in Seq(Nat), NEW text,
           text = message \/ text = Padded(message), NEW u \in Nat, u <= Whole(text) * Block
    PROVE  /\ Out(u) * Block \in Nat /\ Out(u) * Block <= Len(message)
           /\ Cut(text, 0, Out(u)) = SubSeq(message, 1, Out(u) * Block)
           /\ Cut(text, 0, Out(u)) \in Seq(Nat)
           /\ Len(Cut(text, 0, Out(u))) = Out(u) * Block
<1> DEFINE o == Out(u)
           a == o * Block
           v == Whole(message)
           w == Whole(text)
<1>1. o \in Nat /\ a \in Nat /\ a <= u /\ (u = 0 => o = 0) /\ (u # 0 => u - a \in 1 .. Block)
  BY OutIs
<1>2. v \in Nat /\ Has(message, v)
  BY WholeIs
<1>3. w = v \/ w = v + 1
  BY PaddedIs
<1>4. o <= v
  <2>1. CASE u = 0
    <3> HIDE DEF o, v
    <3> QED BY <2>1, <1>1, <1>2
  <2>2. CASE u # 0
    <3>1. w * Block \in Nat /\ (v + 1) * Block \in Nat /\ w * Block <= (v + 1) * Block /\ w \in Nat
      <4>1. w \in Nat /\ v + 1 \in Nat /\ w <= v + 1
        <5> HIDE DEF w, v
        <5> QED BY <1>2, <1>3
      <4> HIDE DEF w, v
      <4> QED BY <4>1, Multiples
    <3>2. a < (v + 1) * Block
      <4> DEFINE x == w * Block
                 y == (v + 1) * Block
      <4>1. u <= x
        OBVIOUS
      <4>2. x \in Nat /\ y \in Nat /\ x <= y
        BY <3>1
      <4> HIDE DEF a, x, y
      <4>3. a < y
        BY <1>1, <2>2, <4>1, <4>2
      <4> QED BY <4>3 DEF y
    <3>3. ~(v + 1 <= o)
      <4>1. v + 1 \in Nat
        BY <1>2
      <4> HIDE DEF o, v
      <4>2. v + 1 <= o <=> (v + 1) * Block <= o * Block
        BY <1>1, <4>1, Multiples
      <4> DEFINE y == (v + 1) * Block
                 x == o * Block
      <4>3. x < y /\ x \in Nat /\ y \in Nat
        BY <1>1, <3>1, <3>2
      <4>4. v + 1 <= o <=> y <= x
        BY <4>2
      <4> HIDE DEF x, y
      <4> QED BY <4>3, <4>4
    <3> HIDE DEF o, v
    <3> QED BY <3>3, <1>1, <1>2
  <2> QED BY <2>1, <2>2
<1>5. Has(message, 0 + o) /\ 0 \in Nat /\ 0 + o = o
  <2> HIDE DEF o, v
  <2> QED BY <1>1, <1>2, <1>4, HasFewer
<1>6. a <= Len(message)
  BY <1>5 DEF Has
<1>7. Cut(message, 0, o) = SubSeq(message, 1, a)
  <2>1. 0 * Block + 1 = 1
    OBVIOUS
  <2> QED BY <2>1, <1>5 DEF Cut
<1>8. Cut(text, 0, o) = Cut(message, 0, o)
  <2>1. CASE text = message
    BY <2>1
  <2>2. CASE text = Padded(message)
    <3> DEFINE pad == [k \in 1 .. Padding(message) |-> Padding(message)]
               S == Nat
    <3>1. Padding(message) \in 1 .. Block
      BY PaddedIs
    <3>2. pad \in Seq(S)
      <4>1. Padding(message) \in Nat
        BY <3>1
      <4>2. pad \in [1 .. Padding(message) -> Nat]
        BY <4>1
      <4> QED BY <4>1, <4>2
    <3>3. text = message \o pad
      BY <2>2 DEF Padded
    <3>4. message \in Seq(S)
      OBVIOUS
    <3> HIDE DEF pad, o, S
    <3>5. Cut(message \o pad, 0, o) = Cut(message, 0, o)
      BY <1>1, <1>5, <3>2, <3>4, CutOfMore
    <3> QED BY <3>3, <3>5
  <2> QED BY <2>1, <2>2
<1>9. Cut(message, 0, o) \in Seq(Nat) /\ Len(Cut(message, 0, o)) = a
  <2> DEFINE S == Nat
  <2>1. message \in Seq(S)
    OBVIOUS
  <2> HIDE DEF S, o
  <2>2. Cut(message, 0, o) \in Seq(S) /\ Len(Cut(message, 0, o)) = o * Block
    BY <1>1, <1>5, <2>1, CutType
  <2> QED BY <2>2 DEF S
<1> QED BY <1>1, <1>6, <1>7, <1>8, <1>9

LEMMA TextIsMessage ==
    ASSUME NEW k \in 1 .. Len(sent)
    PROVE  Text(k) = sent[k] \/ Text(k) = Padded(sent[k])
BY DEF Text

\* What the sender does changes nothing for the receiver.
LEMMA SenderKeepsOpen ==
    ASSUME Block \in Nat \ {0}, SealInv, SealInv', OpenInv, UNCHANGED receiver,
           Len(sent') = Len(sent) \/ Len(sent') = Len(sent) + 1,
           \A k \in 1 .. Len(sent) : \E more \in Seq(Nat) : Text(k)' = Text(k) \o more
    PROVE  OpenInv'
<1> DEFINE g == Len(opened)
           text == Text(g)
           w == Whole(text)
           next == Text(g)'
           v == Whole(next)
<1>1. /\ opened' = opened /\ open' = open /\ taken' = taken /\ broken' = broken
      /\ opened \in Seq(Texts) /\ broken \in BOOLEAN /\ taken \in Nat
      /\ g \in 1 .. Len(sent) /\ g \in 1 .. Len(sent')
  <2>1. Len(sent) \in Nat
    BY LenProperties DEF SealInv
  <2> QED BY <2>1 DEF OpenInv, receiver
<1>2. SUFFICES ASSUME ~broken
               PROVE  /\ taken <= v * Block /\ open = Opened(next, v, taken)
                      /\ opened[g] = Cut(next, 0, Out(taken))
  <2>1. /\ opened' \in Seq(Texts) /\ Len(opened') \in 1 .. Len(sent')
        /\ broken' \in BOOLEAN /\ taken' \in Nat
    BY <1>1
  <2>2. Text(Len(opened))' = next
    BY <1>1
  <2>3. ~broken' =>
           /\ taken' <= Whole(Text(Len(opened)))' * Block
           /\ open' = Opened(Text(Len(opened)), Whole(Text(Len(opened))), taken)'
           /\ opened'[Len(opened')] = Cut(Text(Len(opened)), 0, Out(taken))'
    BY <1>1, <1>2, <2>2 DEF Out, Cut, Opened, Whole
  <2> QED BY <2>1, <2>3 DEF OpenInv
<1>3. /\ taken <= w * Block /\ open = Opened(text, w, taken) /\ opened[g] = Cut(text, 0, Out(taken))
  BY <1>2 DEF OpenInv
<1>4. text \in Seq(Nat) /\ w \in Nat /\ Has(text, w)
  BY <1>1, TextType
<1>5. PICK more \in Seq(Nat) : next = text \o more
  BY <1>1
<1> HIDE DEF g, text, w, next, v
<1>6. next \in Seq(Nat) /\ Len(next) = Len(text) + Len(more) /\ Len(text) \in Nat /\ Len(more) \in Nat
  BY <1>4, <1>5, ConcatProperties, LenProperties
<1>7. v \in Nat /\ Has(next, v) /\ (Has(next, w) => w <= v)
  BY <1>4, <1>6, WholeIs DEF v
<1>8. Has(next, w)
  <2>1. w * Block \in Nat
    BY <1>4, Multiples
  <2> QED BY <2>1, <1>4, <1>6 DEF Has
<1>9. Opened(text \o more, v, taken) = Opened(text, w, taken)
      /\ Cut(text \o more, 0, Out(taken)) = Cut(text, 0, Out(taken))
  BY <1>1, <1>3, <1>4, <1>5, <1>7, <1>8, OpenedOfMore
<1>10. taken <= v * Block
  <2>1. w * Block <= v * Block /\ w * Block \in Nat /\ v * Block \in Nat
    BY <1>4, <1>7, <1>8, Multiples
  <2> QED BY <2>1, <1>1, <1>3
<1> QED BY <1>3, <1>5, <1>9, <1>10

LEMMA TakeOpens ==
    ASSUME Block \in Nat \ {0}, SealInv, OpenInv, ~broken, NEW n \in Nat, TakePart(n)
    PROVE  /\ OpenInv' /\ Len(opened') = Len(opened)
           /\ \E k \in Len(opened[Len(opened)]) .. Len(sent[Len(opened)]) :
                  opened' = [opened EXCEPT ![Len(opened)] = SubSeq(sent[Len(opened)], 1, k)]
           /\ Grows(opened, opened') <= Block - 1 + n
<1> DEFINE g == Len(opened)
           text == Text(g)
           w == Whole(text)
           t == taken
           u == t + n
           message == sent[g]
           one == Cut(text, 0, Out(t))
           more == Cut(text, Out(t), Out(u) - Out(t))
           two == Cut(text, 0, Out(u))
<1>1. /\ opened \in Seq(Texts) /\ g \in 1 .. Len(sent) /\ g >= 1 /\ t \in Nat /\ u \in Nat
      /\ t <= w * Block /\ open = Opened(text, w, t) /\ opened[g] = one
  BY DEF OpenInv
<1>2. /\ message \in Seq(Nat) /\ text \in Seq(Nat) /\ w \in Nat /\ Has(text, w)
      /\ sealed[g] = Crypt(text, 0, w) /\ Len(sealed[g]) = w * Block
  BY <1>1, TextType
<1>3. /\ broken' = broken /\ sent' = sent /\ sealed' = sealed /\ taken' = u
      /\ open' = OpenUpdate(open, SubSeq(sealed[g], t + 1, u)).context
      /\ opened' = [opened EXCEPT ![g] = opened[g] \o OpenUpdate(open, SubSeq(sealed[g], t + 1, u)).output]
      /\ u <= Len(sealed[g])
  BY DEF TakePart, OfMessage, sender
<1>4. u <= w * Block
  BY <1>2, <1>3
<1>5. /\ Out(t) <= Out(u) /\ Out(u) <= w
      /\ OpenUpdate(open, SubSeq(sealed[g], t + 1, u)) = Done(Opened(text, w, u), more)
  <2> HIDE DEF text, w, t
  <2>1. /\ Out(t) <= Out(t + n) /\ Out(t + n) <= w
        /\ OpenUpdate(Opened(text, w, t), SubSeq(Crypt(text, 0, w), t + 1, t + n))
               = Done(Opened(text, w, t + n), Cut(text, Out(t), Out(t + n) - Out(t)))
    <3>1. /\ Block \in Nat \ {0} /\ text \in Seq(Nat) /\ w \in Nat /\ Has(text, w)
          /\ t \in Nat /\ n \in Nat /\ t + n <= w * Block
      BY <1>1, <1>2, <1>4
    <3> QED BY ONLY <3>1, OpensText
  <2> QED BY <2>1, <1>1, <1>2
<1>6. one \o more = two
  <2> DEFINE S == Nat
             i == Out(t)
             j == Out(u)
             m == j - i
  <2>1. i \in Nat /\ j \in Nat
    BY <1>1, OutIs
  <2>2. i <= j /\ j <= w
    BY <1>5
  <2> HIDE DEF i, j
  <2>3. m \in Nat /\ i + m = j
    BY <2>1, <2>2
  <2> HIDE DEF m, text, w, S
  <2>4. text \in Seq(S)
    BY <1>2 DEF S
  <2>5. Has(text, i + m)
    BY <1>2, <2>1, <2>2, <2>3, <2>4, HasFewer
  <2>6. Cut(text, 0, i) \o Cut(text, i, m) = Cut(text, 0, i + m)
    BY <2>1, <2>3, <2>4, <2>5, CutsJoin
  <2> QED BY <2>3, <2>6 DEF i, j, m
<1>7. /\ open' = Opened(text, w, u) /\ opened' = [opened EXCEPT ![g] = two]
  <2>1. /\ OpenUpdate(open, SubSeq(sealed[g], t + 1, u)).context = Opened(text, w, u)
        /\ OpenUpdate(open, SubSeq(sealed[g], t + 1, u)).output = more
    <3> HIDE DEF more, text, w, u, t, g
    <3> QED BY <1>5 DEF Done
  <2> HIDE DEF more, two, one, text, w, u, t
  <2> QED BY <2>1, <1>1, <1>3, <1>6
<1>8. text = message \/ text = Padded(message)
  BY <1>1, TextIsMessage
<1>9. /\ Out(u) * Block \in Nat /\ Out(u) * Block <= Len(message)
      /\ two = SubSeq(message, 1, Out(u) * Block) /\ two \in Seq(Nat) /\ Len(two) = Out(u) * Block
  <2> HIDE DEF message, text, u
  <2> QED BY <1>1, <1>2, <1>4, <1>8, FrontOfMessage DEF w
<1>10. Out(t) * Block \in Nat /\ Len(one) = Out(t) * Block
  <2> HIDE DEF message, text, t
  <2> QED BY <1>1, <1>2, <1>8, FrontOfMessage DEF w
<1>11. Out(t) * Block <= Out(u) * Block /\ Out(u) * Block - Out(t) * Block <= n + Block - 1
  <2>1. Out(t) \in Nat /\ Out(u) \in Nat
    BY <1>1, OutIs
  <2>2. Out(t) * Block <= Out(u) * Block
    BY <2>1, <1>5, Multiples
  <2>3. (Out(t + n) - Out(t)) * Block <= n + Block - 1
    BY <1>1, OutGrows
  <2> DEFINE i == Out(t)
             j == Out(u)
             m == j - i
  <2>4. m \in Nat /\ i + m = j
    <3> HIDE DEF i, j
    <3> QED BY <2>1, <1>5 DEF i, j
  <2>5. (i + m) * Block = i * Block + m * Block /\ m * Block \in Nat /\ i * Block \in Nat
    <3> HIDE DEF i, j, m
    <3> QED BY <2>1, <2>4, Multiples DEF i
  <2>6. m * Block <= n + Block - 1
    BY <2>3
  <2> DEFINE x == i * Block
             y == j * Block
             z == m * Block
  <2>7. y = x + z /\ x \in Nat /\ z \in Nat /\ z <= n + Block - 1
    BY <2>4, <2>5, <2>6
  <2> HIDE DEF x, y, z
  <2>8. y - x <= n + Block - 1
    BY <2>7
  <2> QED BY <2>2, <2>8 DEF x, y, i, j
<1> HIDE DEF text, w, t, u, message, one, two, g
<1>12. /\ opened' \in Seq(Texts) /\ Len(opened') = g
       /\ opened'[g] = two
  <2>1. two \in Texts
    BY <1>9 DEF Texts
  <2> QED BY <1>1, <1>7, <2>1, LastExtended DEF g
<1>13. OpenInv'
  <2>1. Text(Len(opened))' = text
    BY <1>3, <1>12 DEF Text, text
  <2>2. Whole(Text(Len(opened)))' = w
    BY <2>1 DEF w, Whole
  <2>3. Opened(Text(Len(opened)), Whole(Text(Len(opened))), taken)' = Opened(text, w, u)
    <3>1. Opened(Text(Len(opened)), Whole(Text(Len(opened))), taken)'
              = Opened(Text(Len(opened))', Whole(Text(Len(opened)))', taken')
      BY DEF Opened
    <3> QED BY <3>1, <2>1, <2>2, <1>3
  <2>4. Cut(Text(Len(opened)), 0, Out(taken))' = two
    <3>1. Cut(Text(Len(opened)), 0, Out(taken))' = Cut(Text(Len(opened))', 0, Out(taken'))
      BY DEF Cut, Out
    <3> QED BY <3>1, <2>1, <1>3 DEF two
  <2>5. taken' <= Whole(Text(Len(opened)))' * Block
    BY <2>2, <1>3, <1>4
  <2> QED BY <1>1, <1>3, <1>7, <1>12, <2>3, <2>4, <2>5 DEF OpenInv
<1>14. \E k \in Len(opened[g]) .. Len(message) : opened' = [opened EXCEPT ![g] = SubSeq(message, 1, k)]
  <2> DEFINE k == Out(u) * Block
  <2>1. k \in Nat /\ k <= Len(message) /\ Len(message) \in Nat /\ Len(opened[g]) \in Nat /\ Len(opened[g]) <= k
    BY <1>1, <1>2, <1>9, <1>10, <1>11, LenProperties
  <2>2. opened' = [opened EXCEPT ![g] = SubSeq(message, 1, k)]
    BY <1>7, <1>9
  <2> HIDE DEF k
  <2>3. k \in Len(opened[g]) .. Len(message)
    BY <2>1
  <2> QED BY <2>2, <2>3
<1>15. Grows(opened, opened') <= Block - 1 + n
  <2>1. Grows(opened, opened') = Len(two) - Len(one)
    BY <1>1, <1>12 DEF Grows, Last, g
  <2> DEFINE x == Out(t) * Block
             y == Out(u) * Block
  <2>2. Grows(opened, opened') = y - x /\ x \in Nat /\ y \in Nat /\ y - x <= n + Block - 1
    BY <2>1, <1>9, <1>10, <1>11
  <2> HIDE DEF x, y
  <2> QED BY <2>2
<1> QED BY <1>12, <1>13, <1>14, <1>15 DEF g, message

-----------------------------------------------------------------------------
(* Every step of an envelope                                               *)

LEMMA FreshIsOpened ==
    ASSUME Block \in Nat \ {0}, NEW text, NEW w
    PROVE  Opened(text, w, 0) = FreshContext /\ Cut(text, 0, Out(0)) = <<>>
<1>1. Out(0) = 0
  BY DEF Out
<1>2. Out(0) * Block + 1 = 1 /\ 0 * Block + 1 = 1 /\ (0 + Out(0)) * Block = 0
  BY <1>1
<1>3. Chain(text, 0) = <<>>
  BY DEF Chain
<1>4. Cut(text, 0, Out(0)) = <<>>
  BY <1>2, SubSeqEmpty DEF Cut
<1>5. SubSeq(Crypt(text, 0, w), Out(0) * Block + 1, 0) = <<>>
  BY <1>2, SubSeqEmpty
<1> QED BY <1>1, <1>3, <1>4, <1>5 DEF Opened, FreshContext

LEMMA FinishOpens ==
    ASSUME Block \in Nat \ {0}, SealInv, OpenInv, ~broken, Finish
    PROVE  /\ OpenInv' /\ Len(opened') = Len(opened) + 1 /\ Len(opened) < Len(sent)
           /\ \/ /\ broken' = FALSE
                 /\ \E k \in Len(opened[Len(opened)]) .. Len(sent[Len(opened)]) :
                        opened' = Append([opened EXCEPT ![Len(opened)]
                                              = SubSeq(sent[Len(opened)], 1, k)], <<>>)
              \/ broken' = TRUE /\ opened' = Append(opened, <<>>)
           /\ (taken = Len(sealed[Len(opened)]) /\ ~broken')
                  => opened'[Len(opened)] = sent[Len(opened)]
           /\ Grows(opened, opened') <= Block - 1
<1> DEFINE g == Len(opened)
           text == Text(g)
           w == Whole(text)
           message == sent[g]
           one == opened[g]
           end == OpenFinal(open)
           two == one \o end.output
           held == [opened EXCEPT ![g] = two]
<1>1. /\ opened \in Seq(Texts) /\ g \in 1 .. Len(sent) /\ g >= 1 /\ taken \in Nat
      /\ taken <= w * Block /\ open = Opened(text, w, taken) /\ one = Cut(text, 0, Out(taken))
      /\ broken = FALSE
  BY DEF OpenInv
<1>2. /\ message \in Seq(Nat) /\ text \in Seq(Nat) /\ w \in Nat /\ Len(sealed[g]) = w * Block
  BY <1>1, TextType
<1>3. /\ sent' = sent /\ sealed' = sealed /\ taken' = 0 /\ open' = end.context
      /\ opened' = Append(held, <<>>) /\ broken' = (broken \/ end.status # "ok")
      /\ g < Len(sealed)
  BY DEF Finish, sender, Ended
<1>4. g < Len(sent) /\ text = Padded(message) /\ Len(sent) \in Nat
  <2>1. g < Len(sent)
    BY <1>3 DEF SealInv
  <2> QED BY <2>1, LenProperties DEF Text, SealInv
<1>5. /\ end.output \in Seq(Nat) /\ Len(end.output) <= Block - 1
      /\ end.status = "ok" =>
             \E k \in Out(taken) * Block .. Len(message) : two = SubSeq(message, 1, k)
      /\ end.status # "ok" => end.output = <<>>
      /\ taken = w * Block => end.status = "ok" /\ two = message
  <2> HIDE DEF message, g
  <2>1. taken <= Whole(Padded(message)) * Block /\ taken \in Nat
    BY <1>1, <1>4
  <2>2. LET padded == Padded(message)
            last == OpenFinal(Opened(padded, Whole(padded), taken))
            front == Cut(padded, 0, Out(taken))
        IN /\ last.output \in Seq(Nat) /\ Len(last.output) <= Block - 1
           /\ last.status = "ok" =>
                  \E k \in Out(taken) * Block .. Len(message) :
                      front \o last.output = SubSeq(message, 1, k)
           /\ last.status # "ok" => last.output = <<>>
           /\ taken = Whole(padded) * Block
                  => last.status = "ok" /\ front \o last.output = message
    BY <1>2, <2>1, EndsOpened
  <2> QED BY <2>2, <1>1, <1>4
<1>6. end.status = "ok" => end.context = FreshContext
  BY DEF OpenFinal, Restarted
<1>7. one \in Seq(Nat) /\ Len(one) = Out(taken) * Block
  <2> HIDE DEF message, g, text, one
  <2> QED BY <1>1, <1>2, <1>4, FrontOfMessage DEF w
<1> HIDE DEF end, text, w, message, one, two
<1>8. two \in Seq(Nat) /\ Len(two) = Len(one) + Len(end.output)
  BY <1>5, <1>7, ConcatProperties DEF two
<1>9. held \in Seq(Texts) /\ Len(held) = g /\ held[g] = two
  <2>1. two \in Texts
    BY <1>8 DEF Texts
  <2> QED BY <1>1, <2>1, LastExtended
<1> HIDE DEF held, g
<1>10. /\ opened' \in Seq(Texts) /\ Len(opened') = g + 1 /\ opened'[g] = two /\ opened'[g + 1] = <<>>
  <2>1. <<>> \in Texts
    BY DEF Texts
  <2>2. /\ Append(held, <<>>) \in Seq(Texts) /\ Len(Append(held, <<>>)) = Len(held) + 1
        /\ \A k \in 1 .. Len(held) : Append(held, <<>>)[k] = held[k]
        /\ Append(held, <<>>)[Len(held) + 1] = <<>>
    BY <1>9, <2>1, AppendProperties
  <2>3. g \in 1 .. g
    BY <1>1
  <2> QED BY <1>3, <1>9, <2>2, <2>3
<1>11. OpenInv'
  <2>1. g + 1 \in 1 .. Len(sent) /\ Len(opened') = g + 1
    BY <1>1, <1>4, <1>10
  <2>2. ASSUME ~broken'
        PROVE  /\ taken' <= Whole(Text(Len(opened)))' * Block
               /\ open' = Opened(Text(Len(opened)), Whole(Text(Len(opened))), taken)'
               /\ opened'[Len(opened')] = Cut(Text(Len(opened)), 0, Out(taken))'
    <3> DEFINE next == Text(Len(opened))'
    <3>1. next = Text(g + 1)
      BY <2>1, <1>3 DEF Text
    <3>2. Whole(next) \in Nat
      BY <2>1, <3>1, TextType
    <3>3. Whole(next) * Block \in Nat
      BY <3>2, Multiples
    <3>4. open' = FreshContext
      BY <2>2, <1>3, <1>6
    <3>5. Opened(next, Whole(next), 0) = FreshContext /\ Cut(next, 0, Out(0)) = <<>>
      BY FreshIsOpened
    <3>6. Opened(Text(Len(opened)), Whole(Text(Len(opened))), taken)' = Opened(next, Whole(next), taken')
      BY DEF Opened, Whole
    <3>7. Cut(Text(Len(opened)), 0, Out(taken))' = Cut(next, 0, Out(taken'))
      BY DEF Cut, Out
    <3>8. Whole(Text(Len(opened)))' = Whole(next)
      BY DEF Whole
    <3> HIDE DEF next
    <3>9. taken' <= Whole(Text(Len(opened)))' * Block
      <4> DEFINE x == Whole(next) * Block
      <4>1. x \in Nat
        BY <3>3
      <4> HIDE DEF x
      <4>2. 0 <= x
        BY <4>1
      <4> QED BY <4>2, <3>8, <1>3 DEF x
    <3> QED BY <3>4, <3>5, <3>6, <3>7, <3>9, <1>3, <1>10, <2>1
  <2>3. broken' \in BOOLEAN
    BY <1>3
  <2> QED BY <1>3, <1>10, <2>1, <2>2, <2>3 DEF OpenInv
<1>12. ASSUME end.status = "ok"
       PROVE  /\ broken' = FALSE
              /\ \E k \in Len(opened[Len(opened)]) .. Len(sent[Len(opened)]) :
                     opened' = Append([opened EXCEPT ![Len(opened)]
                                           = SubSeq(sent[Len(opened)], 1, k)], <<>>)
  <2>1. broken' = FALSE
    BY <1>1, <1>3, <1>12
  <2>2. \E k \in Len(one) .. Len(message) : opened' = Append([opened EXCEPT ![g] = SubSeq(message, 1, k)], <<>>)
    BY <1>3, <1>5, <1>7, <1>12 DEF held
  <2> QED BY <2>1, <2>2 DEF one, message, g
<1>13. ASSUME end.status # "ok"
       PROVE  broken' = TRUE /\ opened' = Append(opened, <<>>)
  <2>1. broken' = TRUE
    BY <1>3, <1>13
  <2>2. two = one
    BY <1>5, <1>7, <1>13, ConcatEmptySeq DEF two
  <2>3. held = opened
    BY <1>1, <2>2 DEF held, one
  <2> QED BY <1>3, <2>1, <2>3
<1>14. Grows(opened, opened') <= Block - 1
  <2>1. Grows(opened, opened') = Len(two) - Len(one)
    BY <1>10 DEF Grows, Last, g, one
  <2>2. Len(one) \in Nat /\ Len(end.output) \in Nat
    BY <1>5, <1>7, LenProperties
  <2> QED BY <2>1, <2>2, <1>5, <1>8
<1>15. (taken = Len(sealed[g]) /\ ~broken') => opened'[g] = message
  BY <1>2, <1>5, <1>10
<1> QED BY <1>4, <1>10, <1>11, <1>12, <1>13, <1>14, <1>15 DEF g, message

-----------------------------------------------------------------------------

LEMMA PartIsText ==
    ASSUME NEW B, B \subseteq Nat, NEW m \in Nat, NEW n \in Nat,
           NEW part \in BoundedSeq(B, m), Len(part) <= n
    PROVE  part \in Seq(Nat) /\ part \in BoundedSeq(B, n)
<1>1. PICK k \in 0 .. m : part \in [1 .. k -> B]
  BY DEF BoundedSeq, SeqOf
<1>2. k \in Nat /\ part \in Seq(Nat) /\ Len(part) = k
  <2>1. k \in Nat
    BY <1>1
  <2>2. part \in [1 .. k -> Nat]
    BY <1>1
  <2> QED BY <2>1, <2>2
<1>3. k \in 0 .. n
  BY <1>2
<1> QED BY <1>1, <1>2, <1>3 DEF BoundedSeq, SeqOf

LEMMA EnvelopeStep ==
    ASSUME EnvelopeConstants, ~GoesOn, SealInv, OpenInv, [EnvelopeNext]_envelopeVars
    PROVE  /\ SealInv' /\ OpenInv'
           /\ [Channel!ChannelNext]_(Channel!channelVars)
           /\ [\A k \in DOMAIN opened :
                  (/\ k < Len(opened') /\ k = Len(opened)
                   /\ taken = Len(sealed[k]) /\ ~broken') => opened'[k] = sent[k]]_envelopeVars
           /\ [/\ IF Len(sent') > Len(sent) THEN Grows(sealed, sealed') = Block
                  ELSE Grows(sealed, sealed') <= Grows(sent, sent') + Block - 1
               /\ Grows(opened, opened') <= Block - 1 + (IF taken' > taken THEN taken' - taken ELSE 0)]_envelopeVars
<1>1. Block \in Nat \ {0} /\ Byte \subseteq Nat /\ MaxPart \in Nat /\ MaxMessage \in Nat
      /\ MaxMessages \in Nat
  BY DEF EnvelopeConstants
<1>2. /\ sent \in Seq(Texts) /\ opened \in Seq(Texts) /\ Len(sent) \in Nat /\ Len(opened) \in Nat
      /\ Len(opened) \in 1 .. Len(sent) /\ taken \in Nat /\ sealed \in Seq(Ciphers)
      /\ DOMAIN opened = 1 .. Len(opened) /\ Len(sealed) = Len(sent)
  BY LenProperties DEF SealInv, OpenInv
<1>3. Grows(opened, opened) = 0 /\ Grows(sealed, sealed) = 0 /\ Grows(sent, sent) = 0
  <2>1. Len(sent) \in 1 .. Len(sent)
    BY <1>2 DEF SealInv
  <2>2. Len(opened[Len(opened)]) \in Nat /\ Len(sealed[Len(sealed)]) \in Nat /\ Len(sent[Len(sent)]) \in Nat
    <3>1. opened[Len(opened)] \in Seq(Nat) /\ sent[Len(sent)] \in Seq(Nat)
      BY <1>2, <2>1, ElementOfSeq DEF Texts
    <3>2. sealed[Len(sealed)] \in Seq(Seq(Seq(Nat)) \X Nat)
      BY <1>2, <2>1, ElementOfSeq DEF Ciphers
    <3> QED BY <3>1, <3>2, LenProperties
  <2> QED BY <2>2 DEF Grows, Last
<1>4. ASSUME NEW part \in BoundedSeq(Byte, MaxPart), GivePart(part)
      PROVE  /\ SealInv' /\ OpenInv' /\ Channel!ChannelNext
             /\ Len(opened') = Len(opened) /\ Len(sent') = Len(sent)
             /\ Grows(sealed, sealed') <= Grows(sent, sent') + Block - 1
             /\ Grows(opened, opened') = 0 /\ taken' = taken
  <2>1. Len(Last(sent)) + Len(part) <= MaxMessage /\ UNCHANGED receiver
    BY <1>4 DEF GivePart
  <2>2. part \in Seq(Nat) /\ Len(part) \in Nat
    <3>1. PICK k \in 0 .. MaxPart : part \in [1 .. k -> Byte]
      BY DEF BoundedSeq, SeqOf
    <3>2. k \in Nat
      BY <1>1, <3>1
    <3>3. part \in [1 .. k -> Nat]
      BY <1>1, <3>1
    <3> QED BY <3>2, <3>3
  <2>3. Last(sent) \in Seq(Nat)
    <3>1. Len(sent) \in 1 .. Len(sent)
      BY <1>2 DEF SealInv
    <3> QED BY <3>1, <1>2, ElementOfSeq DEF Texts, Last
  <2>4. part \in BoundedSeq(Byte, MaxMessage)
    <3>1. Len(part) <= MaxMessage
      BY <1>1, <2>1, <2>2, <2>3, LenProperties
    <3> QED BY <1>1, <3>1, PartIsText
  <2>5. /\ SealInv' /\ Len(sent') = Len(sent)
        /\ sent' = [sent EXCEPT ![Len(sent)] = sent[Len(sent)] \o part]
        /\ \A k \in 1 .. Len(sent) : \E more \in Seq(Nat) : Text(k)' = Text(k) \o more
        /\ Grows(sealed, sealed') <= Grows(sent, sent') + Block - 1
    BY <1>1, <1>4, <2>2, GiveSeals
  <2>6. OpenInv'
    BY <1>1, <2>1, <2>5, SenderKeepsOpen
  <2>7. opened' = opened /\ broken' = broken /\ taken' = taken
    BY <2>1 DEF receiver
  <2>8. Len(Last(sent')) <= MaxMessage
    <3>1. Last(sent') = Last(sent) \o part
      <4>1. Len(sent) >= 1 /\ sent[Len(sent)] \o part \in Texts
        BY <2>2, <2>3 DEF SealInv, Texts, Last
      <4>2. sent'[Len(sent)] = sent[Len(sent)] \o part
        BY <4>1, <1>2, <2>5, LastExtended
      <4> QED BY <4>2, <2>5 DEF Last
    <3>2. Len(Last(sent) \o part) = Len(Last(sent)) + Len(part)
      BY <2>2, <2>3, ConcatProperties
    <3> QED BY <3>1, <3>2, <2>1
  <2>9. Channel!Give(part)
    BY <2>5, <2>7, <2>8 DEF Channel!Give, Last, Channel!Last
  <2>10. Channel!ChannelNext
    BY <2>4, <2>9 DEF Channel!ChannelNext, BoundedSeq, SeqOf, Channel!BoundedSeq, Channel!SeqOf
  <2> QED BY <1>3, <2>5, <2>6, <2>7, <2>10
<1>5. ASSUME EndSealed
      PROVE  /\ SealInv' /\ OpenInv' /\ Channel!ChannelNext
             /\ Len(opened') = Len(opened) /\ Len(sent') = Len(sent) + 1
             /\ Grows(sealed, sealed') = Block
             /\ Grows(opened, opened') = 0 /\ taken' = taken
  <2>1. Len(sent) <= MaxMessages /\ sent' = Append(sent, <<>>) /\ UNCHANGED receiver
    BY <1>5 DEF EndSealed, Sealing
  <2>2. /\ SealInv' /\ Len(sent') = Len(sent) + 1
        /\ \A k \in 1 .. Len(sent) : \E more \in Seq(Nat) : Text(k)' = Text(k) \o more
        /\ Grows(sealed, sealed') = Block
    BY <1>1, <1>5, EndSeals
  <2>3. OpenInv'
    BY <1>1, <2>1, <2>2, SenderKeepsOpen
  <2>4. opened' = opened /\ broken' = broken /\ taken' = taken
    BY <2>1 DEF receiver
  <2>5. Channel!End
    BY <2>1, <2>4 DEF Channel!End
  <2> QED BY <1>3, <2>2, <2>3, <2>4, <2>5 DEF Channel!ChannelNext
<1>6. ASSUME NEW n \in 0 .. Block + 1, TakePart(n)
      PROVE  /\ SealInv' /\ OpenInv' /\ Channel!ChannelNext
             /\ Len(opened') = Len(opened) /\ sent' = sent /\ sealed' = sealed
             /\ Grows(opened, opened') <= Block - 1 + n /\ taken' = taken + n
  <2>1. ~broken /\ sent' = sent /\ sealed' = sealed /\ seal' = seal /\ broken' = broken
        /\ taken' = taken + n
    BY <1>6 DEF TakePart, Opening, sender
  <2>2. n \in Nat
    BY <1>1
  <2>3. /\ OpenInv' /\ Len(opened') = Len(opened)
        /\ \E k \in Len(opened[Len(opened)]) .. Len(sent[Len(opened)]) :
               opened' = [opened EXCEPT ![Len(opened)] = SubSeq(sent[Len(opened)], 1, k)]
        /\ Grows(opened, opened') <= Block - 1 + n
    BY <1>1, <1>6, <2>1, <2>2, TakeOpens
  <2>4. Channel!Recover
    BY <2>1, <2>3 DEF Channel!Recover, Channel!Extended, Channel!Current, Last, Channel!Last
  <2>5. SealInv'
    BY <2>1 DEF SealInv, Text
  <2> QED BY <2>1, <2>3, <2>4, <2>5 DEF Channel!ChannelNext
<1>7. ASSUME Finish
      PROVE  /\ SealInv' /\ OpenInv' /\ Channel!ChannelNext
             /\ Len(opened') = Len(opened) + 1 /\ sent' = sent /\ sealed' = sealed
             /\ Grows(opened, opened') <= Block - 1 /\ taken' = 0
             /\ (taken = Len(sealed[Len(opened)]) /\ ~broken')
                    => opened'[Len(opened)] = sent[Len(opened)]
  <2>1. ~broken /\ sent' = sent /\ sealed' = sealed /\ seal' = seal /\ taken' = 0
    BY <1>7 DEF Finish, Opening, sender
  <2>2. /\ OpenInv' /\ Len(opened') = Len(opened) + 1 /\ Len(opened) < Len(sent)
        /\ \/ /\ broken' = FALSE
              /\ \E k \in Len(opened[Len(opened)]) .. Len(sent[Len(opened)]) :
                     opened' = Append([opened EXCEPT ![Len(opened)]
                                           = SubSeq(sent[Len(opened)], 1, k)], <<>>)
           \/ broken' = TRUE /\ opened' = Append(opened, <<>>)
        /\ (taken = Len(sealed[Len(opened)]) /\ ~broken')
               => opened'[Len(opened)] = sent[Len(opened)]
        /\ Grows(opened, opened') <= Block - 1
    BY <1>1, <1>7, <2>1, FinishOpens
  <2>3. broken = FALSE
    BY <2>1 DEF OpenInv
  <2>4. Len(opened') <= Len(sent)
    BY <1>2, <2>2
  <2>5. Channel!FinishCut \/ Channel!Report
    BY <2>1, <2>2, <2>3, <2>4
       DEF Channel!FinishCut, Channel!Report, Channel!Extended, Channel!Current, Last, Channel!Last
  <2>6. SealInv'
    BY <2>1 DEF SealInv, Text
  <2> QED BY <2>1, <2>2, <2>5, <2>6 DEF Channel!ChannelNext
<1>8. ASSUME UNCHANGED envelopeVars
      PROVE  SealInv' /\ OpenInv' /\ UNCHANGED (Channel!channelVars)
  <2>1. /\ seal' = seal /\ open' = open /\ sealed' = sealed /\ taken' = taken
        /\ sent' = sent /\ opened' = opened /\ broken' = broken
    BY <1>8 DEF envelopeVars
  <2> QED BY <2>1 DEF SealInv, OpenInv, Text, Opened, Whole, Cut, Out, Channel!channelVars
<1>9. CASE \E part \in BoundedSeq(Byte, MaxPart) : GivePart(part)
  BY <1>1, <1>2, <1>4, <1>9
<1>10. CASE EndSealed
  BY <1>1, <1>2, <1>5, <1>10
<1>11. CASE \E n \in 0 .. Block + 1 : TakePart(n)
  BY <1>1, <1>2, <1>3, <1>6, <1>11
<1>12. CASE Finish
  BY <1>1, <1>2, <1>3, <1>7, <1>12
<1>13. CASE UNCHANGED envelopeVars
  BY <1>8, <1>13
<1> QED BY <1>9, <1>10, <1>11, <1>12, <1>13 DEF EnvelopeNext

\* R_SealUpdate to R_OpenFinal are a channel of whole messages (r_enhanc.c): in
\* whatever parts a message is sealed and opened, and wherever it is cut off,
\* what is recovered of it is a beginning of it, all of it when it came whole and
\* no error is returned; and the output of every call fits the buffer that the
\* comments ask for.  For a receiver that stops at an error.
THEOREM SealingIsChannel ==
    ASSUME EnvelopeConstants, ~GoesOn
    PROVE  EnvelopeSpec => SealsAreChannel
<1>1. EnvelopeInit => SealInv /\ OpenInv /\ Channel!ChannelInit
  <2> SUFFICES ASSUME EnvelopeInit PROVE SealInv /\ OpenInv /\ Channel!ChannelInit
    OBVIOUS
  <2>1. Block \in Nat \ {0}
    BY DEF EnvelopeConstants
  <2>2. /\ seal = FreshContext /\ open = FreshContext /\ sealed = <<<<>>>> /\ taken = 0
        /\ sent = <<<<>>>> /\ opened = <<<<>>>> /\ broken = FALSE
    BY DEF EnvelopeInit
  <2>3. Text(1) = <<>>
    BY <2>2 DEF Text
  <2>4. /\ Held(<<>>) = FreshContext /\ Ciphered(<<>>) = <<>> /\ Whole(<<>>) * Block = 0
    BY <2>1, FreshIsHeld DEF Ciphered
  <2>5. Opened(<<>>, Whole(<<>>), 0) = FreshContext /\ Cut(<<>>, 0, Out(0)) = <<>>
    BY <2>1, FreshIsOpened
  <2>6. <<<<>>>> \in Seq(Texts) /\ <<<<>>>> \in Seq(Ciphers) /\ Len(<<<<>>>>) = 1
    BY DEF Texts, Ciphers
  <2>7. SealInv
    BY <2>2, <2>3, <2>4, <2>6 DEF SealInv
  <2>8. OpenInv
    <3>1. Len(opened) = 1 /\ opened[1] = <<>> /\ Len(sent) = 1
      BY <2>2
    <3>2. /\ opened \in Seq(Texts) /\ Len(opened) \in 1 .. Len(sent)
          /\ broken \in BOOLEAN /\ taken \in Nat
      <4>1. opened \in Seq(Texts)
        BY <2>2, <2>6
      <4>2. Len(opened) \in 1 .. Len(sent)
        BY <3>1
      <4>3. broken \in BOOLEAN /\ taken \in Nat
        BY <2>2
      <4> QED BY <4>1, <4>2, <4>3
    <3>3. Text(Len(opened)) = <<>>
      BY <2>3, <3>1
    <3>4. taken <= Whole(Text(Len(opened))) * Block
      <4>1. Whole(Text(Len(opened))) * Block = 0
        BY <2>4, <3>3
      <4> QED BY <2>2, <4>1
    <3>5. open = Opened(Text(Len(opened)), Whole(Text(Len(opened))), taken)
      BY <2>2, <2>5, <3>3
    <3>6. opened[Len(opened)] = Cut(Text(Len(opened)), 0, Out(taken))
      BY <2>2, <2>5, <3>1, <3>3
    <3> QED BY <3>2, <3>4, <3>5, <3>6 DEF OpenInv
  <2> QED BY <2>2, <2>7, <2>8 DEF Channel!ChannelInit
<1>2. EnvelopeSpec => [](SealInv /\ OpenInv)
  <2>1. SealInv /\ OpenInv /\ [EnvelopeNext]_envelopeVars => SealInv' /\ OpenInv'
    BY EnvelopeStep
  <2> QED BY <1>1, <2>1, PTL DEF EnvelopeSpec
<1>3. EnvelopeSpec => Channel!ChannelSpec
  <2>1. SealInv /\ OpenInv /\ [EnvelopeNext]_envelopeVars
            => [Channel!ChannelNext]_(Channel!channelVars)
    BY EnvelopeStep
  <2> QED BY <1>1, <1>2, <2>1, PTL DEF EnvelopeSpec, Channel!ChannelSpec
<1>4. EnvelopeSpec => WholeMessages
  <2>1. SealInv /\ OpenInv /\ [EnvelopeNext]_envelopeVars
            => [\A k \in DOMAIN opened :
                   (/\ k < Len(opened') /\ k = Len(opened)
                    /\ taken = Len(sealed[k]) /\ ~broken') => opened'[k] = sent[k]]_envelopeVars
    BY EnvelopeStep
  <2> QED BY <1>2, <2>1, PTL DEF EnvelopeSpec, WholeMessages
<1>5. EnvelopeSpec => OutputFits
  <2>1. SealInv /\ OpenInv /\ [EnvelopeNext]_envelopeVars
            => [/\ IF Len(sent') > Len(sent) THEN Grows(sealed, sealed') = Block
                   ELSE Grows(sealed, sealed') <= Grows(sent, sent') + Block - 1
                /\ Grows(opened, opened') <= Block - 1 + (IF taken' > taken THEN taken' - taken ELSE 0)]_envelopeVars
    BY EnvelopeStep
  <2> QED BY <1>2, <2>1, PTL DEF EnvelopeSpec, OutputFits
<1> QED BY <1>3, <1>4, <1>5 DEF SealsAreChannel
=============================================================================
