------------------------------- MODULE PemBlocks -------------------------------
(***************************************************************************)
(* Signing and sealing a content in one call, and verifying and opening it *)
(* (soft/rsaref, R_SignPEMBlock to R_OpenPEMBlock): what is sealed goes    *)
(* through a buffer of one part, and is encoded part by part.              *)
(*                                                                         *)
(* The encoding is symbolic: a text is its quanta, each standing for the   *)
(* one to three bytes in its four characters, <<>> for one with characters *)
(* that are none of the encoding, and the characters over.                 *)
(***************************************************************************)
EXTENDS CipherContext

CONSTANTS
    SignatureLen,   \* the bytes of a signature
    MaxSignature,   \* the characters there may be of a sealed signature
    MaxContent      \* bound: the bytes of a content

PemConstants ==
    /\ Block > 3            \* less than a part is encoded to less than a part
    /\ SignatureLen \in Nat /\ MaxSignature \in Nat /\ MaxContent \in Nat

Part == 3 * Block                   \* 24: the size of encryptedPart
TextPart == 4 * Block               \* 32: the characters of a part

\* Contents whose ends look like padding.
Contents == {[i \in 1 .. n |-> b] : n \in 0 .. MaxContent, b \in {1, 2}}

SignatureOf(content) ==
    [i \in 1 .. SignatureLen |->
        100 * i + 2 * Len(content) + (IF content = <<>> THEN 0 ELSE content[1] - 1)]

-----------------------------------------------------------------------------
(* Texts                                                                   *)

Text(quanta, over) == [quanta |-> quanta, over |-> over]
Chars(t) == 4 * Len(t.quanta) + t.over

EncodePEMBlock(bytes) ==
    [q \in 1 .. (Len(bytes) + 2) \div 3 |->
        SubSeq(bytes, 3 * q - 2, IF 3 * q < Len(bytes) THEN 3 * q ELSE Len(bytes))]

DecodePEMBlock(t) ==
    IF \/ t.over # 0
       \/ \E q \in DOMAIN t.quanta :
             t.quanta[q] = <<>> \/ (q < Len(t.quanta) /\ Len(t.quanta[q]) < 3)
    THEN [status |-> "RE_ENCODING", block |-> <<>>]
    ELSE [status |-> "ok", block |-> FlattenSeq(t.quanta)]

\* The characters of part i of a text, and those after the first i parts.
TextOf(t, i) == Text(SubSeq(t.quanta, (i - 1) * Block + 1, i * Block), 0)
TextAfter(t, i) == Text(SubSeq(t.quanta, i * Block + 1, Len(t.quanta)), t.over)

-----------------------------------------------------------------------------
(* Parts                                                                   *)

\* encryptedPart, before it is written and after its first bytes are.
Unwritten == [i \in 1 .. Part |-> <<<<<<Garbled>>>>, 0>>]
Write(bytes, buffer) == bytes \o SubSeq(buffer, Len(bytes) + 1, Part)

\* Mutant: a last part is whole, as a last quantum is.
WholePartsLess(n) == IF n = 0 THEN 0 ELSE (n - 1) \div Part

WholeParts(n) == n \div Part

EncryptPEMUpdateFinal(context, input) ==
    LET whole == WholeParts(Len(input))
        Piece(i) == SubSeq(input, (i - 1) * Part + 1, i * Part)
        Sealed(s, i) ==
            LET update == SealUpdate(s.context, Piece(i))
                buffer == Write(update.output, s.buffer)
            IN [context |-> update.context, buffer |-> buffer,
                quanta |-> s.quanta \o EncodePEMBlock(buffer)]
        parts == FoldLeft(Sealed, [context |-> context, buffer |-> Unwritten, quanta |-> <<>>],
                          [i \in 1 .. whole |-> i])
        update == SealUpdate(parts.context, SubSeq(input, whole * Part + 1, Len(input)))
        final == SealFinal(update.context)
        last == update.output \o final.output
    IN [context |-> final.context, last |-> Len(last),
        text |-> Text(parts.quanta \o EncodePEMBlock(last), 0)]

\* Mutant: the whole buffer.
LastPartBuffer(block, buffer) == Write(block, buffer)

LastPart(block, buffer) == block

\* "status" is first assigned in the loop over the whole parts, and read after
\* it: a text of less than a part is opened or refused by what the stack held.
Junk == {"ok", "RE_ENCODING", "none of the toolkit's"}

DecryptPEMUpdateFinal(context, t, junk) ==
    LET whole == Chars(t) \div TextPart
        Opened(s, i) ==
            LET decoded == DecodePEMBlock(TextOf(t, i))
                buffer == Write(decoded.block, s.buffer)
                update == OpenUpdate(s.context, buffer)
            IN IF i > 1 /\ s.status # "ok" THEN s
               ELSE IF decoded.status # "ok" THEN [s EXCEPT !.status = decoded.status]
               ELSE [context |-> update.context, buffer |-> buffer, status |-> "ok",
                     output |-> s.output \o update.output]
        parts == FoldLeft(Opened, [context |-> context, buffer |-> Unwritten,
                                   status |-> junk, output |-> <<>>],
                          [i \in 1 .. whole |-> i])
        decoded == DecodePEMBlock(TextAfter(t, whole))
        update == OpenUpdate(parts.context, LastPart(decoded.block, parts.buffer))
        final == OpenFinal(update.context)
        Left(context1, status, output) ==
            [context |-> context1, status |-> status, output |-> output]
    IN IF parts.status # "ok" THEN Left(parts.context, parts.status, parts.output)
       ELSE IF decoded.status # "ok" THEN Left(parts.context, decoded.status, parts.output)
       ELSE Left(final.context, final.status, parts.output \o update.output \o final.output)

-----------------------------------------------------------------------------
(* A content, its mail and what is read of it                              *)

VARIABLES
    content,        \* what was signed or sealed
    mail,           \* [kind, recode, key, content, signature], or <<>>
    damaged,        \* something happened to the mail
    read            \* [status, content], or <<>>

vars == <<content, mail, damaged, read>>

Init ==
    /\ content \in Contents
    /\ mail = <<>>
    /\ damaged = FALSE
    /\ read = <<>>

SealPEMBlock ==
    LET sealed == EncryptPEMUpdateFinal(FreshContext, content)
        signature == EncryptPEMUpdateFinal(sealed.context, SignatureOf(content))
    IN /\ mail = <<>>
       /\ mail' = [kind |-> "sealed", recode |-> TRUE, key |-> "readable",
                   content |-> sealed.text, signature |-> signature.text]
       /\ UNCHANGED <<content, damaged, read>>

\* Without recoding the content goes as it is.
SignPEMBlock(recode) ==
    /\ mail = <<>>
    /\ mail' = [kind |-> "signed", recode |-> recode, key |-> "none",
                content |-> IF recode THEN Text(EncodePEMBlock(content), 0) ELSE content,
                signature |-> Text(EncodePEMBlock(SignatureOf(content)), 0)]
    /\ UNCHANGED <<content, damaged, read>>

\* What can become of a text: cut anywhere, or quanta spoilt or exchanged.
Cut(t) == {Text(SubSeq(t.quanta, 1, n), over) : n \in 0 .. Len(t.quanta) - 1, over \in 0 .. 3}
Spoilt(t) == {[t EXCEPT !.quanta[q] = <<>>] : q \in DOMAIN t.quanta}
Exchanged(t) ==
    {[t EXCEPT !.quanta[q] = t.quanta[r], !.quanta[r] = t.quanta[q]] :
        q \in DOMAIN t.quanta, r \in DOMAIN t.quanta}

DamageText ==
    /\ mail # <<>> /\ read = <<>> /\ ~damaged /\ mail.recode
    /\ \/ \E t \in Cut(mail.content) \cup Spoilt(mail.content) \cup Exchanged(mail.content) :
            mail' = [mail EXCEPT !.content = t]
       \/ \E t \in Cut(mail.signature) \cup Spoilt(mail.signature)
                       \cup Exchanged(mail.signature) :
            mail' = [mail EXCEPT !.signature = t]
       \/ mail' = [mail EXCEPT !.content = mail.signature, !.signature = mail.content]
    /\ damaged' = TRUE
    /\ UNCHANGED <<content, read>>

DamageKey ==
    /\ mail # <<>> /\ read = <<>> /\ ~damaged /\ mail.kind = "sealed"
    /\ \E key \in {"spoilt", "another's"} : mail' = [mail EXCEPT !.key = key]
    /\ damaged' = TRUE
    /\ UNCHANGED <<content, read>>

\* Mutant: a signature of the signer's, whatever of.
VerifyBlockSignatureOnly(bytes, signature) ==
    IF \E c \in Contents : signature = SignatureOf(c) THEN "ok" ELSE "RE_SIGNATURE"

\* The signature holds for a content that the signer signed.
VerifyBlockSignature(bytes, signature) ==
    IF \E c \in Contents : bytes = c /\ signature = SignatureOf(c) THEN "ok" ELSE "RE_SIGNATURE"

\* What the caller of R_OpenPEMBlock is told of an error in a text.
OpenStatus(status, encoding) == IF status = "RE_ENCODING" THEN encoding ELSE "RE_KEY"

Opened(junk, junk2) ==
    LET first == DecryptPEMUpdateFinal(FreshContext, mail.content, junk)
        second == DecryptPEMUpdateFinal(first.context, mail.signature, junk2)
    IN IF Chars(mail.signature) > MaxSignature THEN [status |-> "RE_SIGNATURE_ENCODING"]
       ELSE IF mail.key = "spoilt" THEN [status |-> "RE_KEY_ENCODING"]
       ELSE IF mail.key = "another's" THEN [status |-> "RE_PRIVATE_KEY"]
       ELSE IF first.status # "ok"
            THEN [status |-> OpenStatus(first.status, "RE_CONTENT_ENCODING")]
       ELSE IF second.status # "ok"
            THEN [status |-> OpenStatus(second.status, "RE_SIGNATURE_ENCODING")]
       ELSE [status |-> VerifyBlockSignature(first.output, second.output),
             content |-> first.output]

OpenPEMBlock ==
    /\ mail # <<>> /\ mail.kind = "sealed" /\ read = <<>>
    /\ \E junk, junk2 \in Junk : read' = Opened(junk, junk2)
    /\ UNCHANGED <<content, mail, damaged>>

VerifyPEMSignature ==
    LET decoded == DecodePEMBlock(mail.content)
        signature == DecodePEMBlock(mail.signature)
        bytes == IF mail.recode THEN decoded.block ELSE mail.content
    IN /\ mail # <<>> /\ mail.kind = "signed" /\ read = <<>>
       /\ read' = IF Chars(mail.signature) > MaxSignature
                  THEN [status |-> "RE_SIGNATURE_ENCODING"]
                  ELSE IF mail.recode /\ decoded.status # "ok"
                  THEN [status |-> "RE_CONTENT_ENCODING"]
                  ELSE IF signature.status # "ok" THEN [status |-> "RE_SIGNATURE_ENCODING"]
                  ELSE [status |-> VerifyBlockSignature(bytes, signature.block),
                        content |-> bytes]
       /\ UNCHANGED <<content, mail, damaged>>

Next ==
    \/ SealPEMBlock
    \/ \E recode \in BOOLEAN : SignPEMBlock(recode)
    \/ DamageText \/ DamageKey
    \/ OpenPEMBlock \/ VerifyPEMSignature

Spec == Init /\ [][Next]_vars

-----------------------------------------------------------------------------
(* Properties                                                              *)

\* R_OpenPEMBlock, R_VerifyPEMSignature: what is read without an error is what
\* was signed, whatever happened to the mail.
Authentic == (read # <<>> /\ read.status = "ok") => read.content = content

\* "Its operation is the inverse of R_SealPEMBlock": what comes as it was sealed
\* or signed is read.  This is not so of a sealed content of less than a part:
\* the unset status of DecryptPEMUpdateFinal may refuse it (r_enhanc.c:899, 920), as
\* one that is not encoded, or that another key has sealed.
ReadAsWritten ==
    (read # <<>> /\ ~damaged) =>
        \/ read.status = "ok"
        \/ /\ mail.kind = "sealed" /\ Chars(mail.content) < TextPart
           /\ read.status \in {"RE_CONTENT_ENCODING", "RE_KEY"}

\* R_SealPEMBlock: the last part fits encryptedPart, and no text is longer than
\* the caller's buffers, ENCRYPTED_CONTENT_LEN of the content.
TextsFit ==
    (mail # <<>> /\ mail.kind = "sealed" /\ ~damaged) =>
        /\ EncryptPEMUpdateFinal(FreshContext, content).last <= Part
        /\ Chars(mail.content) <= (4 * (Len(content) + Block)) \div 3 + 3
        /\ Chars(mail.signature) <= MaxSignature

\* R_OpenPEMBlock: what is recovered fits DECRYPTED_CONTENT_LEN of the text,
\* also of one that was damaged and of one that is then refused.
ContentsFit ==
    (mail # <<>> /\ mail.kind = "sealed") =>
        Len(DecryptPEMUpdateFinal(FreshContext, mail.content, "ok").output)
            <= (3 * Chars(mail.content)) \div 4
=============================================================================
