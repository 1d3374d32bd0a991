------------------------------ MODULE MCToolkit ------------------------------
(***************************************************************************)
(* For TLC: the toolkit of soft/rsaref.  A behaviour is one of             *)
(* CipherChannel ("cipher"), of DigestContext ("md5" or "md2"), of         *)
(* Envelope ("envelope"), of PemEncoding ("encoding"), of PemBlocks        *)
(* ("blocks") or of PkcsBlocks ("pkcs"); the other parts stay as they      *)
(* start.                                                                  *)
(***************************************************************************)
EXTENDS CipherChannel, Envelope, FiniteSets

CONSTANT Parts

-----------------------------------------------------------------------------
(* CipherChannel: tables that are not linear, two blocks                   *)

\* Four bits of every word belong to a table, as in the code.
MCSp(n, six) ==
    {i \in {n - 1, n + 7, n + 15, n + 23} :
        Cardinality(six \cap {(i + n) % 6, i \div 8}) = 2 <=> (n + i) % 6 \notin six}

Pattern(m) == {i \in Places : (i \div m) % 2 = 1}
MCInput == {<<Pattern(1), Pattern(3)>>, <<{}, Pattern(5)>>}
MCIVs == {<<Pattern(2), Pattern(7)>>}
MCKeyTriple == {<<{l \in 0 .. 63 : (l \div 3) % 2 = 1}, {l \in 0 .. 63 : (l \div 5) % 2 = 1},
                  {l \in 0 .. 63 : ((l * l) \div 7) % 2 = 0}>>}

VARIABLES
    part,
    md5, md5Length, md5Messages, md5Ended,              \* of DigestContext
    md2, md2Length, md2Messages, md2Ended,
    block, text,                                        \* of PemEncoding
    content, mail, damaged, read,                       \* of PemBlocks
    with, input, padded, result                         \* of PkcsBlocks

md5Vars == <<md5, md5Length, md5Messages, md5Ended>>
md2Vars == <<md2, md2Length, md2Messages, md2Ended>>
textVars == <<block, text>>
mailVars == <<content, mail, damaged, read>>
pkcsVars == <<with, input, padded, result>>

\* Blocks of four bytes, and a counter of two words of five bits, which carries
\* at the fourth byte.  MD5 is used as R_SignFinal and R_VerifyFinal do when they
\* succeed; MD2, whose context starts from zeros, in any way.
MD5 == INSTANCE DigestContext WITH
    Algorithm <- "MD5", Calls <- {"sign", "verify"}, Block <- 4, WordBits <- 5,
    MaxPart <- 9, MaxMessage <- 18, MaxMessages <- 2,
    context <- md5, length <- md5Length, messages <- md5Messages, ended <- md5Ended
MD2 == INSTANCE DigestContext WITH
    Algorithm <- "MD2",
    Calls <- {"digest", "sign", "verify", "signFails", "verifyFails"},
    Block <- 4, WordBits <- 5, MaxPart <- 9, MaxMessage <- 18, MaxMessages <- 2,
    context <- md2, length <- md2Length, messages <- md2Messages, ended <- md2Ended

\* Blocks of up to seven bytes, texts of up to two quanta.
Printable == INSTANCE PemEncoding WITH
    Byte <- {0, 77, 255}, Char <- {65, 47, 61, 10}, MaxBlock <- 7, MaxText <- 8

\* Parts of three blocks of four bytes, contents of up to two parts and a block.
Mail == INSTANCE PemBlocks WITH
    Block <- 4, SignatureLen <- 9, MaxSignature <- 20, MaxContent <- 25

Padded == INSTANCE PkcsBlocks WITH
    Byte <- {0, 1, 2, 3}, FF <- 3, ModulusLen <- 7, MinPad <- 2, block <- padded

ASSUME DigestAssumption == MD5!DigestConstants /\ MD2!DigestConstants
ASSUME EnvelopeAssumption == EnvelopeConstants
ASSUME PemAssumption == Printable!EncodingConstants /\ Mail!PemConstants
ASSUME PkcsAssumption == Padded!BytesFit /\ Padded!LengthsFit

-----------------------------------------------------------------------------

\* The initial states of the parts that have several are pinned if they rest.
ToolkitInit ==
    /\ part \in Parts
    /\ Init /\ (part # "cipher" => enc.algorithm = "des")
    /\ MD5!Init /\ MD2!Init
    /\ EnvelopeInit
    /\ Printable!Init
    /\ Mail!Init /\ (part # "blocks" => content = <<>>)
    /\ Padded!Init /\ (part # "pkcs" => with = "public")

Enciphers ==
    /\ part = "cipher" /\ Next
    /\ UNCHANGED <<part, md5Vars, md2Vars, envelopeVars, textVars, mailVars, pkcsVars>>
DigestsMD5 ==
    /\ part = "md5" /\ MD5!Next
    /\ UNCHANGED <<part, vars, md2Vars, envelopeVars, textVars, mailVars, pkcsVars>>
DigestsMD2 ==
    /\ part = "md2" /\ MD2!Next
    /\ UNCHANGED <<part, vars, md5Vars, envelopeVars, textVars, mailVars, pkcsVars>>
Seals ==
    /\ part = "envelope" /\ EnvelopeNext
    /\ UNCHANGED <<part, vars, md5Vars, md2Vars, textVars, mailVars, pkcsVars>>
Encodes ==
    /\ part = "encoding" /\ Printable!Next
    /\ UNCHANGED <<part, vars, md5Vars, md2Vars, envelopeVars, mailVars, pkcsVars>>
Mails ==
    /\ part = "blocks" /\ Mail!Next
    /\ UNCHANGED <<part, vars, md5Vars, md2Vars, envelopeVars, textVars, pkcsVars>>
Pads ==
    /\ part = "pkcs" /\ Padded!Next
    /\ UNCHANGED <<part, vars, md5Vars, md2Vars, envelopeVars, textVars, mailVars>>

ToolkitNext ==
    Enciphers \/ DigestsMD5 \/ DigestsMD2 \/ Seals \/ Encodes \/ Mails \/ Pads
allVars == <<part, vars, md5Vars, md2Vars, envelopeVars, textVars, mailVars, pkcsVars>>
ToolkitSpec == ToolkitInit /\ [][ToolkitNext]_allVars

-----------------------------------------------------------------------------

\* A digest is that of the message's bytes, however they came in parts and
\* whatever its context served before; the buffer holds what is over.
DigestsExact ==
    /\ part = "md5" => MD5!DigestsMessage /\ MD5!BufferHoldsRest
    /\ part = "md2" => MD2!DigestsMessage /\ MD2!BufferHoldsRest

\* Encoding keeps every bit, is undone by decoding, and can be done in parts; a
\* padded block is accepted only if it was made of what it is taken for.  What is
\* read of a mail without an error is what was signed or sealed; what comes
\* undamaged is read, sealed contents of less than a part excepted, which an
\* unset status may refuse; and all of it fits the callers' buffers.
MailsAuthentic ==
    /\ part = "encoding" =>
          /\ Printable!TypeOK /\ Printable!EncodesBits /\ Printable!DecodesBack
          /\ Printable!PartsJoin /\ Printable!LengthsFit
    /\ part = "pkcs" => Padded!TypeOK /\ Padded!AcceptsOnlyMade /\ Padded!GivesBack
    /\ part = "blocks" =>
          Mail!Authentic /\ Mail!ReadAsWritten /\ Mail!TextsFit /\ Mail!ContentsFit
=============================================================================
