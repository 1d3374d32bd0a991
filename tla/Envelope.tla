------------------------------- MODULE Envelope -------------------------------
(***************************************************************************)
(* Sealing and opening messages of any length in parts of any length, with *)
(* one context on each side for message after message (soft/rsaref,        *)
(* R_SealUpdate to R_OpenFinal).  What is sealed is read while more is      *)
(* sealed, may be cut off, and comes in parts of other lengths.            *)
(***************************************************************************)
EXTENDS CipherContext

CONSTANTS
    Byte,           \* bound: the bytes of messages
    MaxPart,        \* bound: the bytes of a part
    MaxMessage,     \* bound: the bytes of a message
    MaxMessages,    \* bound: the messages of a context
    GoesOn          \* whether the receiver goes on after an error

EnvelopeConstants ==
    /\ Block \in Nat \ {0} /\ Byte \subseteq Nat
    /\ MaxPart \in Nat /\ MaxMessage \in Nat /\ MaxMessages \in Nat
    /\ GoesOn \in BOOLEAN

VARIABLES
    seal,           \* the sender's R_ENVELOPE_CTX
    open,           \* the receiver's
    sealed,         \* sealed[k]: what was sealed of message k
    taken,          \* what the receiver took of the message it is at
    sent, opened,   \* history: the messages, as given and as recovered
    broken          \* R_OpenFinal has returned an error

envelopeVars == <<seal, open, sealed, taken, sent, opened, broken>>
sender == <<seal, sealed, sent>>
receiver == <<open, taken, opened, broken>>

Ended(k) == k < Len(sealed)
Sealing == Len(sent) <= MaxMessages
Opening == Len(opened) <= MaxMessages /\ (broken => GoesOn)
OfMessage == sealed[Len(opened)]

GivePart(part) ==
    LET done == SealUpdate(seal, part) IN
    /\ Sealing /\ Len(Last(sent)) + Len(part) <= MaxMessage
    /\ seal' = done.context
    /\ sealed' = [sealed EXCEPT ![Len(sealed)] = @ \o done.output]
    /\ sent' = [sent EXCEPT ![Len(sent)] = @ \o part]
    /\ UNCHANGED receiver

EndSealed ==
    LET done == SealFinal(seal) IN
    /\ Sealing
    /\ seal' = done.context
    /\ sealed' = Append([sealed EXCEPT ![Len(sealed)] = @ \o done.output], <<>>)
    /\ sent' = Append(sent, <<>>)
    /\ UNCHANGED receiver

TakePart(n) ==
    LET done == OpenUpdate(open, SubSeq(OfMessage, taken + 1, taken + n)) IN
    /\ Opening
    /\ Len(opened) <= Len(sealed) /\ taken + n <= Len(OfMessage)
    /\ open' = done.context
    /\ taken' = taken + n
    /\ opened' = [opened EXCEPT ![Len(opened)] = @ \o done.output]
    /\ UNCHANGED <<sender, broken>>

\* What the receiver takes for the end of the message: it is, or what came of
\* the message was cut off there, by a read error say.
Finish ==
    LET done == OpenFinal(open) IN
    /\ Opening
    /\ Ended(Len(opened))
    /\ open' = done.context
    /\ taken' = 0
    /\ opened' = Append([opened EXCEPT ![Len(opened)] = @ \o done.output], <<>>)
    /\ broken' = (broken \/ done.status # "ok")
    /\ UNCHANGED sender

EnvelopeInit ==
    /\ seal = FreshContext
    /\ open = FreshContext
    /\ sealed = <<<<>>>>
    /\ taken = 0
    /\ sent = <<<<>>>>
    /\ opened = <<<<>>>>
    /\ broken = FALSE

EnvelopeNext ==
    \/ \E part \in BoundedSeq(Byte, MaxPart) : GivePart(part)
    \/ EndSealed
    \/ \E n \in 0 .. Block + 1 : TakePart(n)
    \/ Finish

EnvelopeSpec == EnvelopeInit /\ [][EnvelopeNext]_envelopeVars

-----------------------------------------------------------------------------
(* Properties                                                              *)

EnvelopeTypeOK ==
    /\ Len(seal.buffer) < Block /\ Len(open.buffer) <= Block
    /\ Len(sent) = Len(sealed) /\ Len(opened) <= Len(sent)
    /\ taken \in Nat

\* On its way through blocks, chaining, buffers and padding, a message stays
\* what it is.
Channel == INSTANCE SealedChannel WITH got <- opened

\* A message that is opened to its end without an error is the message sent.
WholeMessages ==
    [][\A k \in DOMAIN opened :
           (/\ k < Len(opened') /\ k = Len(opened)
            /\ taken = Len(sealed[k]) /\ ~broken') => opened'[k] = sent[k]]_envelopeVars

\* What a call adds to the message it is about.
Grows(now, next) == Len(next[Len(now)]) - Len(Last(now))

\* Room for the input of a call and Block - 1 bytes more is enough for what
\* comes out of it; the end of a message needs a block, or less to open it.
OutputFits ==
    [][/\ IF Len(sent') > Len(sent) THEN Grows(sealed, sealed') = Block
          ELSE Grows(sealed, sealed') <= Grows(sent, sent') + Block - 1
       /\ Grows(opened, opened') <= Block - 1 + (IF taken' > taken THEN taken' - taken ELSE 0)]_envelopeVars

\* R_SealUpdate to R_OpenFinal are a channel of whole messages, whose output
\* fits the buffers that the comments ask for.
SealsAreChannel == Channel!ChannelSpec /\ WholeMessages /\ OutputFits
=============================================================================
