---------------------------- MODULE SealedChannel ----------------------------
(***************************************************************************)
(* What sealing and opening messages promises: a sender gives one message  *)
(* after another, and a receiver recovers them in that order.  What it has *)
(* of a message is a beginning of it, and it is the whole message when it  *)
(* ends as the sender ended it.  A message may be cut off: then a          *)
(* beginning of it is all there is, or an error.                           *)
(***************************************************************************)
EXTENDS Integers, SequencesExt

CONSTANTS Byte, MaxMessage, MaxMessages

VARIABLES
    sent,           \* the messages so far, the last one not ended
    got,            \* what was recovered of them, the last not ended
    broken          \* an error was reported

channelVars == <<sent, got, broken>>

Current == sent[Len(got)]
Extended(to) == [got EXCEPT ![Len(got)] = to]

ChannelInit == sent = <<<<>>>> /\ got = <<<<>>>> /\ broken = FALSE

Give(part) ==
    /\ sent' = [sent EXCEPT ![Len(sent)] = @ \o part]
    /\ Len(Last(sent')) <= MaxMessage
    /\ UNCHANGED <<got, broken>>

End ==
    /\ Len(sent) <= MaxMessages
    /\ sent' = Append(sent, <<>>)
    /\ UNCHANGED <<got, broken>>

\* Some more of the message is recovered.
Recover ==
    \E k \in Len(Last(got)) .. Len(Current) :
        /\ got' = Extended(SubSeq(Current, 1, k))
        /\ UNCHANGED <<sent, broken>>

\* The receiver is at the end of a message that the sender has ended.
Finish ==
    /\ Len(got) < Len(sent)
    /\ got' = Append(Extended(Current), <<>>)
    /\ UNCHANGED <<sent, broken>>

\* It is at the end of what came of a message.
FinishCut ==
    \E k \in Len(Last(got)) .. Len(Current) :
        /\ got' = Append(Extended(SubSeq(Current, 1, k)), <<>>)
        /\ Len(got') <= Len(sent)
        /\ UNCHANGED <<sent, broken>>

\* The rest of the message is given up.
Report ==
    /\ broken' = TRUE
    /\ got' = Append(got, <<>>)
    /\ UNCHANGED sent

ChannelNext ==
    \/ \E part \in BoundedSeq(Byte, MaxMessage) : Give(part)
    \/ End \/ Recover \/ Finish \/ FinishCut \/ Report

ChannelSpec == ChannelInit /\ [][ChannelNext]_channelVars
=============================================================================
