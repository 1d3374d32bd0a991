\* Four blocks and ends of messages through the three ciphers; digests of two
\* messages; envelopes of two messages of up to four bytes over blocks of two;
\* printable blocks, mails and padded blocks.
SPECIFICATION ToolkitSpec
CONSTANTS
    Parts = {"cipher", "md5", "md2", "envelope", "encoding", "blocks", "pkcs"}
    Sp <- MCSp
    Input <- MCInput
    KeyTriple <- MCKeyTriple
    IVs <- MCIVs
    MaxBlocks = 4
    Block = 2
    Byte = {1, 2}
    MaxPart = 4
    MaxMessage = 4
    MaxMessages = 2
    GoesOn = FALSE
INVARIANTS Recovers DamageStays DigestsExact MailsAuthentic
PROPERTIES SealsAreChannel
CHECK_DEADLOCK FALSE
