------------------------------ MODULE FileDemo ------------------------------
(***************************************************************************)
(* RSAREF's demonstration program (rdemo.c): a menu of commands that sign, *)
(* verify, seal and open files and generate the third key pair, each a     *)
(* series of prompts around one pass over the input file.  The toolkit is  *)
(* abstract: a signature says what it is of and by which key, a sealed     *)
(* part says what it hides, of which sealing, and after which part.        *)
(*                                                                         *)
(* A prompt that is answered with something it cannot use asks again and   *)
(* changes nothing.                                                        *)
(***************************************************************************)
EXTENDS Naturals, Sequences, FiniteSets

-----------------------------------------------------------------------------
(* The file routines of RSAREF's demonstration program (rdemo.c): one file *)
(* open for reading, one for writing, and blocks read or written in one    *)
(* go.  A file is a sequence of parts; a part stands for what one fread    *)
(* returns.  Any read or write may fail, MaxFaults times in all.           *)

CONSTANTS
    Names,      \* names of files the user may type
    Absent,     \* what a name without a file leads to
    Stdout,     \* the name "-"
    NoFile,     \* no file is open
    MaxFaults   \* bound: failed reads and writes, with the files fclose spoilt

FaultsAssumption == MaxFaults \in Nat

(* A part that mixes two files written under one name. *)
Mangled == [kind |-> "mangled"]

VARIABLES
    files,      \* contents by name
    reading,    \* inFile: the name of the file open for reading
    writing,    \* outFile
    pending,    \* what outFile holds that fclose has yet to write out
    faults,     \* reads and writes that failed so far
    told,       \* PrintError was called since the command was entered
    gone        \* history: names whose last fclose failed, which nobody is told

fileVars == <<files, reading, writing, pending, faults, told, gone>>

(* fopen (filename, "rb"): the file must be there. *)
ReadInit(name) ==
    /\ name \in Names /\ files[name] # Absent
    /\ reading' = name

(* fopen (filename, "wb") empties the file; "-" is the standard output. *)
Emptied(name) == IF name = Stdout THEN files ELSE [files EXCEPT ![name] = <<>>]
WriteInit(name) ==
    /\ writing' = name
    /\ files' = Emptied(name)
    /\ pending' = <<>>
    /\ UNCHANGED gone

(***************************************************************************)
(* ReadUpdate, called until it returns 1: at the end of the file, and also *)
(* after a read that failed, which the callers do not tell apart.          *)
(***************************************************************************)
Readable == {SubSeq(files[reading], 1, n) : n \in 0..Len(files[reading])}
ReadUpdatesFull(parts, failed) ==
    \/ failed = 0 /\ parts = SubSeq(files[reading], 1, Len(files[reading]) - 1)
    \/ failed = 1 /\ parts \in Readable
ReadUpdates(parts, failed) ==
    \/ failed = 0 /\ parts = files[reading]
    \/ failed = 1 /\ parts \in Readable

(* WriteUpdate, called for every part: one that fails loses its part, and the callers go on. *)
Without(parts, i) == SubSeq(parts, 1, i - 1) \o SubSeq(parts, i + 1, Len(parts))
WriteUpdates(parts, failed) ==
    \/ failed = 0 /\ pending' = parts
    \/ failed = 1 /\ \E i \in 1..Len(parts) : pending' = Without(parts, i)

(* PrintError tells the user of every failure. *)
PrintErrors(failed) ==
    /\ faults + Cardinality(gone) + failed <= MaxFaults
    /\ faults' = faults + failed
    /\ told' = (told \/ failed > 0)

(***************************************************************************)
(* WriteFinal: fclose writes out what is pending.  A file written under    *)
(* the same name in between is overwritten from its start, as far as the   *)
(* pending parts reach.  When fclose fails, some of it is not written, and *)
(* as its result is ignored the program does not know.                     *)
(*                                                                         *)
(* What is there and what of it has been lost goes from step to step of a  *)
(* command as `saved'.                                                     *)
(***************************************************************************)
AsIs == [files |-> files, gone |-> gone]
WithFile(saved, name, content) ==
    [files |-> [saved.files EXCEPT ![name] = content], gone |-> saved.gone \ {name}]
WithoutFile(saved, name, content) ==
    [files |-> [saved.files EXCEPT ![name] = content], gone |-> saved.gone \cup {name}]
CanLose(saved, name) == faults + Cardinality(saved.gone \cup {name}) <= MaxFaults

ClosingUnflushed(content) == {content}
Closing(content) ==
    IF pending = <<>> THEN {content}
    ELSE IF content = <<>> THEN {pending}
    ELSE {pending, <<Mangled>>}
ClosingFailed(content) ==
    IF pending = <<>> THEN {}
    ELSE IF content = <<>> THEN {SubSeq(pending, 1, n) : n \in 0 .. Len(pending) - 1}
    ELSE {content, <<Mangled>>}
Closed(saved, name) ==
    {WithFile(saved, name, c) : c \in Closing(saved.files[name])}
        \cup IF CanLose(saved, name)
             THEN {WithoutFile(saved, name, c) : c \in ClosingFailed(saved.files[name])}
             ELSE {}
WriteFinal(saved) ==
    /\ writing' = NoFile
    /\ pending' = <<>>
    /\ \E end \in IF writing \in Names THEN Closed(saved, writing) ELSE {saved} :
          files' = end.files /\ gone' = end.gone

(***************************************************************************)
(* ReadBlock: what the file holds, if it fits.  An empty file ends it      *)
(* without a message; a file that is too long has one more byte read       *)
(* through the pointer dummy, which was never set: the program reports the *)
(* length, or it crashes.  When that one read fails, the status is 0: the  *)
(* error is reported, and the command goes on with what it has.            *)
(***************************************************************************)
ReadBlockOutcomes(name, fits) ==
    IF files[name] = <<>> THEN {"empty"}
    ELSE IF fits THEN {"read"} ELSE {"toolong", "crash"}

(* WriteBlock: the file is emptied, and holds the block unless a write fails: *)
(* fwrite, which is told, or fclose, which is not.                            *)
Written(name, block) ==
    IF name = Stdout THEN {AsIs}
    ELSE {WithFile(AsIs, name, block)}
            \cup IF CanLose(AsIs, name) THEN {WithoutFile(AsIs, name, <<>>)} ELSE {}
Unwritten(name) == IF name = Stdout THEN AsIs ELSE WithFile(AsIs, name, <<>>)

-----------------------------------------------------------------------------

CONSTANTS
    Start,        \* the files there are when the program starts
    Digests, Ciphers,
    Scripts       \* sequences of commands a user may enter: "s", "v", "e", "o", "g"

ScriptsAssumption == Scripts \subseteq Seq({"s", "v", "e", "o", "g"})

(* Parts of files: text, a text of eight bytes or fewer, what ends a sealed  *)
(* content, and what a part deciphers to under another key or after another *)
(* part.                                                                    *)
Text(t) == [kind |-> "text", of |-> t]
Short == [kind |-> "short"]
Pad == [kind |-> "pad"]
Garbage == [kind |-> "garbage"]

VARIABLES
    at,        \* the menu, a prompt, the pass over the file, or a crash
    cmd,       \* the command entered last
    arg,       \* its answers and what it read: named, began, key, alg, block, iv
    why,       \* how it ended
    script,    \* the commands to be entered
    pair,      \* generations of PUBLIC_KEY3 and PRIVATE_KEY3; ready once above 0
    seals,     \* key, cipher and content of every sealing, by number
    plain      \* partIn or partOut holds plaintext

vars == <<files, reading, writing, pending, faults, told, gone,
          at, cmd, arg, why, script, pair, seals, plain>>

NoArg == [named |-> <<>>, began |-> <<>>, key |-> 0, alg |-> "none",
          block |-> <<>>, iv |-> 0]

InitRandomStruct == seals = <<>>
Init ==
    /\ files = Start /\ reading = NoFile /\ writing = NoFile /\ pending = <<>>
    /\ faults = 0 /\ told = FALSE /\ gone = {}
    /\ at = "menu" /\ cmd = "none" /\ arg = NoArg /\ why = "none"
    /\ script \in Scripts /\ pair = 0 /\ plain = FALSE
    /\ InitRandomStruct

(* Two built-in pairs, and the one generated last. *)
KEYPAIR3_READY == pair > 0
GetPublicKey == {1, 2} \cup IF KEYPAIR3_READY THEN {2 + pair} ELSE {}
GetPrivateKey == {1, 2} \cup IF KEYPAIR3_READY THEN {2 + pair} ELSE {}
GetDigestAlgorithm == Digests
GetEncryptionAlgorithm == Ciphers

session == <<cmd, why, script, pair>>
Named(name) == [arg EXCEPT !.named = Append(@, name)]

(***************************************************************************)
(* The way out of every command: both files are closed, a status is        *)
(* reported, and the buffers that held plaintext are zeroized.  A read or  *)
(* a write of a block that fails ends the command.                         *)
(***************************************************************************)
ReadFinal == reading' = NoFile
Zeroize == plain' = FALSE
LeaveUnwiped(reason, saved) ==
    /\ at' = "menu" /\ why' = reason
    /\ ReadFinal /\ WriteFinal(saved)
    /\ plain' = (plain /\ reason # "done")
    /\ UNCHANGED <<cmd, script, pair, seals>>
Leave(reason, saved) ==
    /\ at' = "menu" /\ why' = reason
    /\ ReadFinal /\ WriteFinal(saved) /\ Zeroize
    /\ UNCHANGED <<cmd, script, pair, seals>>
CancelUnclosed ==
    /\ at \notin {"menu", "work", "close", "crash"}
    /\ \/ at # "out" /\ Leave("blank", AsIs) /\ UNCHANGED <<faults, told, arg>>
       \/ /\ at = "out" /\ at' = "menu" /\ why' = "blank"
          /\ UNCHANGED <<fileVars, cmd, arg, script, pair, seals, plain>>
Cancel ==
    /\ at \notin {"menu", "work", "close", "crash"}
    /\ Leave("blank", AsIs)
    /\ UNCHANGED <<faults, told, arg>>
Status ==
    /\ Leave("status", AsIs)
    /\ told' = TRUE
    /\ UNCHANGED <<faults, arg>>

(* Prompts of the commands. *)
OpenInput(next) ==
    \E name \in Names :
      /\ ReadInit(name)
      /\ arg' = [Named(name) EXCEPT !.began = files[name]]
      /\ at' = next
      /\ UNCHANGED <<files, writing, pending, faults, told, gone, session, seals, plain>>
OpenOutput(next) ==
    \E name \in Names \cup {Stdout} :
      /\ WriteInit(name)
      /\ arg' = Named(name)
      /\ at' = next
      /\ UNCHANGED <<reading, faults, told, session, seals, plain>>
Choose(set, field, next) ==
    \E answer \in set :
      /\ arg' = [arg EXCEPT ![field] = answer]
      /\ at' = next
      /\ UNCHANGED <<fileVars, session, seals, plain>>

(* ReadBlock, and the value it leaves for the command to go on with. *)
Crash ==
    /\ at' = "crash"
    /\ UNCHANGED <<fileVars, session, arg, seals, plain>>
Fits(field, content) ==
    Len(content) = 1 /\ (field = "iv" => content[1].kind \in {"short", "iv"})
(* Nothing compares the length read with 8: the rest of iv keeps what it held. *)
ValueOf(field, content) ==
    IF field = "block" THEN content[1]
    ELSE IF content[1] = Short THEN 0 ELSE content[1].nth
Truncated(field) == IF field = "block" THEN Mangled ELSE 0
ReadBlock(field, next) ==
    \E name \in Names :
      /\ files[name] # Absent
      /\ \E outcome \in ReadBlockOutcomes(name, Fits(field, files[name])) :
           \/ /\ outcome = "read"
              /\ arg' = [Named(name) EXCEPT ![field] = ValueOf(field, files[name])]
              /\ at' = next
              /\ UNCHANGED <<fileVars, session, seals, plain>>
           \/ /\ outcome \in {"empty", "toolong"}
              /\ Leave(outcome, AsIs)
              /\ told' = (told \/ outcome = "toolong")
              /\ arg' = Named(name)
              /\ UNCHANGED faults
           \/ outcome = "crash" /\ Crash
           \/ /\ outcome # "empty"
              /\ Leave("unread", AsIs)
              /\ PrintErrors(1)
              /\ arg' = Named(name)
           \/ /\ outcome \in {"read", "toolong"}
              /\ arg' = [Named(name) EXCEPT ![field] =
                             IF outcome = "read" THEN ValueOf(field, files[name])
                             ELSE Truncated(field)]
              /\ at' = next
              /\ PrintErrors(1)
              /\ UNCHANGED <<files, reading, writing, pending, gone, session, seals, plain>>

(* WriteBlock: the block is saved under a name, and the command goes on or ends. *)
WriteBlock(block, next) ==
    \E name \in Names \cup {Stdout} :
      /\ arg' = Named(name)
      /\ \/ /\ \E saved \in Written(name, block) :
                  files' = saved.files /\ gone' = saved.gone
            /\ at' = next
            /\ UNCHANGED <<reading, writing, pending, faults, told, session, seals, plain>>
         \/ Leave("unsaved", Unwritten(name)) /\ PrintErrors(1)
WriteLastBlock(block) ==
    \E name \in Names \cup {Stdout} :
      /\ arg' = Named(name)
      /\ \/ /\ \E saved \in Written(name, block) : Leave("done", saved)
            /\ UNCHANGED <<faults, told>>
         \/ Leave("unsaved", Unwritten(name)) /\ PrintErrors(1)

(* Contents that fit signature and encryptedKey, and those that fit iv[8]. *)
Signature(parts) == [kind |-> "sig", of |-> parts, key |-> arg.key, alg |-> arg.alg]

DoSignFile ==
    /\ cmd = "s"
    /\ \/ at = "in" /\ OpenInput("key")
       \/ at = "key" /\ Choose(GetPrivateKey, "key", "alg")
       \/ at = "alg" /\ Choose(GetDigestAlgorithm, "alg", "work")
       \/ /\ at = "work"
          /\ \E parts \in Readable, failed \in 0..1 :
               /\ ReadUpdates(parts, failed)
               /\ PrintErrors(failed)
               /\ arg' = [arg EXCEPT !.block = Signature(parts)]
               /\ plain' = (parts # <<>>)
          /\ at' = "save"
          /\ UNCHANGED <<files, reading, writing, pending, gone, session, seals>>
       \/ at = "save" /\ WriteLastBlock(<<arg.block>>)

(* A command that ends with its pass over the file reports the status, and closes. *)
Close ==
    /\ Leave(why, AsIs)
    /\ told' = (told \/ why = "status")
    /\ UNCHANGED <<faults, arg>>

(* R_VerifyFinal compares with the digest of what was read. *)
DoVerifyFile ==
    /\ cmd = "v"
    /\ \/ at = "in" /\ OpenInput("key")
       \/ at = "key" /\ Choose(GetPublicKey, "key", "alg")
       \/ at = "alg" /\ Choose(GetDigestAlgorithm, "alg", "block")
       \/ at = "block" /\ ReadBlock("block", "work")
       \/ /\ at = "work"
          /\ \E parts \in Readable, failed \in 0..1 :
               /\ ReadUpdates(parts, failed)
               /\ PrintErrors(failed)
               /\ plain' = (parts # <<>>)
               /\ why' = IF arg.block = Signature(parts) THEN "done" ELSE "status"
          /\ at' = "close"
          /\ UNCHANGED <<files, reading, writing, pending, gone, cmd, arg, script, pair, seals>>
       \/ at = "close" /\ Close

Sealed(parts, s) ==
    [i \in 1..(Len(parts) + 1) |->
       [kind |-> "sealed", part |-> IF i > Len(parts) THEN Pad ELSE parts[i], seal |-> s, nth |-> i]]

DoSealFile ==
    /\ cmd = "e"
    /\ \/ at = "in" /\ OpenInput("out")
       \/ at = "out" /\ OpenOutput("key")
       \/ at = "key" /\ Choose(GetPublicKey, "key", "alg")
       \/ at = "alg" /\ Choose(GetEncryptionAlgorithm, "alg", "work")
       \/ /\ at = "work"
          /\ \E parts \in Readable, unread \in 0..1, unwritten \in 0..1 :
               /\ ReadUpdates(parts, unread)
               /\ WriteUpdates(Sealed(parts, Len(seals) + 1), unwritten)
               /\ PrintErrors(unread + unwritten)
               /\ plain' = (parts # <<>>)
          /\ seals' = Append(seals, [key |-> arg.key, alg |-> arg.alg, content |-> arg.began])
          /\ at' = "saveKey"
          /\ UNCHANGED <<files, reading, writing, gone, session, arg>>
       \/ at = "saveKey" /\ WriteBlock(<<[kind |-> "ek", nth |-> Len(seals)]>>, "saveIv")
       \/ at = "saveIv" /\ WriteLastBlock(<<[kind |-> "iv", nth |-> Len(seals)]>>)

(***************************************************************************)
(* R_OpenInit rejects a key block sealed for another key, or a key of      *)
(* another length than the cipher's.  A part deciphers to what it hides    *)
(* under the cipher it was sealed with, after the part it was sealed after *)
(* (the vector for the first).                                             *)
(***************************************************************************)
KeyLen(alg) == IF alg = "DES" THEN 8 ELSE 24
OpenInit ==
    /\ arg.block.kind = "ek"
    /\ LET seal == seals[arg.block.nth] IN
         seal.key = arg.key /\ KeyLen(seal.alg) = KeyLen(arg.alg)
Deciphers(content, i) ==
    LET s == arg.block.nth IN
    /\ content[i].kind = "sealed" /\ content[i].seal = s
    /\ seals[s].alg = arg.alg
    /\ IF i = 1 THEN arg.iv = s /\ content[i].nth = 1
       ELSE /\ content[i - 1].kind = "sealed" /\ content[i - 1].seal = s
            /\ content[i - 1].nth + 1 = content[i].nth
Opened(content, i) == IF Deciphers(content, i) THEN content[i].part ELSE Garbage
OpenUpdatesPad(content) == [i \in 1..Len(content) |-> Opened(content, i)]
OpenUpdates(content) == [i \in 1..(Len(content) - 1) |-> Opened(content, i)]
(* R_OpenFinal: what is not padding may look like it by chance. *)
OpenFinal(content) ==
    IF content = <<>> THEN {TRUE}
    ELSE IF Opened(content, Len(content)) = Pad THEN {TRUE} ELSE {TRUE, FALSE}

DoOpenFile ==
    /\ cmd = "o"
    /\ \/ at = "in" /\ OpenInput("out")
       \/ at = "out" /\ OpenOutput("key")
       \/ at = "key" /\ Choose(GetPrivateKey, "key", "alg")
       \/ at = "alg" /\ Choose(GetEncryptionAlgorithm, "alg", "block")
       \/ at = "block" /\ ReadBlock("block", "iv")
       \/ at = "iv" /\ ReadBlock("iv", "work")
       \/ at = "work" /\ ~OpenInit /\ Status
       \/ /\ at = "work" /\ OpenInit
          /\ \E parts \in Readable, unread \in 0..1, unwritten \in 0..1 :
               /\ ReadUpdates(parts, unread)
               /\ WriteUpdates(OpenUpdates(parts), unwritten)
               /\ PrintErrors(unread + unwritten)
               /\ plain' = (parts # <<>>)
               /\ \E good \in OpenFinal(parts) : why' = IF good THEN "done" ELSE "status"
          /\ at' = "close"
          /\ UNCHANGED <<files, reading, writing, gone, cmd, arg, script, pair, seals>>
       \/ at = "close" /\ Close

(* The pair is saved as text, and no result of a write is looked at. *)
WriteKeypair3 ==
    \E name \in Names \cup {Stdout} :
      /\ arg' = Named(name)
      /\ \E saved \in Written(name, <<[kind |-> "pair", nth |-> pair]>>) : Leave("done", saved)
      /\ UNCHANGED <<faults, told>>

(* A key size out of range leaves the pair there was. *)
DoGenerateKeys ==
    /\ cmd = "g"
    /\ \/ at = "bits" /\ Status
       \/ /\ at = "bits"
          /\ pair' = pair + 1
          /\ at' = "saveText"
          /\ UNCHANGED <<fileVars, cmd, arg, why, script, seals, plain>>
       \/ at = "saveText" /\ WriteKeypair3

(* The main menu. *)
Enter ==
    /\ at = "menu" /\ script # <<>>
    /\ cmd' = Head(script) /\ script' = Tail(script)
    /\ at' = IF cmd' = "g" THEN "bits" ELSE "in"
    /\ arg' = NoArg /\ why' = "none" /\ told' = FALSE
    /\ UNCHANGED <<files, reading, writing, pending, faults, gone, pair, seals, plain>>

Next ==
    \/ Enter
    \/ Cancel
    \/ DoSignFile \/ DoVerifyFile \/ DoSealFile \/ DoOpenFile \/ DoGenerateKeys

Spec == Init /\ [][Next]_vars

-----------------------------------------------------------------------------
(* Files, prompts and key pairs are those of a session; a key is only used *)
(* once it was generated (KEYPAIR3_READY).                                 *)
TypeOK ==
    /\ DOMAIN files = Names
    /\ reading \in Names \cup {NoFile} /\ writing \in Names \cup {Stdout, NoFile}
    /\ faults \in 0..MaxFaults /\ told \in BOOLEAN /\ plain \in BOOLEAN
    /\ gone \subseteq Names /\ Cardinality(gone) <= MaxFaults
    /\ pair \in Nat /\ arg.key \in 0..(2 + pair)
    /\ at # "menu" => cmd \in {"s", "v", "e", "o", "g"}

(* However a command ends (a blank answer at any prompt, a status, a file   *)
(* that cannot be read or written), back at the menu both files are closed, *)
(* nothing is left unwritten and no plaintext is left in the buffers.       *)
NothingLeft ==
    at = "menu" => /\ reading = NoFile /\ writing = NoFile /\ pending = <<>>
                   /\ ~plain

Aliased == \E i, j \in 1..Len(arg.named) :
    i < j /\ arg.named[i] = arg.named[j] /\ arg.named[i] # Stdout
Succeeded(c) == at = "menu" /\ cmd = c /\ why = "done" /\ ~told /\ ~Aliased
(* A file that was closed in vain holds what it may: fclose tells nobody. *)
Holds(name, content) == name \notin gone \cup {Stdout} => files[name] = content

(* DoSignFile and DoVerifyFile: a signature saved without an error is of the *)
(* whole file, and in its own unless fclose failed; one that verifies was    *)
(* made of the whole file by the key and with the digest named, whatever was *)
(* signed, overwritten, lost and generated in between.                       *)
SignatureWhole == Succeeded("s") =>
    /\ arg.block.of = files[arg.named[1]]
    /\ Holds(arg.named[2], <<arg.block>>)
VerifiedWhole == Succeeded("v") =>
    /\ arg.block.of = files[arg.named[1]]
    /\ arg.block.key = arg.key /\ arg.block.alg = arg.alg

(* DoSealFile: once the vector is saved, the three files belong together,   *)
(* although the content is only written out when its file is closed.  What  *)
(* fclose (rdemo.c:1038) did not write out is missing, whatever is reported. *)
SealedWhole == Succeeded("e") =>
    LET s == Len(seals) IN
    /\ Holds(arg.named[2], Sealed(files[arg.named[1]], s))
    /\ Holds(arg.named[3], <<[kind |-> "ek", nth |-> s]>>)
    /\ Holds(arg.named[4], <<[kind |-> "iv", nth |-> s]>>)

(* DoOpenFile: a sealed content opened with its own cipher and vector, and *)
(* without an error, leaves what was sealed.                               *)
OpenedRight == Succeeded("o") =>
    LET s == arg.block.nth IN
    (/\ seals[s].alg = arg.alg /\ arg.iv = s
     /\ files[arg.named[1]] = Sealed(seals[s].content, s))
        => /\ seals[s].key = arg.key
           /\ Holds(arg.named[2], seals[s].content)
==============================================================================
