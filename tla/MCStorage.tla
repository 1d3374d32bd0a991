------------------------------ MODULE MCStorage ------------------------------
(***************************************************************************)
(* For TLC: what is stored and moved.  A behaviour is one of ScratchpadDma *)
(* ("scratchpad"), of ProgramLoading ("loading", or "damaged" with files   *)
(* that are missing, cut off or odd), of FileDemo ("signing" or "sealing") *)
(* or of AgreementDemo ("agreement"); the parts it is not about stay as    *)
(* they start.                                                             *)
(***************************************************************************)
EXTENDS ScratchpadDma, Sequences, TLC

CONSTANTS
    Parts,
    A, B, C, D, E,      \* names of files
    T1, T2,             \* texts
    Absent, Stdout, NoFile

VARIABLES
    part,
    phase, thread, srecs, line, startingAddr, memory, pc, sp,       \* ProgramLoading
    files, reading, writing, pending, faults, told, gone,           \* FileDemo
    at, cmd, arg, why, script, pair, seals, plain,
    values, secret, heap, params2, ready,                           \* AgreementDemo
    dhFiles, dhFaults, dhTold, dhScript, dhGone, dhAt, dhCmd, dhArg, dhWhy

loadVars == <<phase, thread, srecs, line, startingAddr, memory, pc, sp>>
demoVars == <<files, reading, writing, pending, faults, told, gone,
              at, cmd, arg, why, script, pair, seals, plain>>
dhVars == <<values, secret, heap, params2, ready,
            dhFiles, dhFaults, dhTold, dhScript, dhGone, dhAt, dhCmd, dhArg, dhWhy>>

\* Three programs, each in a region of eight words.
Loader == INSTANCE ProgramLoading WITH
    NumThreads <- 3, Spacing <- 8, Guess <- 2, Line <- 2, MaxData <- 5,
    Damaged <- FALSE, files <- srecs
DamagedLoader == INSTANCE ProgramLoading WITH
    NumThreads <- 3, Spacing <- 4, Guess <- 2, Line <- 2, MaxData <- 1,
    Damaged <- TRUE, files <- srecs

\* One file of two parts, one of a few bytes, and names without a file.
StartOf(names) ==
    [name \in names |-> IF name = A THEN <<[kind |-> "text", of |-> T1], [kind |-> "text", of |-> T2]>>
                        ELSE IF name = B THEN <<[kind |-> "short"]>> ELSE Absent]
Signer == INSTANCE FileDemo WITH
    Names <- {A, B, E}, Start <- StartOf({A, B, E}), MaxFaults <- 1,
    Digests <- {"MD2", "MD5"}, Ciphers <- {"DES"},
    Scripts <- {<<"s", "g", "v">>, <<"g", "s", "v">>, <<"s", "s", "v">>}
Sealer == INSTANCE FileDemo WITH
    Names <- {A, B, C, D}, Start <- StartOf({A, B, C, D}), MaxFaults <- 1,
    Digests <- {"MD5"}, Ciphers <- {"DESX", "EDE3"},
    Scripts <- {<<"e", "o">>}

\* Three names, the first of which has a file.
Agreement == INSTANCE AgreementDemo WITH
    Names <- {A, B, E}, Lengths <- {1, 2}, BuiltIn <- 2, MaxFaults <- 1,
    Start <- [name \in {A, B, E} |->
                 IF name = A THEN [kind |-> "text", len |-> 1] ELSE Absent],
    Scripts <- {<<"s", "c">>, <<"s", "s", "c">>, <<"g", "s", "g", "c">>},
    files <- dhFiles, faults <- dhFaults, told <- dhTold, script <- dhScript, gone <- dhGone,
    at <- dhAt, cmd <- dhCmd, arg <- dhArg, why <- dhWhy

ASSUME ScratchpadAssumption == ScratchpadConstants
ASSUME LoadingAssumption == Loader!LoadingConstants /\ DamagedLoader!LoadingConstants
ASSUME DemoAssumption ==
    /\ Signer!FaultsAssumption /\ Signer!ScriptsAssumption
    /\ Sealer!FaultsAssumption /\ Sealer!ScriptsAssumption
    /\ Agreement!LengthsAssumption

\* The code moves words and never looks at them; two names are as good.
Alike == Permutations(Values) \union Permutations({C, D})

-----------------------------------------------------------------------------

\* The initial states of the parts that have several are pinned if they rest.
StorageInit ==
    /\ part \in Parts
    /\ PadInit /\ (part # "scratchpad" => \A a \in Addresses : main[a] = main[0])
    /\ IF part = "damaged" THEN DamagedLoader!Init ELSE Loader!Init
    /\ IF part = "signing" THEN Signer!Init ELSE Sealer!Init
    /\ Agreement!Init /\ (part # "agreement" => Len(dhScript) = 2)

MovesWords ==
    /\ part = "scratchpad" /\ PadNext
    /\ UNCHANGED <<part, loadVars, demoVars, dhVars>>
Loads ==
    /\ part = "loading" /\ Loader!Next
    /\ UNCHANGED <<part, padVars, demoVars, dhVars>>
LoadsDamaged ==
    /\ part = "damaged" /\ DamagedLoader!Next
    /\ UNCHANGED <<part, padVars, demoVars, dhVars>>
Signs ==
    /\ part = "signing" /\ Signer!Next
    /\ UNCHANGED <<part, padVars, loadVars, dhVars>>
Seals ==
    /\ part = "sealing" /\ Sealer!Next
    /\ UNCHANGED <<part, padVars, loadVars, dhVars>>
Agrees ==
    /\ part = "agreement" /\ Agreement!Next
    /\ UNCHANGED <<part, padVars, loadVars, demoVars>>

StorageNext == MovesWords \/ Loads \/ LoadsDamaged \/ Signs \/ Seals \/ Agrees
StorageSpec == StorageInit /\ [][StorageNext]_<<part, padVars, loadVars, demoVars, dhVars>>

-----------------------------------------------------------------------------

\* Programs that compile_threads.py lets pass are all in memory when the
\* threads start, every thread at its own and with its stack above; damaged
\* files overwrite nothing of another thread.
ProgramsLoaded ==
    /\ part = "loading" =>
          Loader!ProgramsIntact /\ Loader!StartsAtOwn /\ Loader!StackTopFree
    /\ part = "damaged" => DamagedLoader!NothingForeign /\ DamagedLoader!StartsAtLast

\* Commands of the demonstrations that succeed leave files that belong together,
\* but for what an fclose lost, whose result they ignore; what verifies or opens
\* is what was signed or sealed; and however a command ends nothing is open,
\* unwritten or not wiped.
DemosWhole ==
    /\ part = "signing" =>
          Signer!TypeOK /\ Signer!NothingLeft /\ Signer!SignatureWhole /\ Signer!VerifiedWhole
    /\ part = "sealing" =>
          Sealer!TypeOK /\ Sealer!NothingLeft /\ Sealer!SealedWhole /\ Sealer!OpenedRight
    /\ part = "agreement" =>
          Agreement!TypeOK /\ Agreement!NoSecretLeft /\ Agreement!SetupSaved
              /\ Agreement!KeyOfBoth
=============================================================================
