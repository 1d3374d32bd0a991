------------------------------ MODULE MCThread ------------------------------
(***************************************************************************)
(* For TLC: what one hardware thread is made of.  A behaviour is one of    *)
(* ControlTransfer ("control"), of WordTimers ("timers"), of HwThread with *)
(* a program that is stalled ("passes") or one that is trapped ("traps"),  *)
(* of RegisterWindows ("windows") or of InstructionSignals ("signals");    *)
(* the parts it is not about stay as they start.                           *)
(***************************************************************************)
EXTENDS ControlTransfer, WordTimers, RegisterWindows, TLC

CONSTANTS
    Parts,              \* the parts of a run
    MaxLoad,            \* of HwThread, as the next five are
    Program, Handler,
    FetchStalls, MemStalls, StallDoubles

\* ControlTransfer: branches forth and back.
NearDisps == -2 .. 2

-----------------------------------------------------------------------------
(* HwThread: its instructions                                              *)

Op(op) == [op |-> op, timer |-> 0, load |-> FALSE, branch |-> FALSE, value |-> 0]
SetEt(v) == [Op("wrpsr") EXCEPT !.value = v]
DeadPll(v) == [Op("deadpll") EXCEPT !.value = v]
DeadAt(i, v) == [Op("dead") EXCEPT !.timer = i, !.value = v]
DeadLoad(i, v) == [DeadAt(i, v) EXCEPT !.load = TRUE]
DeadBranch(i, v) == [DeadAt(i, v) EXCEPT !.branch = TRUE]
DeadLoadBranch(i, v) == [DeadBranch(i, v) EXCEPT !.load = TRUE]

\* A handler that leaves the timed block with a longjmp, and one that can also
\* disable traps and return to the block.
LeavingHandler == {Op("alu"), Op("leave")}
AnyHandler == LeavingHandler \union {SetEt(0), Op("rett")}

\* Everything that can be stalled, and waits that end on their own.
StalledProgram ==
    {Op(op) : op \in {"alu", "load", "store", "ldd", "save", "restore", "mulscc"}}
        \union {DeadAt(0, 2), DeadLoad(0, 1), DeadPll(2)}

\* Timed blocks, one within the other.  There is no SAVE in them: one that is
\* squashed by a trap moves the window (run ThreadSquashed).
TimedProgram ==
    {Op("alu"), Op("load"), Op("rdsr"), DeadLoadBranch(0, 2), DeadBranch(0, 1),
     DeadLoad(0, 0), DeadLoadBranch(1, 3)}

\* A timed block around instructions that act before they commit.
TimedEffects ==
    {Op(op) : op \in {"store", "mulscc", "save"}}
        \union {DeadLoadBranch(0, 2), DeadBranch(0, 1)}

\* Double loads among other instructions.
DoubleLoads == {Op("alu"), Op("load"), Op("ldd")}

VARIABLES
    part,
    visit, ppc, latched, dword, fetchStalled, memStalled, deadStalled, dwordStalled,
    trapPass, trapType, traps, pcwp, saves17, saves18, dts, dtStatuses,
    plldt, pllLoad, pllLoaded, home, done

threadVars ==
    <<visit, ppc, latched, dword, fetchStalled, memStalled, deadStalled, dwordStalled,
      trapPass, trapType, traps, pcwp, saves17, saves18, dts, dtStatuses,
      plldt, pllLoad, pllLoaded, home, done>>

Thread == INSTANCE HwThread WITH
    stage <- visit, pc <- ppc, inst <- latched, trapped <- trapPass, et <- traps,
    cwp <- pcwp, r17 <- saves17, r18 <- saves18, dt <- dts, dtStatus <- dtStatuses
ASSUME ThreadAssumption == Thread!ThreadConstants

\* The same thread with timed blocks whose deadlines trap; no fetch is refused.
Timed == INSTANCE HwThread WITH
    MaxLoad <- 3, Program <- TimedProgram, Handler <- AnyHandler, FetchStalls <- FALSE,
    stage <- visit, pc <- ppc, inst <- latched, trapped <- trapPass, et <- traps,
    cwp <- pcwp, r17 <- saves17, r18 <- saves18, dt <- dts, dtStatus <- dtStatuses
ASSUME TimedAssumption == Timed!ThreadConstants

-----------------------------------------------------------------------------
(* InstructionSignals: every opcode, with registers and immediates at the  *)
(* edges of their fields                                                   *)

Encoded(op1, rd, op3, rs1, low) ==
    [op1 |-> op1, body |-> rd * 2^25 + op3 * 2^19 + rs1 * 2^14 + low]

\* The register %g2; the immediates 0, 4095, -4096 and -1.
Lows == {2, 8192, 8192 + 4095, 8192 + 4096, 8192 + 8191}

\* The second half of a double load would find its base overwritten.
Overlap(rd, rs1, low) == rd = rs1 \/ (low < 8192 /\ rd = low)

Branches ==
    {[op1 |-> 0, body |-> top * 2^25 + op2 * 2^22 + disp] :
        top \in {0, 1, 8, 15, 16, 24, 31}, op2 \in 0 .. 7,
        disp \in {0, 1, 2^21 - 1, 2^21, 2^22 - 1}}
Calls == {[op1 |-> 1, body |-> disp] : disp \in {0, 1, 2^29 - 1, 2^29, 2^30 - 1}}
Operations == {Encoded(2, rd, op3, rs1, low) :
                  rd \in {0, 1, 31}, op3 \in 0 .. 63, rs1 \in {0, 3}, low \in Lows}
Doubles == {w \in [rd : {2, 14, 30}, op3 : {3, 7}, rs1 : {0, 14}, low : Lows] :
               ~Overlap(w.rd, w.rs1, w.low)}
TimedWords == {Encoded(3, rd, 44, rs1, low) : rd \in {0, 7}, rs1 \in 0 .. 3, low \in Lows}
Others == {Encoded(3, rd, op3, rs1, low) :
              rd \in {0, 1, 31}, op3 \in (0 .. 63) \ {3, 7, 44}, rs1 \in {0, 3},
              low \in Lows}

\* nop; and %g1, %g2, %g1; ld [%g2], %g1; wr %g1, %y; rett.
AfterAny == {[op1 |-> 0, body |-> 2^24], Encoded(2, 1, 1, 3, 2), Encoded(3, 1, 0, 3, 2),
             Encoded(2, 0, 48, 3, 8192), Encoded(2, 0, 57, 3, 8192)}

AllWords == AfterAny \union Branches \union Calls \union Operations \union TimedWords
            \union Others
            \union {Encoded(3, w.rd, w.op3, w.rs1, w.low) : w \in Doubles}

VARIABLES
    signals, at, pcWord, memHeld, deadHeld, secondHalf, result, effects
signalVars == <<signals, at, pcWord, memHeld, deadHeld, secondHalf, result, effects>>

Instruction == INSTANCE InstructionSignals WITH
    Words <- AllWords, Following <- AfterAny, StallDoubles <- FALSE,
    inst <- signals, stage <- at, memStalled <- memHeld, deadStalled <- deadHeld,
    dwordStalled <- secondHalf, value <- result
ASSUME SignalAssumption == Instruction!InstructionWords

-----------------------------------------------------------------------------

\* The initial states of the parts that have several are pinned if they rest.
ThreadInit ==
    /\ part \in Parts
    /\ Init /\ (part # "control" => pc = 1)
    /\ WordInit
    /\ IF part = "traps"
       THEN Timed!Init
       ELSE Thread!Init /\ (part # "passes" => ppc.inst = CHOOSE i \in Program : TRUE)
    /\ FileInit
    /\ Instruction!Init
    /\ (part # "signals" => pcWord = CHOOSE w \in AfterAny : TRUE)

Control ==
    /\ part = "control" /\ Next
    /\ UNCHANGED <<part, wordVars, threadVars, fileVars, signalVars>>
Timing ==
    /\ part = "timers" /\ WordNext
    /\ UNCHANGED <<part, vars, threadVars, fileVars, signalVars>>
Passes ==
    /\ part = "passes" /\ Thread!Next
    /\ UNCHANGED <<part, vars, wordVars, fileVars, signalVars>>
Traps ==
    /\ part = "traps" /\ Timed!Next
    /\ UNCHANGED <<part, vars, wordVars, fileVars, signalVars>>
MovesWindows ==
    /\ part = "windows" /\ FileNext
    /\ UNCHANGED <<part, vars, wordVars, threadVars, signalVars>>
Signalling ==
    /\ part = "signals" /\ Instruction!Next
    /\ UNCHANGED <<part, vars, wordVars, threadVars, fileVars>>

ThreadNext == Control \/ Timing \/ Passes \/ Traps \/ MovesWindows \/ Signalling
allVars == <<part, vars, wordVars, threadVars, fileVars, signalVars>>
ThreadSpec == ThreadInit /\ [][ThreadNext]_allVars

\* The fairness of HwThread, for the part that the behaviour is one of.
Visits == (part = "passes" /\ Thread!Visit) \/ (part = "traps" /\ Timed!Visit)
PllTicks == (part = "passes" /\ Thread!PllTick) \/ (part = "traps" /\ Timed!PllTick)
Fetches == part = "passes" /\ Thread!FetchInstruction /\ ~fetchStalled'
Accesses == \/ part = "passes" /\ Thread!Mem /\ ~memStalled'
            \/ part = "traps" /\ Timed!Mem /\ ~memStalled'
Fairness ==
    /\ WF_threadVars(Visits) /\ WF_threadVars(PllTicks)
    /\ SF_threadVars(Fetches) /\ SF_threadVars(Accesses)
FairSpec == ThreadSpec /\ Fairness

-----------------------------------------------------------------------------
(* Properties of the parts                                                 *)

\* A stall makes no instruction take effect twice, leaves no half of a double
\* load out and makes none the second half of another, and lets no DEAD pass
\* early: of a memory that refuses no half of a double load.
StallsAreSafe == Thread!StallsAreSafe

\* A double load has loaded both its words, whatever the memory has refused.
DoubleIsWhole == Thread!DoubleIsWhole

\* A DEADPLL that waits gets its value to the loop.
PllIsFed == Thread!PllIsFed

\* A trap is taken for a deadline that was missed, in a window and with the
\* addresses from which the handler gets back.
TrapsAreExact == Timed!TrapsAreExact

\* A missed deadline is answered, and its trap gets to the handler.
MissIsAnswered == Timed!TrapEntersHandler /\ Timed!MissIsServed

\* An instruction squashed by a trap leaves no trace.
SquashedHasNoEffect == Thread!SquashedHasNoEffect

\* An instruction that leaves has changed what its word says, one that is held
\* no more than that, and what decode leaves is a function of the word alone.
SignalsMean ==
    Instruction!EffectsMean /\ Instruction!EffectsWithin /\ Instruction!DecodedAfresh
=============================================================================
