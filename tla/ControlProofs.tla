---------------------------- MODULE ControlProofs ----------------------------
(***************************************************************************)
(* Theorems about the parts of a hardware thread: ControlTransfer          *)
(* implements SparcControl, for code of any size and any number of         *)
(* register windows; WordTimers implements DeadlineTimers, for any number  *)
(* of timers and words of any width; RegisterWindows implements            *)
(* RegisterStack, for any number of windows, registers and values.         *)
(***************************************************************************)
EXTENDS ControlTransfer, WordTimers, RegisterWindows, SequenceTheorems, TLAPS

\* The passes keep every variable in its type.
THEOREM ControlTypeCorrect == Spec => []TypeOK
<1>1. Init => TypeOK
  BY ControlConstants DEF Init, TypeOK, None, Addresses
<1>2. TypeOK /\ [Next]_vars => TypeOK'
  <2> SUFFICES ASSUME TypeOK, [Next]_vars PROVE TypeOK'
    OBVIOUS
  <2> USE DEF TypeOK, Addresses, None
  <2>1. CASE UNCHANGED vars
    BY <2>1 DEF vars, regs
  <2>2. CASE Next
    <3>1. pc' \in Addresses /\ delayed' \in Addresses \union {None}
      BY <2>2 DEF Next, InBounds
    <3>2. CASE UNCHANGED <<link, trapped, et, regs>>
      BY <3>1, <3>2 DEF regs
    <3>3. CASE link' = pc' - 1 /\ UNCHANGED <<trapped, et, regs>>
      <4>1. link' \in 0 .. MaxPc
        <5>1. \A a \in Addresses : a - 1 \in 0 .. MaxPc
          BY ControlConstants
        <5>2. link' = pc' - 1
          BY <3>3
        <5>3. QED
          BY <3>1, <5>1, <5>2, Zenon
      <4>2. QED
        BY <3>1, <3>3, <4>1 DEF regs
    <3>4. CASE SavePc
      BY <3>1, <3>4, ControlConstants DEF SavePc
    <3>5. CASE EnterHandler
      BY <3>1, <3>5, ControlConstants DEF EnterHandler
    <3>6. CASE DisableTraps
      BY <3>1, <3>6 DEF DisableTraps, regs
    <3>7. CASE Rett
      BY <3>1, <3>7, ControlConstants DEF Rett
    <3>8. QED
      BY <2>2, <3>2, <3>3, <3>4, <3>5, <3>6, <3>7
         DEF Next, Step, Plain, Branch, BranchAlwaysAnnul, UntakenAnnul, Call, Jump
  <2>3. QED
    BY <2>1, <2>2
<1>3. QED
  BY <1>1, <1>2, PTL DEF Spec

\* The second pass of a trap finds what the first one left.
THEOREM PassesAreOne == Spec => []BetweenPasses
<1>1. Init => BetweenPasses
  BY DEF Init, BetweenPasses
<1>2. TypeOK /\ BetweenPasses /\ [Next]_vars => BetweenPasses'
  <2> SUFFICES ASSUME TypeOK, BetweenPasses, [Next]_vars PROVE BetweenPasses'
    OBVIOUS
  <2>1. CASE UNCHANGED vars
    BY <2>1 DEF vars, regs, BetweenPasses
  <2>2. CASE Next
    <3>1. CASE SavePc
      BY <3>1, ControlConstants DEF SavePc, BetweenPasses, TypeOK
    <3>2. CASE EnterHandler
      BY <3>2 DEF EnterHandler, BetweenPasses
    <3>3. CASE Commits /\ trapped' = trapped
      BY <3>3 DEF Commits, BetweenPasses
    <3>4. QED
      BY <2>2, <3>1, <3>2, <3>3
         DEF Next, Step, Plain, Branch, BranchAlwaysAnnul, UntakenAnnul, Call, Jump,
             DisableTraps, Rett
  <2>3. QED
    BY <2>1, <2>2
<1>3. QED
  BY <1>1, <1>2, ControlTypeCorrect, PTL DEF Spec
-----------------------------------------------------------------------------
(* The refinement                                                          *)

\* The interrupted contexts, as SparcControl sees them.
Context == [d \in 1 .. Windows - 1 |->
               IF d <= Depth
               THEN [pc |-> r17[Windows - 1 - d], npc |-> r18[Windows - 1 - d]]
               ELSE NoContext]

\* A pass outside of traps moves no window, and so no context.
LEMMA ContextKept ==
    ASSUME UNCHANGED <<trapped, regs>>
    PROVE  Depth' = Depth /\ Context' = Context
BY DEF Depth, Context, regs, NoContext

\* The first pass of a trap is not seen by the program.
LEMMA SavePcIsStutter ==
    ASSUME TypeOK, SavePc
    PROVE  UNCHANGED <<pc, Npc, link, Depth, Context>>
<1>1. Depth' = Depth
  BY ControlConstants DEF SavePc, Depth, TypeOK
<1>2. ASSUME NEW d \in 1 .. Windows - 1, d <= Depth
      PROVE  r17'[Windows - 1 - d] = r17[Windows - 1 - d]
  BY <1>2, ControlConstants DEF SavePc, Depth, TypeOK
<1>3. Context' = Context
  BY <1>1, <1>2 DEF Context, SavePc, NoContext
<1>4. QED
  BY <1>1, <1>3 DEF SavePc, Npc, Advanced

\* The second pass is the trap.
LEMMA EnterHandlerIsTrap ==
    ASSUME TypeOK, BetweenPasses, EnterHandler
    PROVE  Sparc!Trap
<1>1. Depth' = Depth + 1 /\ Depth < Windows - 1 /\ Depth \in 0 .. Windows - 1
  BY ControlConstants DEF EnterHandler, Depth, TypeOK, BetweenPasses
<1>2. r17'[cwp] = pc /\ r18'[cwp] = Npc /\ Windows - 1 - (Depth + 1) = cwp
  BY ControlConstants DEF EnterHandler, BetweenPasses, TypeOK, Npc, Advanced, Depth
<1>3. Context' = [Context EXCEPT ![Depth + 1] = [pc |-> pc, npc |-> Npc]]
  <2>1. ASSUME NEW d \in 1 .. Windows - 1, d # Depth + 1
        PROVE  Context'[d] = Context[d]
    <3>1. Windows - 1 - d # cwp /\ Windows - 1 - d \in Int
      BY <1>2, <2>1, ControlConstants DEF TypeOK, Depth
    <3>2. r17' = r17 /\ r18'[Windows - 1 - d] = r18[Windows - 1 - d]
      BY <3>1, ControlConstants DEF EnterHandler, TypeOK
    <3>3. d <= Depth' <=> d <= Depth
      BY <1>1, <2>1, ControlConstants
    <3>4. QED
      BY <3>2, <3>3 DEF Context, NoContext
  <2>2. Context'[Depth + 1] = [pc |-> pc, npc |-> Npc]
    BY <1>1, <1>2, ControlConstants DEF Context, EnterHandler
  <2>3. QED
    BY <1>1, <2>1, <2>2 DEF Context
<1>4. Npc' = TrapAddress + 1 /\ pc' = TrapAddress /\ link' = link
  BY DEF EnterHandler, Npc, Advanced
<1>5. QED
  BY <1>1, <1>3, <1>4 DEF Sparc!Trap, Context

\* RETT leaves the context that the handler interrupted.
LEMMA RettReturns ==
    ASSUME TypeOK, HandlersCanReturn, Rett
    PROVE  Sparc!ReturnFromTrap
<1>1. Depth' = Depth - 1 /\ Depth \in 1 .. Windows - 1 /\ Windows - 1 - Depth = cwp
  BY ControlConstants DEF Rett, Depth, TypeOK, Commits
<1>2. Context[Depth].npc = r18[cwp]
  BY <1>1 DEF Context
<1>3. Context' = [Context EXCEPT ![Depth] = NoContext]
  <2>1. ASSUME NEW d \in 1 .. Windows - 1, d # Depth
        PROVE  Context'[d] = Context[d]
    <3>1. d <= Depth' <=> d <= Depth
      BY <1>1, <2>1, ControlConstants
    <3>2. QED
      BY <3>1 DEF Context, Rett, NoContext
  <2>2. Context'[Depth] = NoContext
    BY <1>1, ControlConstants DEF Context, NoContext
  <2>3. QED
    BY <1>1, <2>1, <2>2 DEF Context
<1>4. pc' = Npc /\ link' = link
  BY DEF Rett, Npc
<1>5. Npc' = r18[cwp]
  <2>1. cwp \in cwp .. Windows - 2 /\ trapped = 0
    BY ControlConstants DEF Rett, Commits, TypeOK
  <2>2. r18[cwp] # None
    BY <2>1 DEF HandlersCanReturn
  <2>3. QED
    BY <2>2 DEF Rett, Npc, Advanced
<1>6. QED
  BY <1>1, <1>2, <1>3, <1>4, <1>5 DEF Sparc!ReturnFromTrap, Sparc!GoTo, Context

\* A pass that commits an instruction goes where a SPARC goes.
LEMMA CommitIsInstruction ==
    ASSUME TypeOK, InBounds, UNCHANGED <<trapped, regs>>,
           \/ Plain \/ DisableTraps \/ UntakenAnnul
           \/ \E disp \in Disps : Branch(disp) \/ BranchAlwaysAnnul(disp) \/ Call(disp)
           \/ \E target \in Addresses : Jump(target)
    PROVE  Sparc!ControlNext
<1> USE DEF Npc, Advanced, None, Addresses, TypeOK
<1>1. Depth' = Depth /\ Context' = Context
  BY ContextKept
<1>2. Npc \in Int /\ pc \in Int
  BY ControlConstants
<1>3. CASE Plain \/ DisableTraps
  <2>1. pc' = Npc /\ Npc' = Npc + 1 /\ link' = link
    BY <1>3 DEF Plain, DisableTraps
  <2>2. Sparc!Sequential
    BY <1>1, <2>1 DEF Sparc!Sequential, Sparc!GoTo, Context
  <2>3. QED
    BY <2>2 DEF Sparc!ControlNext
<1>4. CASE UntakenAnnul
  <2>1. pc' = Npc + 1 /\ Npc' = Npc + 2 /\ link' = link
    BY <1>2, <1>4 DEF UntakenAnnul
  <2>2. Sparc!SkipSlot
    BY <1>1, <2>1 DEF Sparc!SkipSlot, Context
  <2>3. QED
    BY <2>2 DEF Sparc!ControlNext
<1>5. ASSUME NEW disp \in Disps, NotInSlot
      PROVE  Near(disp) = pc + disp /\ disp \in Int
  BY <1>2, <1>5, ControlConstants DEF NotInSlot, Near
<1>6. ASSUME NEW disp \in Disps, Branch(disp) PROVE Sparc!ControlNext
  <2>1. pc' = Npc /\ Npc' = pc + disp /\ link' = link
    BY <1>5, <1>6 DEF Branch
  <2>2. Sparc!TakeBranch(disp)
    BY <1>1, <2>1 DEF Sparc!TakeBranch, Sparc!GoTo, Context
  <2>3. QED
    BY <2>2 DEF Sparc!ControlNext
<1>7. ASSUME NEW disp \in Disps, BranchAlwaysAnnul(disp) PROVE Sparc!ControlNext
  <2>1. pc' = pc + disp /\ Npc' = pc + disp + 1 /\ link' = link
    BY <1>5, <1>7 DEF BranchAlwaysAnnul
  <2>2. Sparc!BranchAlwaysAnnul(disp)
    BY <1>1, <2>1 DEF Sparc!BranchAlwaysAnnul, Context
  <2>3. QED
    BY <2>2 DEF Sparc!ControlNext
<1>8. ASSUME NEW disp \in Disps, Call(disp) PROVE Sparc!ControlNext
  <2>1. pc' = Npc /\ Npc' = pc + disp /\ link' = pc
    BY <1>2, <1>5, <1>8 DEF Call, NotInSlot
  <2>2. Sparc!CallTo(pc + disp)
    BY <1>1, <2>1 DEF Sparc!CallTo, Sparc!GoTo, Context
  <2>3. QED
    BY <2>2 DEF Sparc!ControlNext
<1>9. ASSUME NEW target \in Addresses, Jump(target) PROVE Sparc!ControlNext
  <2>1. pc' = Npc /\ Npc' = target /\ link' = pc
    BY <1>2, <1>9 DEF Jump, NotInSlot
  <2>2. Sparc!CallTo(target)
    BY <1>1, <2>1 DEF Sparc!CallTo, Sparc!GoTo, Context
  <2>3. QED
    BY <2>2 DEF Sparc!ControlNext
<1>10. QED
  BY <1>3, <1>4, <1>6, <1>7, <1>8, <1>9

\* The handlers that run have addresses to return to.
THEOREM HandlersReturn == Spec => []HandlersCanReturn
<1>1. Init => HandlersCanReturn
  BY ControlConstants DEF Init, HandlersCanReturn
<1>2. TypeOK /\ HandlersCanReturn /\ [Next]_vars => HandlersCanReturn'
  <2> SUFFICES ASSUME TypeOK, HandlersCanReturn, [Next]_vars PROVE HandlersCanReturn'
    OBVIOUS
  <2> USE DEF HandlersCanReturn, TypeOK
  <2>1. CASE UNCHANGED <<trapped, regs>>
    BY <2>1 DEF regs
  <2>2. CASE SavePc
    BY <2>2, ControlConstants DEF SavePc
  <2>3. CASE EnterHandler
    BY <2>3, ControlConstants DEF EnterHandler, None, Addresses
  <2>4. CASE Rett
    BY <2>4, ControlConstants DEF Rett, Commits
  <2>5. QED
    BY <2>1, <2>2, <2>3, <2>4
       DEF Next, Step, Plain, Branch, BranchAlwaysAnnul, UntakenAnnul, Call, Jump,
           DisableTraps, vars
<1>3. QED
  BY <1>1, <1>2, ControlTypeCorrect, PTL DEF Spec

\* Whatever branches, jumps, traps and returns it executes, a program sees a
\* SPARC, for which a trap is one step that saves its pc and npc.
THEOREM SparcImplemented == Spec => ImplementsSparc
<1>1. Init => Sparc!ControlInit
  <2> SUFFICES ASSUME Init PROVE Sparc!ControlInit
    OBVIOUS
  <2>1. Depth = 0
    BY ControlConstants DEF Init, Depth
  <2>2. Context = [d \in 1 .. Windows - 1 |-> NoContext]
    BY <2>1 DEF Context
  <2>3. QED
    BY <2>1, <2>2 DEF Init, Sparc!ControlInit, Context, Npc, Advanced
<1>2. TypeOK /\ BetweenPasses /\ HandlersCanReturn /\ [Next]_vars
         => [Sparc!ControlNext]_(Sparc!controlVars)
  <2> SUFFICES ASSUME TypeOK, BetweenPasses, HandlersCanReturn, [Next]_vars
               PROVE  Sparc!ControlNext \/ UNCHANGED Sparc!controlVars
    OBVIOUS
  <2>1. CASE UNCHANGED vars
    BY <2>1, ContextKept DEF vars, regs, Sparc!controlVars, Context, Npc, Advanced
  <2>2. CASE SavePc
    BY <2>2, SavePcIsStutter DEF Sparc!controlVars, Context
  <2>3. CASE EnterHandler
    BY <2>3, EnterHandlerIsTrap DEF Sparc!ControlNext
  <2>4. CASE Rett
    BY <2>4, RettReturns DEF Sparc!ControlNext
  <2>5. CASE InBounds /\ ~SavePc /\ ~EnterHandler /\ ~Rett /\ Step
    <3>1. UNCHANGED <<trapped, regs>>
      BY <2>5 DEF Step, Plain, Branch, BranchAlwaysAnnul, UntakenAnnul, Call, Jump,
                  DisableTraps
    <3>2. QED
      BY <2>5, <3>1, CommitIsInstruction DEF Step
  <2>6. QED
    BY <2>1, <2>2, <2>3, <2>4, <2>5 DEF Next
<1>3. QED
  BY <1>1, <1>2, ControlTypeCorrect, PassesAreOne, HandlersReturn, PTL
     DEF Spec, ImplementsSparc, Sparc!ControlSpec

-----------------------------------------------------------------------------
(* Words of any width, for any number of timers: none leaves its width, a  *)
(* missed deadline is one that has run out, and the words implement timers *)
(* that stop at zero; the last two as long as every timer is set again in  *)
(* time.                                                                   *)

\* The values of registers and the words of timers (set_dt, decrement).
LEMMA WordsStayWords ==
    /\ \A v \in Unsigned : Signed(v) \in Word
    /\ \A x \in Word : LessOne(x) \in Word
BY WordConstants DEF Unsigned, Signed, Word, LessOne

\* What a timer has left counts down with its word, and stops where the word goes on.
LEMMA LeftCounts ==
    ASSUME NEW x \in Word, x > 1 - Half
    PROVE  /\ Left(LessOne(x)) = IF Left(x) > 0 THEN Left(x) - 1 ELSE 0
           /\ LessOne(x) # -Half
           /\ (Left(LessOne(x)) = 0) <=> (LessOne(LessOne(x)) < 0)
           /\ (LessOne(LessOne(x)) < 0) <=> (LessOne(x) <= 0)
           /\ x <= 0 => LessOne(x) <= 0
BY WordConstants DEF Word, LessOne, Left

-----------------------------------------------------------------------------

LEMMA InitType == WordInit => WordTypeOK
BY WordConstants DEF WordInit, WordTypeOK, Word, Unsigned, NoTimer

LEMMA StepType == WordTypeOK /\ [WordNext]_wordVars => WordTypeOK'
<1> SUFFICES ASSUME WordTypeOK, [WordNext]_wordVars PROVE WordTypeOK'
    OBVIOUS
<1> USE DEF WordTypeOK
<1>0. 0 \in Unsigned BY WordConstants DEF Unsigned
<1>1. CASE Decrement
  <2>1. dt' \in [Timers -> Word] BY <1>1, WordsStayWords DEF Decrement
  <2>2. dtStatus' \in [Timers -> {"UNSET", "SET", "MISSED"}] BY <1>1 DEF Decrement
  <2> QED BY <1>1, <2>1, <2>2 DEF Decrement
<1>2. CASE SetDt
  <2>1. dt' \in [Timers -> Word] BY <1>2, WordsStayWords DEF SetDt
  <2> QED BY <1>0, <1>2, <2>1 DEF SetDt
<1>3. CASE Squashed
  BY <1>0, <1>3 DEF Squashed
<1>4. ASSUME NEW i \in Timers, NEW v \in Unsigned, NEW deadload \in BOOLEAN,
             NEW deadbranch \in BOOLEAN, Dead(i, v, deadload, deadbranch)
      PROVE  WordTypeOK'
  BY <1>4 DEF Dead
<1>5. ASSUME NEW i \in Timers, Trapped(i) PROVE WordTypeOK'
  BY <1>5 DEF Trapped
<1>6. CASE UNCHANGED wordVars
  BY <1>6 DEF wordVars
<1> QED BY <1>1, <1>2, <1>3, <1>4, <1>5, <1>6 DEF WordNext

\* Every variable of the timers stays in its range, whatever the program does:
\* decrement_deadline_timers and set_dt keep to the width of a word.
THEOREM TimersTypeCorrect == WordSpec => []WordTypeOK
BY InitType, StepType, PTL DEF WordSpec

-----------------------------------------------------------------------------
\* The timer whose DEAD is on its way is not missed: the DEAD took the miss back.
TakenBack == timer # NoTimer => dtStatus[timer] # "MISSED"
Inv == MissedHasRunOut /\ TakenBack

LEMMA InitInv == WordInit => Inv
BY DEF WordInit, Inv, MissedHasRunOut, TakenBack

\* Every timer is far enough from the least word whenever it is decremented.
LEMMA StepInv ==
    ASSUME Renewed = TRUE
    PROVE  WordTypeOK /\ Inv /\ [WordNext]_wordVars => Inv'
<1> SUFFICES ASSUME WordTypeOK, Inv, [WordNext]_wordVars PROVE Inv'
    OBVIOUS
<1> USE DEF WordTypeOK, Inv, MissedHasRunOut, TakenBack
<1>1. CASE Decrement
  <2>1. ASSUME NEW i \in Timers, dtStatus'[i] = "MISSED" PROVE dt'[i] <= 0
    <3>1. dt[i] \in Word /\ dt[i] > 1 - Half /\ dt'[i] = LessOne(dt[i])
      BY <1>1 DEF Decrement
    <3>2. CASE dtStatus[i] = "MISSED"
      BY <3>1, <3>2, LeftCounts
    <3>3. CASE dtStatus[i] # "MISSED"
      <4>1. LessOne(dt'[i]) < 0 \/ dt'[i] = -Half BY <1>1, <2>1, <3>3 DEF Decrement
      <4> QED BY <3>1, <4>1, LeftCounts
    <3> QED BY <3>2, <3>3
  <2> QED BY <1>1, <2>1 DEF Decrement
<1>2. CASE SetDt
  BY <1>2 DEF SetDt
<1>3. CASE Squashed
  BY <1>3 DEF Squashed
<1>4. ASSUME NEW i \in Timers, NEW v \in Unsigned, NEW deadload \in BOOLEAN,
             NEW deadbranch \in BOOLEAN, Dead(i, v, deadload, deadbranch)
      PROVE  Inv'
  BY <1>4 DEF Dead
<1>5. ASSUME NEW i \in Timers, Trapped(i) PROVE Inv'
  BY <1>5 DEF Trapped
<1>6. CASE UNCHANGED wordVars
  BY <1>6 DEF wordVars
<1> QED BY <1>1, <1>2, <1>3, <1>4, <1>5, <1>6 DEF WordNext

\* A deadline that missed_deadline reports has run out, as long as the program
\* sets every timer again before its word has gone round.
THEOREM MissesAreReal ==
    ASSUME Renewed = TRUE
    PROVE  WordSpec => []MissedHasRunOut
<1>1. Inv => MissedHasRunOut BY DEF Inv
<1> QED BY <1>1, InitInv, StepInv, TimersTypeCorrect, PTL DEF WordSpec

-----------------------------------------------------------------------------

\* The words at the start are timers at zero.
LEMMA InitMaps == WordInit => StopAtZero!TimersInit
<1> SUFFICES ASSUME WordInit PROVE StopAtZero!TimersInit
    OBVIOUS
<1>1. Left(0) = 0 /\ Left(Signed(0)) = 0 BY WordConstants DEF Left, Signed
<1> QED BY <1>1 DEF WordInit, StopAtZero!TimersInit, StopAtZero!NoTimer, NoTimer

\* Every step on the words is the step of the same name on the timers.
LEMMA StepMaps ==
    ASSUME Renewed = TRUE
    PROVE  WordTypeOK /\ [WordNext]_wordVars => [StopAtZero!TimersNext]_(StopAtZero!timerVars)
<1> SUFFICES ASSUME WordTypeOK, [WordNext]_wordVars
             PROVE  StopAtZero!TimersNext \/ UNCHANGED StopAtZero!timerVars
    OBVIOUS
<1> USE DEF WordTypeOK, StopAtZero!NoTimer, NoTimer
<1>0. Left(Signed(0)) = 0 BY WordConstants DEF Left, Signed
<1>1. CASE Decrement
  <2>1. ASSUME NEW i \in Timers
        PROVE  /\ Left(dt'[i]) = IF Left(dt[i]) > 0 THEN Left(dt[i]) - 1 ELSE 0
               /\ dtStatus'[i] = IF Left(dt'[i]) = 0 /\ dtStatus[i] = "SET"
                                 THEN "MISSED" ELSE dtStatus[i]
    <3>1. dt[i] \in Word /\ dt[i] > 1 - Half /\ dt'[i] = LessOne(dt[i])
      BY <1>1 DEF Decrement
    <3>2. PICK folded \in BOOLEAN :
             dtStatus'[i] = IF dtStatus[i] = "SET"
                               /\ (LessOne(dt'[i]) < 0 \/ (folded /\ dt'[i] = -Half))
                            THEN "MISSED" ELSE dtStatus[i]
      BY <1>1 DEF Decrement
    <3> QED BY <3>1, <3>2, LeftCounts
  <2>2. dtStatus' = [i \in Timers |-> dtStatus'[i]] BY <1>1 DEF Decrement
  <2>3. StopAtZero!Count
    BY <1>1, <2>1, <2>2 DEF Decrement, StopAtZero!Count
  <2> QED BY <2>3 DEF StopAtZero!TimersNext
<1>2. CASE SetDt
  <2>1. timer \in Timers /\ dt'[timer] = Signed(value) BY <1>2 DEF SetDt
  <2>2. \A i \in Timers : i # timer => dt'[i] = dt[i] BY <1>2 DEF SetDt
  <2>3. [i \in Timers |-> Left(dt'[i])]
           = [[i \in Timers |-> Left(dt[i])] EXCEPT ![timer] = Left(Signed(value))]
    BY <2>1, <2>2
  <2>4. StopAtZero!Start
    BY <1>0, <1>2, <2>3 DEF SetDt, StopAtZero!Start
  <2> QED BY <2>4 DEF StopAtZero!TimersNext
<1>3. CASE Squashed
  <2>1. StopAtZero!Squash
    BY <1>0, <1>3 DEF Squashed, StopAtZero!Squash
  <2> QED BY <2>1 DEF StopAtZero!TimersNext
<1>4. ASSUME NEW i \in Timers, NEW v \in Unsigned, NEW deadload \in BOOLEAN,
             NEW deadbranch \in BOOLEAN, Dead(i, v, deadload, deadbranch)
      PROVE  StopAtZero!TimersNext
  <2>1. Left(Signed(v)) \in 0 .. Half - 1
    BY WordConstants DEF Left, Signed, Unsigned
  <2>2. dt[i] <= 0 => Left(dt[i]) = 0
    BY WordConstants DEF Left, Word
  <2>3. StopAtZero!Pass(i, Left(Signed(v)), deadload, deadbranch)
    BY <1>4, <2>2 DEF Dead, StopAtZero!Pass
  <2> QED BY <2>1, <2>3 DEF StopAtZero!TimersNext
<1>5. ASSUME NEW i \in Timers, Trapped(i) PROVE StopAtZero!TimersNext
  <2>1. StopAtZero!Serve(i)
    BY <1>5 DEF Trapped, StopAtZero!Serve
  <2> QED BY <2>1 DEF StopAtZero!TimersNext
<1>6. CASE UNCHANGED wordVars
  BY <1>6 DEF wordVars, StopAtZero!timerVars
<1> QED BY <1>1, <1>2, <1>3, <1>4, <1>5, <1>6 DEF WordNext

\* The words that special_reg counts down without end are timers that stop at
\* zero, as long as the program sets every timer again in time.
THEOREM WordsImplementTimers ==
    ASSUME Renewed = TRUE
    PROVE  WordSpec => ImplementsTimers
BY InitMaps, StepMaps, TimersTypeCorrect, PTL DEF WordSpec, ImplementsTimers, StopAtZero!TimersSpec

-----------------------------------------------------------------------------
(* RegisterWindows: the windows are cut into blocks of Group registers.  A *)
(* frame's locals have a block of their own, and the frames' ins and outs  *)
(* share one; no two frames that are there at once have a block in common. *)

\* The cell of register g of block b.
Place(b, g) == b * Group + g

\* The block of what is on the stack as shared[k], and of the locals of frame k.
SharedBlock(k) ==
    CASE k = 1 -> 2
      [] k = 2 -> 0
      [] OTHER -> 2 * (FileWindows + 2 - k)
LocalBlock(k) == IF k = 1 THEN 1 ELSE 2 * (FileWindows + 1 - k) + 1

Blocks == 0 .. 2 * FileWindows - 1
Offsets == 0 .. Group - 1

\* The frames that there may be, with the one that a SAVE or a trap makes.
Frames == 1 .. FileWindows - 1

\* What a remainder is.
LEMMA Remainder ==
    ASSUME NEW m \in Nat \ {0}, NEW q \in Int, NEW r \in 0 .. m - 1
    PROVE  (m * q + r) % m = r
OBVIOUS

\* What a number is made of.
LEMMA Parts ==
    ASSUME NEW c \in Nat, NEW m \in Nat \ {0}
    PROVE  c = m * (c \div m) + (c % m) /\ c % m \in 0 .. m - 1 /\ c \div m \in Nat
OBVIOUS

LEMMA Sizes ==
    /\ FileWindows \in Nat /\ FileWindows >= 2
    /\ Group \in Nat /\ Group >= 2
BY WindowConstants

LEMMA PlaceIsCell ==
    ASSUME NEW b \in Blocks, NEW g \in Offsets
    PROVE  Place(b, g) \in Cells
<1>1. /\ b \in Nat /\ g \in Nat /\ g < Group /\ Group \in Nat /\ FileWindows \in Nat
      /\ b <= 2 * FileWindows - 1
  BY Sizes DEF Blocks, Offsets
<1>2. PICK d \in Nat : 2 * FileWindows = b + 1 + d
  <2>1. 2 * FileWindows - b - 1 \in Nat /\ 2 * FileWindows = b + 1 + (2 * FileWindows - b - 1)
    BY <1>1
  <2> QED BY <2>1
<1>3. Group * (b + 1 + d) = Group * b + Group + Group * d /\ Group * d >= 0 /\ Group * b >= 0
  BY <1>1
<1>4. 2 * Group * FileWindows = Group * (2 * FileWindows)
  BY <1>1
<1> QED BY <1>1, <1>2, <1>3, <1>4 DEF Place, Cells

\* Blocks do not overlap.
LEMMA PlacesApart ==
    ASSUME NEW b \in Blocks, NEW c \in Blocks, NEW g \in Offsets, NEW h \in Offsets,
           Place(b, g) = Place(c, h)
    PROVE  b = c /\ g = h
<1>1. /\ b \in Nat /\ c \in Nat /\ Group \in Nat /\ g \in Nat /\ h \in Nat
      /\ g < Group /\ h < Group
      /\ b * Group + g = c * Group + h
  BY Sizes DEF Blocks, Offsets, Place
<1>2. ASSUME NEW x \in Nat, NEW y \in Nat, NEW u \in Nat, NEW v \in Nat, x < y,
             u < Group, v < Group
      PROVE  x * Group + u # y * Group + v
  <2>1. PICK d \in Nat : y = x + 1 + d
    <3>1. y - x - 1 \in Nat /\ y = x + 1 + (y - x - 1)
      BY <1>2
    <3> QED BY <3>1
  <2>2. (x + 1 + d) * Group = x * Group + Group + d * Group /\ d * Group >= 0
    BY <1>1
  <2>3. x * Group \in Int
    BY <1>1
  <2> QED BY <1>1, <1>2, <2>1, <2>2, <2>3
<1>3. b = c
  BY <1>1, <1>2
<1> QED BY <1>1, <1>3

\* The windows of the frames, one below the other.
LEMMA WindowOfFrame ==
    ASSUME NEW k \in Frames
    PROVE  WindowOf(k) = IF k = 1 THEN 0 ELSE FileWindows + 1 - k
<1>1. CASE k = 1
  BY <1>1, Sizes DEF WindowOf
<1>2. CASE k # 1
  <2>1. FileWindows + 1 - k \in 0 .. FileWindows - 1
    BY <1>2, Sizes DEF Frames
  <2>2. (FileWindows * (-1) + (FileWindows + 1 - k)) % FileWindows = FileWindows + 1 - k
    BY <2>1, Sizes, Remainder
  <2>3. FileWindows * (-1) + (FileWindows + 1 - k) = 1 - k
    BY Sizes DEF Frames
  <2> QED BY <1>2, <2>2, <2>3 DEF WindowOf
<1> QED BY <1>1, <1>2

\* A window has the cells of three blocks, the last of which may be the first.
LEMMA CellIsPlace ==
    ASSUME NEW w \in 0 .. FileWindows - 1, NEW kind \in 1 .. 3, NEW g \in Offsets
    PROVE  Cell(kind * Group + g, w) =
               Place(IF 2 * w + kind - 1 = 2 * FileWindows THEN 0 ELSE 2 * w + kind - 1, g)
<1> DEFINE a == 2 * w + kind - 1
           m == 2 * Group * FileWindows
<1>1. a \in 0 .. 2 * FileWindows /\ a \in Nat
  BY Sizes
<1>2. w * 2 * Group + (kind * Group + g) - Group = a * Group + g
  <2>1. kind = 1 \/ kind = 2 \/ kind = 3
    OBVIOUS
  <2> QED BY <2>1, Sizes DEF Offsets
<1>3. m \in Nat \ {0} /\ 0 \in Blocks /\ g \in Nat
  <2>1. 2 * Group \in Nat /\ 2 * Group >= 2 /\ FileWindows >= 2
    BY Sizes
  <2>2. ASSUME NEW x \in Nat, NEW y \in Nat, x >= 2, y >= 2 PROVE x * y > 0
    BY <2>2
  <2>3. 2 * Group * FileWindows > 0
    BY <2>1, <2>2, Sizes
  <2> QED BY <2>3, Sizes DEF Blocks, Offsets
<1>4. CASE a = 2 * FileWindows
  <2>1. a * Group + g = m * 1 + Place(0, g)
    BY <1>4, Sizes DEF Place, Offsets
  <2>2. Place(0, g) \in 0 .. m - 1
    BY <1>3, PlaceIsCell DEF Cells
  <2>3. (m * 1 + Place(0, g)) % m = Place(0, g)
    <3> HIDE DEF m
    <3> QED BY <1>3, <2>2, Remainder
  <2> QED BY <1>2, <1>4, <2>1, <2>3 DEF Cell
<1>5. CASE a # 2 * FileWindows
  <2>1. a \in Blocks
    BY <1>1, <1>5, Sizes DEF Blocks
  <2>2. Place(a, g) \in 0 .. m - 1
    BY <2>1, PlaceIsCell DEF Cells
  <2>3. a * Group + g = m * 0 + Place(a, g)
    BY <1>1, <1>3, Sizes DEF Place, Offsets
  <2>4. (m * 0 + Place(a, g)) % m = Place(a, g)
    <3> HIDE DEF m, a
    <3> QED BY <1>3, <2>2, Remainder
  <2> QED BY <1>2, <1>5, <2>3, <2>4 DEF Cell
<1> QED BY <1>4, <1>5

LEMMA BlocksAreBlocks ==
    /\ \A k \in 1 .. FileWindows : SharedBlock(k) \in Blocks
    /\ \A k \in Frames : LocalBlock(k) \in Blocks
BY Sizes DEF SharedBlock, LocalBlock, Blocks, Frames

\* No two frames meet in a block.
LEMMA BlocksApart ==
    /\ \A j, k \in 1 .. FileWindows : SharedBlock(j) = SharedBlock(k) => j = k
    /\ \A j, k \in Frames : LocalBlock(j) = LocalBlock(k) => j = k
    /\ \A j \in 1 .. FileWindows, k \in Frames : SharedBlock(j) # LocalBlock(k)
BY Sizes DEF SharedBlock, LocalBlock, Frames

\* Where a frame finds its outs, locals and ins.
LEMMA CellsOfFrame ==
    ASSUME NEW k \in Frames, NEW g \in Offsets
    PROVE  /\ Cell(Group + g, WindowOf(k)) = Place(SharedBlock(k + 1), g)
           /\ Cell(2 * Group + g, WindowOf(k)) = Place(LocalBlock(k), g)
           /\ Cell(3 * Group + g, WindowOf(k)) = Place(SharedBlock(k), g)
<1> DEFINE w == WindowOf(k)
<1>1. w = (IF k = 1 THEN 0 ELSE FileWindows + 1 - k) /\ w \in 0 .. FileWindows - 1
  BY WindowOfFrame, Sizes DEF Frames
<1>2. /\ Cell(1 * Group + g, w) = Place(2 * w, g)
      /\ Cell(2 * Group + g, w) = Place(2 * w + 1, g)
      /\ Cell(3 * Group + g, w) = Place(IF 2 * w + 2 = 2 * FileWindows THEN 0 ELSE 2 * w + 2, g)
  <2> HIDE DEF w
  <2>1. 2 * w + 1 - 1 = 2 * w /\ 2 * w + 2 - 1 = 2 * w + 1 /\ 2 * w + 3 - 1 = 2 * w + 2
        /\ 2 * w # 2 * FileWindows /\ 2 * w + 1 # 2 * FileWindows
    BY <1>1, Sizes
  <2> QED BY <1>1, <2>1, CellIsPlace
<1>3. /\ SharedBlock(k + 1) = 2 * w
      /\ LocalBlock(k) = 2 * w + 1
      /\ SharedBlock(k) = IF 2 * w + 2 = 2 * FileWindows THEN 0 ELSE 2 * w + 2
  BY <1>1, Sizes DEF SharedBlock, LocalBlock, Frames
<1>4. 1 * Group = Group
  BY Sizes
<1> QED BY <1>2, <1>3, <1>4

-----------------------------------------------------------------------------

SharedIn(win, n) == [k \in 1 .. n + 1 |-> [g \in Offsets |-> win[Place(SharedBlock(k), g)]]]
LocalsIn(win, n) == [k \in 1 .. n |-> [g \in Offsets |-> win[Place(LocalBlock(k), g)]]]

\* The mapping of the refinement, by blocks.
LEMMA MappedByBlocks ==
    ASSUME NEW win, NEW n \in Frames
    PROVE  /\ [k \in 1 .. n + 1 |->
                  IF k = 1 THEN [g \in Offsets |-> win[Cell(3 * Group + g, 0)]]
                  ELSE [g \in Offsets |-> win[Cell(1 * Group + g, WindowOf(k - 1))]]]
                = SharedIn(win, n)
           /\ [k \in 1 .. n |-> [g \in Offsets |-> win[Cell(2 * Group + g, WindowOf(k))]]]
                = LocalsIn(win, n)
<1>1. 1 \in Frames /\ WindowOf(1) = 0 /\ 1 * Group = Group
  BY WindowOfFrame, Sizes DEF Frames
<1>2. ASSUME NEW g \in Offsets PROVE Cell(3 * Group + g, 0) = Place(SharedBlock(1), g)
  BY <1>1, CellsOfFrame
<1>3. ASSUME NEW k \in 2 .. n + 1, NEW g \in Offsets
      PROVE  Cell(1 * Group + g, WindowOf(k - 1)) = Place(SharedBlock(k), g)
  <2>1. k - 1 \in Frames /\ (k - 1) + 1 = k
    BY Sizes DEF Frames
  <2> QED BY <1>1, <2>1, CellsOfFrame
<1>4. ASSUME NEW k \in 1 .. n, NEW g \in Offsets
      PROVE  Cell(2 * Group + g, WindowOf(k)) = Place(LocalBlock(k), g)
  BY CellsOfFrame, Sizes DEF Frames
<1>5. \A k \in 1 .. n + 1 : k = 1 \/ k \in 2 .. n + 1
  BY DEF Frames
<1> QED BY <1>2, <1>3, <1>4, <1>5 DEF SharedIn, LocalsIn

\* What register names are made of.
LEMMA RegisterParts ==
    ASSUME NEW r \in Registers
    PROVE  /\ r \div Group \in 0 .. 3 /\ r % Group \in Offsets
           /\ r = (r \div Group) * Group + (r % Group)
           /\ r \div Group = 0 <=> r < Group
<1>1. /\ r = Group * (r \div Group) + (r % Group)
      /\ r % Group \in 0 .. Group - 1 /\ r \div Group \in Nat
  <2>1. r \in Nat /\ Group \in Nat \ {0}
    BY Sizes DEF Registers
  <2> QED BY <2>1, Parts
<1> DEFINE d == r \div Group
           g == r % Group
<1>2. d \in Nat /\ g \in 0 .. Group - 1 /\ r = Group * d + g /\ r \in 0 .. 4 * Group - 1
  BY <1>1 DEF Registers
<1> HIDE DEF d, g
<1>3. d <= 3
  <2>1. CASE d > 3
    <3>1. PICK e \in Nat : d = 4 + e
      <4>1. d - 4 \in Nat /\ d = 4 + (d - 4)
        BY <1>2, <2>1
      <4> QED BY <4>1
    <3>2. Group * (4 + e) = 4 * Group + Group * e /\ Group * e >= 0
      BY Sizes
    <3> QED BY <1>2, <3>1, <3>2, Sizes
  <2> QED BY <1>2, <2>1
<1>4. Group * d = d * Group /\ (d = 0 <=> r < Group)
  <2>1. d = 0 \/ d = 1 \/ d = 2 \/ d = 3
    BY <1>2, <1>3
  <2> QED BY <1>2, <2>1, Sizes
<1>5. d \in 0 .. 3 /\ g \in Offsets /\ r = d * Group + g
  BY <1>2, <1>3, <1>4 DEF Offsets
<1> QED BY <1>4, <1>5 DEF d, g

\* The cell of a register, for the frame it is looked for in.
LEMMA CellOfRegister ==
    ASSUME NEW r \in Registers, NEW k \in Frames
    PROVE  LET g == r % Group IN
           /\ r \div Group = 1 => Cell(r, WindowOf(k)) = Place(SharedBlock(k + 1), g)
           /\ r \div Group = 2 => Cell(r, WindowOf(k)) = Place(LocalBlock(k), g)
           /\ r \div Group = 3 => Cell(r, WindowOf(k)) = Place(SharedBlock(k), g)
<1> DEFINE d == r \div Group
           g == r % Group
<1>1. d \in 0 .. 3 /\ g \in Offsets /\ r = d * Group + g
  BY RegisterParts
<1>2. 1 * Group = Group
  BY Sizes
<1> HIDE DEF d, g
<1>3. /\ d = 1 => Cell(r, WindowOf(k)) = Place(SharedBlock(k + 1), g)
      /\ d = 2 => Cell(r, WindowOf(k)) = Place(LocalBlock(k), g)
      /\ d = 3 => Cell(r, WindowOf(k)) = Place(SharedBlock(k), g)
  BY <1>1, <1>2, CellsOfFrame
<1> QED BY <1>3 DEF d, g

\* The cells with one of them changed.
Written(new, win, c, v) == new = [win EXCEPT ![c] = v]

\* A register that is written changes its place on the stack, and no other.
LEMMA SharedWritten ==
    ASSUME NEW win \in [Cells -> Value], NEW n \in Frames, NEW j \in 1 .. n + 1,
           NEW h \in Offsets, NEW v \in Value, NEW new \in [Cells -> Value],
           Written(new, win, Place(SharedBlock(j), h), v)
    PROVE  /\ SharedIn(new, n) = [SharedIn(win, n) EXCEPT ![j][h] = v]
           /\ LocalsIn(new, n) = LocalsIn(win, n)
<1>1. /\ \A k \in 1 .. n + 1 : k \in 1 .. FileWindows /\ SharedBlock(k) \in Blocks
      /\ \A k \in 1 .. n : k \in Frames /\ LocalBlock(k) \in Blocks
  BY Sizes, BlocksAreBlocks DEF Frames
<1>2. /\ \A k \in 1 .. n + 1, g \in Offsets : Place(SharedBlock(k), g) \in Cells
      /\ \A k \in 1 .. n, g \in Offsets : Place(LocalBlock(k), g) \in Cells
  BY <1>1, PlaceIsCell
<1>3. ASSUME NEW k \in 1 .. n + 1, NEW g \in Offsets
      PROVE  new[Place(SharedBlock(k), g)] =
                 IF k = j /\ g = h THEN v ELSE win[Place(SharedBlock(k), g)]
  BY <1>1, <1>2, PlacesApart, BlocksApart DEF Written
<1>4. ASSUME NEW k \in 1 .. n, NEW g \in Offsets
      PROVE  new[Place(LocalBlock(k), g)] = win[Place(LocalBlock(k), g)]
  BY <1>1, <1>2, PlacesApart, BlocksApart DEF Written
<1>5. \A x : (\A k \in 1 .. n + 1, g \in Offsets :
                   x[Place(SharedBlock(k), g)] =
                       IF k = j /\ g = h THEN v ELSE win[Place(SharedBlock(k), g)])
               => SharedIn(x, n) = [SharedIn(win, n) EXCEPT ![j][h] = v]
  BY DEF SharedIn
<1>6. LocalsIn(new, n) = LocalsIn(win, n)
  BY <1>4 DEF LocalsIn
<1> QED BY <1>3, <1>5, <1>6

LEMMA LocalWritten ==
    ASSUME NEW win \in [Cells -> Value], NEW n \in Frames, NEW j \in 1 .. n,
           NEW h \in Offsets, NEW v \in Value, NEW new \in [Cells -> Value],
           Written(new, win, Place(LocalBlock(j), h), v)
    PROVE  /\ LocalsIn(new, n) = [LocalsIn(win, n) EXCEPT ![j][h] = v]
           /\ SharedIn(new, n) = SharedIn(win, n)
<1>1. /\ \A k \in 1 .. n + 1 : k \in 1 .. FileWindows /\ SharedBlock(k) \in Blocks
      /\ \A k \in 1 .. n : k \in Frames /\ LocalBlock(k) \in Blocks
  BY Sizes, BlocksAreBlocks DEF Frames
<1>2. /\ \A k \in 1 .. n + 1, g \in Offsets : Place(SharedBlock(k), g) \in Cells
      /\ \A k \in 1 .. n, g \in Offsets : Place(LocalBlock(k), g) \in Cells
  BY <1>1, PlaceIsCell
<1>3. ASSUME NEW k \in 1 .. n, NEW g \in Offsets
      PROVE  new[Place(LocalBlock(k), g)] =
                 IF k = j /\ g = h THEN v ELSE win[Place(LocalBlock(k), g)]
  BY <1>1, <1>2, PlacesApart, BlocksApart DEF Written
<1>4. ASSUME NEW k \in 1 .. n + 1, NEW g \in Offsets
      PROVE  new[Place(SharedBlock(k), g)] = win[Place(SharedBlock(k), g)]
  BY <1>1, <1>2, PlacesApart, BlocksApart DEF Written
<1>5. \A x : (\A k \in 1 .. n, g \in Offsets :
                   x[Place(LocalBlock(k), g)] =
                       IF k = j /\ g = h THEN v ELSE win[Place(LocalBlock(k), g)])
               => LocalsIn(x, n) = [LocalsIn(win, n) EXCEPT ![j][h] = v]
  BY DEF LocalsIn
<1>6. SharedIn(new, n) = SharedIn(win, n)
  BY <1>4 DEF SharedIn
<1> QED BY <1>3, <1>5, <1>6

-----------------------------------------------------------------------------

\* The window pointer is that of the frame on the top.
FileInv == FileTypeOK /\ wp = WindowOf(frames)

LEMMA WindowMoves ==
    ASSUME NEW k \in Frames
    PROVE  /\ WindowOf(k) \in 0 .. FileWindows - 1
           /\ (WindowOf(k) + 0) % FileWindows = WindowOf(k)
           /\ k + 1 \in Frames => (WindowOf(k) + (-1)) % FileWindows = WindowOf(k + 1)
           /\ k - 1 \in Frames => (WindowOf(k) + 1) % FileWindows = WindowOf(k - 1)
<1>1. WindowOf(k) = IF k = 1 THEN 0 ELSE FileWindows + 1 - k
  BY WindowOfFrame
<1>2. WindowOf(k) \in 0 .. FileWindows - 1
  BY <1>1, Sizes DEF Frames
<1>3. \A x \in 0 .. FileWindows - 1 : x % FileWindows = x
  BY Sizes
<1>4. (WindowOf(k) + 0) % FileWindows = WindowOf(k)
  <2>1. WindowOf(k) + 0 = WindowOf(k)
    BY <1>2
  <2> QED BY <1>2, <1>3, <2>1
<1>5. ASSUME k + 1 \in Frames PROVE (WindowOf(k) + (-1)) % FileWindows = WindowOf(k + 1)
  <2>1. WindowOf(k + 1) = FileWindows + 1 - (k + 1) /\ FileWindows - k \in 0 .. FileWindows - 1
    BY <1>5, WindowOfFrame, Sizes DEF Frames
  <2>2. CASE k = 1
    <3>1. WindowOf(k) + (-1) = FileWindows * (-1) + (FileWindows - 1)
      BY <1>1, <2>2, Sizes
    <3>2. (FileWindows * (-1) + (FileWindows - 1)) % FileWindows = FileWindows - 1
      BY Sizes, Remainder
    <3> QED BY <2>1, <2>2, <3>1, <3>2, Sizes
  <2>3. CASE k # 1
    <3>1. WindowOf(k) + (-1) = FileWindows - k
      BY <1>1, <2>3, Sizes DEF Frames
    <3>2. (FileWindows - k) % FileWindows = FileWindows - k
      BY <1>3, <2>1
    <3> QED BY <2>1, <3>1, <3>2, Sizes DEF Frames
  <2> QED BY <2>2, <2>3
<1>6. ASSUME k - 1 \in Frames PROVE (WindowOf(k) + 1) % FileWindows = WindowOf(k - 1)
  <2>1. k # 1 /\ WindowOf(k) + 1 = FileWindows + 2 - k
    BY <1>1, <1>6, Sizes DEF Frames
  <2>2. WindowOf(k - 1) = IF k - 1 = 1 THEN 0 ELSE FileWindows + 1 - (k - 1)
    BY <1>6, WindowOfFrame
  <2>3. CASE k = 2
    <3>1. FileWindows + 2 - k = FileWindows * 1 + 0 /\ 0 \in 0 .. FileWindows - 1
      BY <2>3, Sizes
    <3>2. (FileWindows * 1 + 0) % FileWindows = 0
      BY <3>1, Sizes, Remainder
    <3> QED BY <2>1, <2>2, <2>3, <3>1, <3>2
  <2>4. CASE k # 2
    <3>1. FileWindows + 2 - k \in 0 .. FileWindows - 1
      BY <2>1, <2>4, Sizes DEF Frames
    <3>2. FileWindows + 1 - (k - 1) = FileWindows + 2 - k /\ k - 1 # 1
      BY <2>4, Sizes DEF Frames
    <3> QED BY <1>3, <2>1, <2>2, <3>1, <3>2
  <2> QED BY <2>3, <2>4
<1> QED BY <1>2, <1>4, <1>5, <1>6

LEMMA FramesFit ==
    ASSUME NEW k \in 1 .. MaxFrames
    PROVE  k \in Frames
BY WindowConstants DEF Frames

\* The mapping of a state of the register file, now and after a step.
LEMMA Mapped ==
    ASSUME NEW n \in Frames
    PROVE  /\ frames = n => StackShared = SharedIn(window, n) /\ StackLocals = LocalsIn(window, n)
           /\ frames' = n => /\ StackShared' = SharedIn(window', n)
                             /\ StackLocals' = LocalsIn(window', n)
BY MappedByBlocks DEF StackShared, StackLocals, GroupOf, Offsets

\* A register file has what is written.
LEMMA SetRegTyped ==
    ASSUME FileTypeOK, NEW k \in Frames, NEW r \in Registers, NEW v \in Value,
           SetReg(r, v, WindowOf(k))
    PROVE  /\ global' \in [0 .. Group - 1 -> Value]
           /\ window' \in [Cells -> Value]
BY DEF FileTypeOK, SetReg

\* A frame reads its registers from the stack.
LEMMA Reading ==
    ASSUME FileTypeOK, NEW r \in Registers
    PROVE  /\ GetReg(r, WindowOf(frames)) = Stack!Content(r)
           /\ GetReg(r, WindowOf(frames)) \in Value
<1> DEFINE d == r \div Group
           g == r % Group
<1>1. d \in 0 .. 3 /\ g \in Offsets /\ r = d * Group + g /\ (d = 0 <=> r < Group)
  BY RegisterParts
<1>2. frames \in Frames /\ frames + 1 \in 1 .. FileWindows
  BY FramesFit, Sizes DEF FileTypeOK, Frames
<1>3. /\ d = 1 => Cell(r, WindowOf(frames)) = Place(SharedBlock(frames + 1), g)
      /\ d = 2 => Cell(r, WindowOf(frames)) = Place(LocalBlock(frames), g)
      /\ d = 3 => Cell(r, WindowOf(frames)) = Place(SharedBlock(frames), g)
  BY <1>2, CellOfRegister
<1>4. /\ Place(SharedBlock(frames + 1), g) \in Cells
      /\ Place(LocalBlock(frames), g) \in Cells
      /\ Place(SharedBlock(frames), g) \in Cells
  <2>1. /\ SharedBlock(frames + 1) \in Blocks /\ LocalBlock(frames) \in Blocks
        /\ SharedBlock(frames) \in Blocks
    BY <1>2, Sizes, BlocksAreBlocks DEF Frames
  <2> QED BY <1>1, <2>1, PlaceIsCell
<1>5. StackShared = SharedIn(window, frames) /\ StackLocals = LocalsIn(window, frames)
  BY <1>2, Mapped
<1>6. Len(StackLocals) = frames
  BY <1>2, <1>5 DEF LocalsIn, Frames
<1>7. Stack!Content(r) = CASE d = 0 -> global[g]
                           [] d = 1 -> StackShared[frames + 1][g]
                           [] d = 2 -> StackLocals[frames][g]
                           [] OTHER -> StackShared[frames][g]
  BY <1>6 DEF Stack!Content, Stack!Kind, Stack!Top
<1>8. /\ StackShared[frames + 1][g] = window[Place(SharedBlock(frames + 1), g)]
      /\ StackShared[frames][g] = window[Place(SharedBlock(frames), g)]
      /\ StackLocals[frames][g] = window[Place(LocalBlock(frames), g)]
  <2>1. frames \in 1 .. frames /\ frames \in 1 .. frames + 1 /\ frames + 1 \in 1 .. frames + 1
    BY <1>2 DEF Frames
  <2> HIDE DEF g
  <2> QED BY <1>1, <1>5, <2>1 DEF SharedIn, LocalsIn
<1> HIDE DEF d, g
<1>9. d = 0 => r = g /\ r \in 0 .. Group - 1
  BY <1>1, Sizes DEF Offsets
<1> QED BY <1>1, <1>3, <1>4, <1>7, <1>8, <1>9 DEF GetReg, FileTypeOK

\* And what is written gets to where the frame has its registers.
LEMMA Writing ==
    ASSUME FileTypeOK, NEW n \in Frames, NEW k \in 1 .. n, NEW r \in Registers, NEW v \in Value,
           SetReg(r, v, WindowOf(k)), frames' = n
    PROVE  Stack!Becomes(r, v, k, SharedIn(window, n), LocalsIn(window, n))
<1> DEFINE d == r \div Group
           g == r % Group
<1>1. d \in 0 .. 3 /\ g \in Offsets /\ r = d * Group + g /\ (d = 0 <=> r < Group)
  BY RegisterParts
<1>2. k \in Frames /\ k + 1 \in 1 .. n + 1 /\ k \in 1 .. n + 1 /\ r \in Nat
  BY Sizes DEF Frames, Registers
<1>3. /\ d = 1 => Cell(r, WindowOf(k)) = Place(SharedBlock(k + 1), g)
      /\ d = 2 => Cell(r, WindowOf(k)) = Place(LocalBlock(k), g)
      /\ d = 3 => Cell(r, WindowOf(k)) = Place(SharedBlock(k), g)
  BY <1>2, CellOfRegister
<1>4. StackShared' = SharedIn(window', n) /\ StackLocals' = LocalsIn(window', n)
  BY Mapped
<1>5. Stack!Becomes(r, v, k, SharedIn(window, n), LocalsIn(window, n)) <=>
          /\ global' = IF d = 0 /\ g # 0 THEN [global EXCEPT ![g] = v] ELSE global
          /\ StackShared' = CASE d = 1 -> [SharedIn(window, n) EXCEPT ![k + 1][g] = v]
                              [] d = 3 -> [SharedIn(window, n) EXCEPT ![k][g] = v]
                              [] OTHER -> SharedIn(window, n)
          /\ StackLocals' = IF d = 2 THEN [LocalsIn(window, n) EXCEPT ![k][g] = v]
                                     ELSE LocalsIn(window, n)
  BY DEF Stack!Becomes, Stack!Kind
<1>6. window \in [Cells -> Value] /\ window' \in [Cells -> Value]
  BY <1>2, SetRegTyped DEF FileTypeOK
<1> HIDE DEF d, g
<1>7. CASE d = 0
  <2>1. r = g /\ r < Group /\ (g # 0 <=> r \in 1 .. Group - 1)
    BY <1>1, <1>2, <1>7, Sizes DEF Offsets
  <2>2. window' = window /\ global' = IF g # 0 THEN [global EXCEPT ![g] = v] ELSE global
    BY <1>2, <2>1, Sizes DEF SetReg
  <2> QED BY <1>4, <1>5, <1>7, <2>2
<1>8. CASE d # 0
  <2>1. ~(r < Group) /\ r >= Group /\ ~(r \in 1 .. Group - 1)
    BY <1>1, <1>2, <1>8, Sizes
  <2>2. window' = [window EXCEPT ![Cell(r, WindowOf(k))] = v] /\ global' = global
    BY <2>1 DEF SetReg
  <2>3. CASE d = 1
    <3>1. Written(window', window, Place(SharedBlock(k + 1), g), v)
      BY <1>3, <2>2, <2>3 DEF Written
    <3>2. SharedIn(window', n) = [SharedIn(window, n) EXCEPT ![k + 1][g] = v]
          /\ LocalsIn(window', n) = LocalsIn(window, n)
      BY <1>1, <1>2, <1>6, <3>1, SharedWritten
    <3> QED BY <1>4, <1>5, <2>2, <2>3, <3>2
  <2>4. CASE d = 2
    <3>1. Written(window', window, Place(LocalBlock(k), g), v)
      BY <1>3, <2>2, <2>4 DEF Written
    <3>2. LocalsIn(window', n) = [LocalsIn(window, n) EXCEPT ![k][g] = v]
          /\ SharedIn(window', n) = SharedIn(window, n)
      BY <1>1, <1>2, <1>6, <3>1, LocalWritten
    <3> QED BY <1>4, <1>5, <2>2, <2>4, <3>2
  <2>5. CASE d = 3
    <3>1. Written(window', window, Place(SharedBlock(k), g), v)
      BY <1>3, <2>2, <2>5 DEF Written
    <3>2. SharedIn(window', n) = [SharedIn(window, n) EXCEPT ![k][g] = v]
          /\ LocalsIn(window', n) = LocalsIn(window, n)
      BY <1>1, <1>2, <1>6, <3>1, SharedWritten
    <3> QED BY <1>4, <1>5, <2>2, <2>5, <3>2
  <2> QED BY <1>1, <1>8, <2>3, <2>4, <2>5
<1> QED BY <1>7, <1>8

-----------------------------------------------------------------------------

\* The stack of a state is one of groups of registers.
LEMMA StackShape ==
    ASSUME NEW win \in [Cells -> Value], NEW n \in Frames
    PROVE  /\ SharedIn(win, n) \in [1 .. n + 1 -> Stack!Contents]
           /\ LocalsIn(win, n) \in [1 .. n -> Stack!Contents]
           /\ SharedIn(win, n) \in Seq(Stack!Contents) /\ Len(SharedIn(win, n)) = n + 1
           /\ LocalsIn(win, n) \in Seq(Stack!Contents) /\ Len(LocalsIn(win, n)) = n
<1>1. /\ \A k \in 1 .. n + 1 : k \in 1 .. FileWindows /\ SharedBlock(k) \in Blocks
      /\ \A k \in 1 .. n : k \in Frames /\ LocalBlock(k) \in Blocks
  BY Sizes, BlocksAreBlocks DEF Frames
<1>2. /\ \A k \in 1 .. n + 1, g \in Offsets : win[Place(SharedBlock(k), g)] \in Value
      /\ \A k \in 1 .. n, g \in Offsets : win[Place(LocalBlock(k), g)] \in Value
  BY <1>1, PlaceIsCell
<1>3. /\ SharedIn(win, n) \in [1 .. n + 1 -> Stack!Contents]
      /\ LocalsIn(win, n) \in [1 .. n -> Stack!Contents]
  BY <1>2 DEF SharedIn, LocalsIn, Stack!Contents, Offsets
<1>4. n \in Nat /\ n + 1 \in Nat
  BY DEF Frames
<1>5. \A m \in Nat : \A s \in [1 .. m -> Stack!Contents] :
          s \in Seq(Stack!Contents) /\ Len(s) = m
  <2> SUFFICES ASSUME NEW m \in Nat, NEW s \in [1 .. m -> Stack!Contents]
               PROVE  s \in Seq(Stack!Contents) /\ Len(s) = m
    OBVIOUS
  <2>1. s \in Seq(Stack!Contents)
    BY SeqDef
  <2> QED BY <2>1, LenProperties
<1> QED BY <1>3, <1>4, <1>5

\* What a frame finds in the window that it is given.
NewOuts(win, n) == [g \in Offsets |-> win[Place(SharedBlock(n + 2), g)]]
NewLocals(win, n) == [g \in Offsets |-> win[Place(LocalBlock(n + 1), g)]]

\* The stack of one frame more: a frame pushed, or one yet to be popped.
LEMMA OneFrameMore ==
    ASSUME NEW win \in [Cells -> Value], NEW n \in Frames, n + 1 \in Frames
    PROVE  /\ NewOuts(win, n) \in Stack!Contents
           /\ NewLocals(win, n) \in Stack!Contents
           /\ SharedIn(win, n + 1) = Append(SharedIn(win, n), NewOuts(win, n))
           /\ LocalsIn(win, n + 1) = Append(LocalsIn(win, n), NewLocals(win, n))
           /\ SubSeq(SharedIn(win, n + 1), 1, n + 1) = SharedIn(win, n)
           /\ SubSeq(LocalsIn(win, n + 1), 1, n) = LocalsIn(win, n)
<1> DEFINE S == SharedIn(win, n)
           L == LocalsIn(win, n)
           S1 == SharedIn(win, n + 1)
           L1 == LocalsIn(win, n + 1)
           o == NewOuts(win, n)
           l == NewLocals(win, n)
<1>1. n \in Nat /\ n >= 1 /\ (n + 1) + 1 = n + 2
  BY DEF Frames
<1>2. /\ S \in Seq(Stack!Contents) /\ Len(S) = n + 1 /\ S \in [1 .. n + 1 -> Stack!Contents]
      /\ L \in Seq(Stack!Contents) /\ Len(L) = n /\ L \in [1 .. n -> Stack!Contents]
      /\ S1 \in Seq(Stack!Contents) /\ Len(S1) = n + 2
      /\ S1 \in [1 .. n + 2 -> Stack!Contents]
      /\ L1 \in Seq(Stack!Contents) /\ Len(L1) = n + 1
      /\ L1 \in [1 .. n + 1 -> Stack!Contents]
  BY <1>1, StackShape
<1>3. /\ \A k \in 1 .. n + 1 : S1[k] = S[k]
      /\ \A k \in 1 .. n : L1[k] = L[k]
      /\ S1[n + 2] = o /\ L1[n + 1] = l
  BY <1>1 DEF SharedIn, LocalsIn, NewOuts, NewLocals
<1>4. o \in Stack!Contents /\ l \in Stack!Contents
  BY <1>1, <1>2, <1>3
<1> HIDE DEF S, L, S1, L1, o, l
<1>5. S1 = Append(S, o)
  <2>1. /\ Append(S, o) \in Seq(Stack!Contents) /\ Len(Append(S, o)) = n + 2
        /\ \A k \in 1 .. n + 1 : Append(S, o)[k] = S[k]
        /\ Append(S, o)[n + 2] = o
    BY <1>1, <1>2, <1>4, AppendProperties
  <2>2. \A k \in 1 .. n + 2 : S1[k] = Append(S, o)[k]
    BY <1>1, <1>3, <2>1
  <2> QED BY <1>2, <2>1, <2>2, SeqEqual
<1>6. L1 = Append(L, l)
  <2>1. /\ Append(L, l) \in Seq(Stack!Contents) /\ Len(Append(L, l)) = n + 1
        /\ \A k \in 1 .. n : Append(L, l)[k] = L[k]
        /\ Append(L, l)[n + 1] = l
    BY <1>1, <1>2, <1>4, AppendProperties
  <2>2. \A k \in 1 .. n + 1 : L1[k] = Append(L, l)[k]
    BY <1>1, <1>3, <2>1
  <2> QED BY <1>2, <2>1, <2>2, SeqEqual
<1>7. SubSeq(S1, 1, n + 1) = S
  <2>1. /\ SubSeq(S1, 1, n + 1) \in Seq(Stack!Contents)
        /\ Len(SubSeq(S1, 1, n + 1)) = n + 1
        /\ \A k \in 1 .. n + 1 : SubSeq(S1, 1, n + 1)[k] = S1[k]
    <3>1. \A k \in 1 .. n + 1 : 1 + k - 1 = k
      BY <1>1
    <3> QED BY <1>1, <1>2, <3>1, SubSeqProperties
  <2> QED BY <1>2, <1>3, <2>1, SeqEqual
<1>8. SubSeq(L1, 1, n) = L
  <2>1. /\ SubSeq(L1, 1, n) \in Seq(Stack!Contents)
        /\ Len(SubSeq(L1, 1, n)) = n
        /\ \A k \in 1 .. n : SubSeq(L1, 1, n)[k] = L1[k]
    <3>1. \A k \in 1 .. n : 1 + k - 1 = k
      BY <1>1
    <3> QED BY <1>1, <1>2, <3>1, SubSeqProperties
  <2> QED BY <1>2, <1>3, <2>1, SeqEqual
<1> QED BY <1>4, <1>5, <1>6, <1>7, <1>8 DEF S, L, S1, L1, o, l

-----------------------------------------------------------------------------

LEMMA FileStarts ==
    ASSUME FileInit
    PROVE  FileInv /\ Stack!StackInit
<1>1. 1 \in Frames /\ 1 \in 1 .. MaxFrames /\ WindowOf(1) = 0 /\ 0 \in 0 .. FileWindows - 1
  BY WindowOfFrame, WindowConstants, Sizes DEF Frames
<1>2. global \in [0 .. Group - 1 -> Value] /\ window \in [Cells -> Value]
  BY WindowConstants DEF FileInit
<1>3. FileInv
  BY <1>1, <1>2 DEF FileInit, FileInv, FileTypeOK
<1>4. StackShared = SharedIn(window, 1) /\ StackLocals = LocalsIn(window, 1)
  BY <1>1, Mapped DEF FileInit
<1>5. /\ SharedIn(window, 1) \in [1 .. 2 -> Stack!Contents] /\ Len(SharedIn(window, 1)) = 2
      /\ SharedIn(window, 1) \in Seq(Stack!Contents)
      /\ LocalsIn(window, 1) \in [1 .. 1 -> Stack!Contents] /\ Len(LocalsIn(window, 1)) = 1
      /\ LocalsIn(window, 1) \in Seq(Stack!Contents)
  <2>1. 1 + 1 = 2
    OBVIOUS
  <2> QED BY <1>1, <1>2, <2>1, StackShape
<1> DEFINE i == SharedIn(window, 1)[1]
           o == SharedIn(window, 1)[2]
           l == LocalsIn(window, 1)[1]
<1>6. i \in Stack!Contents /\ o \in Stack!Contents /\ l \in Stack!Contents
  BY <1>5
<1>7. SharedIn(window, 1) = <<i, o>> /\ LocalsIn(window, 1) = <<l>>
  <2>1. <<i, o>> \in Seq(Stack!Contents) /\ Len(<<i, o>>) = 2
        /\ <<i, o>>[1] = i /\ <<i, o>>[2] = o
    BY <1>6
  <2>2. <<l>> \in Seq(Stack!Contents) /\ Len(<<l>>) = 1 /\ <<l>>[1] = l
    BY <1>6
  <2>3. SharedIn(window, 1) = <<i, o>>
    <3>1. \A k \in 1 .. 2 : SharedIn(window, 1)[k] = <<i, o>>[k]
      BY <2>1
    <3> QED BY <1>5, <2>1, <3>1, SeqEqual
  <2>4. LocalsIn(window, 1) = <<l>>
    <3>1. \A k \in 1 .. 1 : LocalsIn(window, 1)[k] = <<l>>[k]
      BY <2>2
    <3> QED BY <1>5, <2>2, <3>1, SeqEqual
  <2> QED BY <2>3, <2>4
<1>8. global \in Stack!Contents
  BY <1>2 DEF Stack!Contents
<1> QED BY <1>3, <1>4, <1>6, <1>7, <1>8 DEF Stack!StackInit

\* Where the stack of a state of the register file is.
LEMMA FileState ==
    ASSUME FileInv
    PROVE  /\ frames \in Frames /\ frames \in Nat
           /\ window \in [Cells -> Value] /\ wp = WindowOf(frames)
           /\ StackShared = SharedIn(window, frames)
           /\ StackLocals = LocalsIn(window, frames)
           /\ Stack!Top = frames
           /\ frames > 1 => frames - 1 \in Frames /\ (frames - 1) + 1 = frames
           /\ frames < MaxFrames => frames + 1 \in Frames /\ frames + 1 \in 1 .. MaxFrames
<1>1. frames \in Frames /\ frames \in Nat /\ window \in [Cells -> Value] /\ wp = WindowOf(frames)
  BY FramesFit, Sizes DEF FileInv, FileTypeOK, Frames
<1>2. StackShared = SharedIn(window, frames) /\ StackLocals = LocalsIn(window, frames)
  BY <1>1, Mapped
<1>3. Len(StackLocals) = frames
  BY <1>1, <1>2, StackShape
<1>4. frames > 1 => frames - 1 \in Frames /\ (frames - 1) + 1 = frames
  BY <1>1, Sizes DEF Frames
<1>5. frames < MaxFrames => frames + 1 \in Frames /\ frames + 1 \in 1 .. MaxFrames
  BY <1>1, FramesFit, WindowConstants DEF FileInv, FileTypeOK
<1> QED BY <1>1, <1>2, <1>3, <1>4, <1>5 DEF Stack!Top

LEMMA NamedAreRegisters == \A r \in Named : r \in Registers
BY WindowConstants

LEMMA CopyComputes ==
    ASSUME FileInv, NEW from \in Named, NEW to \in Named, Copy(from, to)
    PROVE  FileInv' /\ Stack!Compute(from, to)
<1> DEFINE v == GetReg(from, WindowOf(frames))
<1>1. from \in Registers /\ to \in Registers
  BY NamedAreRegisters
<1>2. v = Stack!Content(from) /\ v \in Value
  BY <1>1, Reading DEF FileInv
<1>3. frames \in Frames /\ wp = WindowOf(frames)
      /\ (wp + 0) % FileWindows = wp /\ wp \in 0 .. FileWindows - 1
  BY FileState, WindowMoves
<1>4. SetReg(to, v, WindowOf(frames)) /\ wp' = wp /\ frames' = frames
  BY <1>3 DEF Copy, Pass
<1> HIDE DEF v
<1>5. FileInv'
  <2>1. global' \in [0 .. Group - 1 -> Value] /\ window' \in [Cells -> Value]
    BY <1>1, <1>2, <1>3, <1>4, SetRegTyped DEF FileInv
  <2> QED BY <1>4, <2>1 DEF FileInv, FileTypeOK, WindowOf
<1>6. Stack!Becomes(to, v, frames, SharedIn(window, frames), LocalsIn(window, frames))
  <2>1. frames \in 1 .. frames
    BY <1>3 DEF Frames
  <2> QED BY <1>1, <1>2, <1>3, <1>4, <2>1, Writing DEF FileInv
<1> QED BY <1>2, <1>5, <1>6, FileState DEF Stack!Compute

LEMMA LoadSetsConstant ==
    ASSUME FileInv, NEW v \in Value, NEW to \in Named, Load(v, to)
    PROVE  FileInv' /\ Stack!Constant(v, to)
<1>1. to \in Registers
  BY NamedAreRegisters
<1>2. frames \in Frames /\ wp = WindowOf(frames)
  BY FileState
<1>3. SetReg(to, v, WindowOf(frames)) /\ wp' = wp /\ frames' = frames
  BY <1>2 DEF Load
<1>4. FileInv'
  <2>1. global' \in [0 .. Group - 1 -> Value] /\ window' \in [Cells -> Value]
    BY <1>1, <1>2, <1>3, SetRegTyped DEF FileInv
  <2> QED BY <1>3, <2>1 DEF FileInv, FileTypeOK, WindowOf
<1>5. Stack!Becomes(to, v, frames, SharedIn(window, frames), LocalsIn(window, frames))
  <2>1. frames \in 1 .. frames
    BY <1>2 DEF Frames
  <2> QED BY <1>1, <1>2, <1>3, <2>1, Writing DEF FileInv
<1> QED BY <1>4, <1>5, FileState DEF Stack!Constant

LEMMA SavePushes ==
    ASSUME FileInv, NEW from \in Named, NEW to \in Named, Save(from, to)
    PROVE  FileInv' /\ Stack!Push(from, to)
<1> DEFINE v == GetReg(from, WindowOf(frames))
           n == frames + 1
<1>1. from \in Registers /\ to \in Registers
  BY NamedAreRegisters
<1>2. v = Stack!Content(from) /\ v \in Value
  BY <1>1, Reading DEF FileInv
<1>3. /\ frames \in Frames /\ n \in Frames /\ n \in 1 .. MaxFrames /\ frames \in Nat
      /\ frames < MaxFrames /\ wp = WindowOf(frames) /\ window \in [Cells -> Value]
  BY FileState DEF Save
<1>4. (wp + (-1)) % FileWindows = WindowOf(n) /\ WindowOf(n) \in 0 .. FileWindows - 1
  BY <1>3, WindowMoves
<1>5. SetReg(to, v, WindowOf(n)) /\ wp' = WindowOf(n) /\ frames' = n
  BY <1>3, <1>4 DEF Save, Pass
<1> HIDE DEF v
<1>6. FileInv'
  <2>1. global' \in [0 .. Group - 1 -> Value] /\ window' \in [Cells -> Value]
    BY <1>1, <1>2, <1>3, <1>5, SetRegTyped DEF FileInv
  <2>2. wp' = WindowOf(frames)'
    BY <1>5 DEF WindowOf
  <2> QED BY <1>3, <1>4, <1>5, <2>1, <2>2 DEF FileInv, FileTypeOK
<1>7. Stack!Becomes(to, v, n, SharedIn(window, n), LocalsIn(window, n))
  <2>1. n \in 1 .. n
    BY <1>3
  <2> QED BY <1>1, <1>2, <1>3, <1>5, <2>1, Writing DEF FileInv
<1>8. /\ SharedIn(window, n) = Append(StackShared, NewOuts(window, frames))
      /\ LocalsIn(window, n) = Append(StackLocals, NewLocals(window, frames))
      /\ NewOuts(window, frames) \in Stack!Contents
      /\ NewLocals(window, frames) \in Stack!Contents
  BY <1>3, OneFrameMore, FileState
<1>9. Len(StackLocals') = n
  <2>1. window' \in [Cells -> Value]
    BY <1>6 DEF FileInv, FileTypeOK
  <2> QED BY <1>3, <1>5, <2>1, Mapped, StackShape
<1> QED BY <1>2, <1>3, <1>6, <1>7, <1>8, <1>9, FileState DEF Stack!Push

LEMMA RestorePops ==
    ASSUME FileInv, NEW from \in Named, NEW to \in Named, Restore(from, to)
    PROVE  FileInv' /\ Stack!Pop(from, to)
<1> DEFINE v == GetReg(from, WindowOf(frames))
           n == frames - 1
<1>1. from \in Registers /\ to \in Registers
  BY NamedAreRegisters
<1>2. v = Stack!Content(from) /\ v \in Value
  BY <1>1, Reading DEF FileInv
<1>3. /\ frames \in Frames /\ n \in Frames /\ n + 1 = frames /\ frames \in Nat
      /\ frames > 1 /\ wp = WindowOf(frames) /\ window \in [Cells -> Value]
  BY FileState DEF Restore
<1>4. (wp + 1) % FileWindows = WindowOf(n) /\ WindowOf(n) \in 0 .. FileWindows - 1
  BY <1>3, WindowMoves
<1>5. SetReg(to, v, WindowOf(n)) /\ wp' = WindowOf(n) /\ frames' = n
  BY <1>3, <1>4 DEF Restore, Pass
<1>6. n \in 1 .. MaxFrames /\ n \in 1 .. n
  BY <1>3, WindowConstants DEF FileInv, FileTypeOK
<1> HIDE DEF v
<1>7. FileInv'
  <2>1. global' \in [0 .. Group - 1 -> Value] /\ window' \in [Cells -> Value]
    BY <1>1, <1>2, <1>3, <1>5, SetRegTyped DEF FileInv
  <2>2. wp' = WindowOf(frames)'
    BY <1>5 DEF WindowOf
  <2> QED BY <1>4, <1>5, <1>6, <2>1, <2>2 DEF FileInv, FileTypeOK
<1>8. Stack!Becomes(to, v, n, SharedIn(window, n), LocalsIn(window, n))
  BY <1>1, <1>2, <1>3, <1>5, <1>6, Writing DEF FileInv
<1>9. /\ SharedIn(window, n) = SubSeq(StackShared, 1, frames)
      /\ LocalsIn(window, n) = SubSeq(StackLocals, 1, frames - 1)
  <2> HIDE DEF n
  <2>1. /\ SubSeq(SharedIn(window, n + 1), 1, n + 1) = SharedIn(window, n)
        /\ SubSeq(LocalsIn(window, n + 1), 1, n) = LocalsIn(window, n)
    BY <1>3, OneFrameMore
  <2> QED BY <1>3, <2>1, FileState DEF n
<1> QED BY <1>2, <1>3, <1>7, <1>8, <1>9, FileState DEF Stack!Pop

LEMMA ReturnPops ==
    ASSUME FileInv, TrapReturn
    PROVE  FileInv' /\ Stack!Return
<1> DEFINE n == frames - 1
<1>1. /\ frames \in Frames /\ n \in Frames /\ n + 1 = frames /\ frames \in Nat
      /\ frames > 1 /\ wp = WindowOf(frames) /\ window \in [Cells -> Value]
  BY FileState DEF TrapReturn
<1>2. (wp + 1) % FileWindows = WindowOf(n) /\ WindowOf(n) \in 0 .. FileWindows - 1
  BY <1>1, WindowMoves
<1>3. wp' = WindowOf(n) /\ frames' = n /\ UNCHANGED <<global, window>>
  BY <1>2 DEF TrapReturn
<1>4. n \in 1 .. MaxFrames
  BY <1>1, WindowConstants DEF FileInv, FileTypeOK
<1>5. FileInv'
  <2>1. wp' = WindowOf(frames)'
    BY <1>3 DEF WindowOf
  <2> QED BY <1>2, <1>3, <1>4, <2>1 DEF FileInv, FileTypeOK
<1>6. /\ StackShared' = SharedIn(window, n)
      /\ StackLocals' = LocalsIn(window, n)
  BY <1>1, <1>3, Mapped
<1>7. /\ SharedIn(window, n) = SubSeq(StackShared, 1, frames)
      /\ LocalsIn(window, n) = SubSeq(StackLocals, 1, frames - 1)
  <2> HIDE DEF n
  <2>1. /\ SubSeq(SharedIn(window, n + 1), 1, n + 1) = SharedIn(window, n)
        /\ SubSeq(LocalsIn(window, n + 1), 1, n) = LocalsIn(window, n)
    BY <1>1, OneFrameMore
  <2> QED BY <1>1, <2>1, FileState DEF n
<1> QED BY <1>1, <1>3, <1>5, <1>6, <1>7, FileState DEF Stack!Return

LEMMA TrapInterrupts ==
    ASSUME FileInv, NEW code \in Value, NEW next \in Value, Trap(code, next)
    PROVE  FileInv' /\ Stack!Interrupt(code, next)
<1> DEFINE n == frames + 1
           p == SavesPc - 2 * Group
           q == SavesNpc - 2 * Group
           one == [window EXCEPT ![Place(LocalBlock(n), p)] = code]
           l == [NewLocals(window, frames) EXCEPT ![p] = code, ![q] = next]
<1>1. /\ frames \in Frames /\ n \in Frames /\ n \in 1 .. MaxFrames /\ frames \in Nat
      /\ frames < MaxFrames /\ wp = WindowOf(frames) /\ window \in [Cells -> Value]
  BY FileState DEF Trap
<1>2. (wp - 1) % FileWindows = WindowOf(n) /\ WindowOf(n) \in 0 .. FileWindows - 1
  <2>1. wp - 1 = wp + (-1)
    BY DEF FileInv, FileTypeOK
  <2> QED BY <1>1, <2>1, WindowMoves
<1>3. p \in Offsets /\ q \in Offsets /\ p # q
      /\ SavesPc = 2 * Group + p /\ SavesNpc = 2 * Group + q
  BY WindowConstants, Sizes DEF Offsets
<1>4. /\ Cell(SavesPc, WindowOf(n)) = Place(LocalBlock(n), p)
      /\ Cell(SavesNpc, WindowOf(n)) = Place(LocalBlock(n), q)
  <2> HIDE DEF n, p, q
  <2> QED BY <1>1, <1>3, CellsOfFrame
<1>5. LocalBlock(n) \in Blocks
      /\ Place(LocalBlock(n), p) \in Cells /\ Place(LocalBlock(n), q) \in Cells
  BY <1>1, <1>3, BlocksAreBlocks, PlaceIsCell
<1>6. /\ wp' = WindowOf(n) /\ frames' = n /\ global' = global
      /\ window' = [one EXCEPT ![Place(LocalBlock(n), q)] = next]
  BY <1>2, <1>4 DEF Trap
<1>7. one \in [Cells -> Value] /\ window' \in [Cells -> Value]
  BY <1>1, <1>5, <1>6
<1>8. Written(one, window, Place(LocalBlock(n), p), code)
      /\ Written(window', one, Place(LocalBlock(n), q), next)
  BY <1>6 DEF Written
<1>9. FileInv'
  <2>1. wp' = WindowOf(frames)'
    BY <1>6 DEF WindowOf
  <2> QED BY <1>1, <1>2, <1>6, <1>7, <2>1 DEF FileInv, FileTypeOK
<1> HIDE DEF one, p, q
<1>10. n \in 1 .. n
  BY <1>1
<1>11. /\ LocalsIn(one, n) = [LocalsIn(window, n) EXCEPT ![n][p] = code]
       /\ SharedIn(one, n) = SharedIn(window, n)
  <2> HIDE DEF n
  <2> QED BY <1>1, <1>3, <1>7, <1>8, <1>10, LocalWritten
<1>12. /\ LocalsIn(window', n) = [LocalsIn(one, n) EXCEPT ![n][q] = next]
       /\ SharedIn(window', n) = SharedIn(one, n)
  <2> HIDE DEF n
  <2> QED BY <1>1, <1>3, <1>7, <1>8, <1>10, LocalWritten
<1>13. /\ SharedIn(window, n) = Append(StackShared, NewOuts(window, frames))
       /\ LocalsIn(window, n) = Append(StackLocals, NewLocals(window, frames))
       /\ NewOuts(window, frames) \in Stack!Contents
       /\ NewLocals(window, frames) \in Stack!Contents
  BY <1>1, OneFrameMore, FileState
<1>14. /\ l \in Stack!Contents /\ l[p] = code /\ l[q] = next
       /\ l = [[NewLocals(window, frames) EXCEPT ![p] = code] EXCEPT ![q] = next]
  BY <1>3, <1>13 DEF Stack!Contents, Offsets
<1>15. LocalsIn(window', n) = Append(StackLocals, l)
  <2>1. /\ StackLocals \in Seq(Stack!Contents) /\ Len(StackLocals) = frames
        /\ LocalsIn(window', n) \in Seq(Stack!Contents) /\ Len(LocalsIn(window', n)) = n
        /\ LocalsIn(window, n) \in [1 .. n -> Stack!Contents]
    BY <1>1, <1>7, StackShape, FileState
  <2>2. /\ Append(StackLocals, l) \in Seq(Stack!Contents) /\ Len(Append(StackLocals, l)) = n
        /\ \A k \in 1 .. frames : Append(StackLocals, l)[k] = StackLocals[k]
        /\ Append(StackLocals, l)[n] = l
    BY <1>14, <2>1, AppendProperties
  <2>3. /\ \A k \in 1 .. frames : LocalsIn(window, n)[k] = StackLocals[k]
        /\ LocalsIn(window, n)[n] = NewLocals(window, frames)
    BY <1>13, <2>1, AppendProperties
  <2>4. LocalsIn(window', n) =
            [LocalsIn(window, n) EXCEPT ![n] = [[@ EXCEPT ![p] = code] EXCEPT ![q] = next]]
    BY <1>10, <1>11, <1>12, <2>1
  <2>5. \A k \in 1 .. n : LocalsIn(window', n)[k] = Append(StackLocals, l)[k]
    <3>1. \A k \in 1 .. n : k = n \/ (k # n /\ k \in 1 .. frames)
      BY <1>1
    <3>2. LocalsIn(window', n)[n] = [[LocalsIn(window, n)[n] EXCEPT ![p] = code] EXCEPT ![q] = next]
      BY <1>10, <2>1, <2>4
    <3>3. LocalsIn(window', n)[n] = l
      BY <1>14, <2>3, <3>2
    <3>4. \A k \in 1 .. n : k # n => LocalsIn(window', n)[k] = LocalsIn(window, n)[k]
      BY <2>1, <2>4
    <3> HIDE DEF n
    <3> QED BY <2>2, <2>3, <3>1, <3>3, <3>4
  <2> QED BY <2>1, <2>2, <2>5, SeqEqual
<1>16. StackShared' = SharedIn(window', n) /\ StackLocals' = LocalsIn(window', n)
  BY <1>1, <1>6, Mapped
<1>17. Len(StackLocals') = n
  BY <1>1, <1>7, <1>16, StackShape
<1>18. /\ l[<<p, q>>[1]] = code /\ l[<<p, q>>[2]] = next
  BY <1>14
<1> HIDE DEF l
<1>19. Stack!Interrupt(code, next)
  <2>1. Stack!Top = frames /\ frames < MaxFrames
    BY <1>1, FileState
  <2>2. StackShared' = Append(StackShared, NewOuts(window, frames))
    BY <1>11, <1>12, <1>13, <1>16
  <2>3. StackLocals' = Append(StackLocals, l)
    BY <1>15, <1>16
  <2> QED BY <1>6, <1>13, <1>14, <1>17, <1>18, <2>1, <2>2, <2>3 DEF Stack!Interrupt, p, q
<1> QED BY <1>9, <1>19

\* Every step of the register file keeps the invariant, and is one of the stack
\* or leaves the stack as it is.
LEMMA FileSteps ==
    ASSUME FileInv, [FileNext]_fileVars
    PROVE  FileInv' /\ [Stack!StackNext]_(Stack!stackVars)
<1>1. CASE \E from, to \in Named : Copy(from, to)
  BY <1>1, CopyComputes DEF Stack!StackNext
<1>2. CASE \E from, to \in Named : Save(from, to)
  BY <1>2, SavePushes DEF Stack!StackNext
<1>3. CASE \E from, to \in Named : Restore(from, to)
  BY <1>3, RestorePops DEF Stack!StackNext
<1>4. CASE \E v \in Value, to \in Named : Load(v, to)
  BY <1>4, LoadSetsConstant DEF Stack!StackNext
<1>5. CASE \E code, next \in Value : Trap(code, next)
  BY <1>5, TrapInterrupts DEF Stack!StackNext
<1>6. CASE TrapReturn
  BY <1>6, ReturnPops DEF Stack!StackNext
<1>7. CASE UNCHANGED fileVars
  <2>1. FileInv'
    BY <1>7 DEF FileInv, FileTypeOK, WindowOf, fileVars
  <2>2. UNCHANGED Stack!stackVars
    BY <1>7 DEF fileVars, Stack!stackVars, StackShared, StackLocals, GroupOf
  <2> QED BY <2>1, <2>2
<1> QED BY <1>1, <1>2, <1>3, <1>4, <1>5, <1>6, <1>7 DEF FileNext

\* The register file stays one, and its window pointer within the windows, with
\* calls, returns and traps in any order (get_reg and set_reg, regacc).
THEOREM FileTypeCorrect == FileSpec => []FileTypeOK
<1>1. FileInit => FileInv
  BY FileStarts
<1>2. FileInv /\ [FileNext]_fileVars => FileInv'
  BY FileSteps
<1>3. FileInv => FileTypeOK
  BY DEF FileInv
<1> QED BY <1>1, <1>2, <1>3, PTL DEF FileSpec

\* The windows that go round without a look at WIM, and that two frames share
\* the registers of, are a stack of frames to a program that keeps to one frame
\* fewer than there are windows: get_reg and set_reg find a frame's registers as
\* its callees, their returns, and the handlers of its traps left them.
THEOREM WindowsImplementStack == FileSpec => ImplementsStack
<1>1. FileInit => FileInv /\ Stack!StackInit
  BY FileStarts
<1>2. FileInv /\ [FileNext]_fileVars => FileInv' /\ [Stack!StackNext]_(Stack!stackVars)
  BY FileSteps
<1> QED BY <1>1, <1>2, PTL DEF FileSpec, ImplementsStack, Stack!StackSpec

=============================================================================
