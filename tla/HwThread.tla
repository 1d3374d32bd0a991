------------------------------ MODULE HwThread ------------------------------
(***************************************************************************)
(* One hardware thread on its passes through the pipeline: the stalls of   *)
(* fetch, memory, deadlines and double words that make a pass start over,  *)
(* the deadline timers, and the two passes in which a trap is taken.       *)
(*                                                                         *)
(* A step is the visit of the thread to a stage.  The stages of a pass are *)
(* fetch, regacc (with decode before it), execute, mem and except.  An     *)
(* address is the code it belongs to and the instruction found there: the  *)
(* program counter walks over any instructions of the code it is in.       *)
(***************************************************************************)
EXTENDS Integers, WellFoundedInduction, TLAPS

CONSTANTS
    Timers,         \* the deadline timers in use, 0 .. NUM_DEADLINE_TIMERS - 1
    MaxLoad,        \* bound: the largest value a program loads into a timer
    Windows,        \* REGISTER_WINDOWS
    Program,        \* the instructions of the program
    Handler,        \* the instructions of the trap handlers
    FetchStalls,    \* may a fetch be refused by the memory wheel?
    MemStalls,      \* may a load or a store be refused by the memory wheel?
    StallDoubles    \* may the half of a double load be refused?

Ops == {"alu", "load", "store", "ldd", "save", "restore", "rdsr", "wrpsr",
        "rett", "leave", "mulscc", "dead", "deadpll"}

\* timer, load, branch, value: the fields of a DEAD instruction; value is the
\* ET bit that a WRPSR writes.
Instructions == [op : Ops, timer : Timers, load : BOOLEAN, branch : BOOLEAN,
                 value : 0 .. MaxLoad]

ThreadConstants ==
    /\ Timers \subseteq Nat /\ \E n \in Timers : \A i \in Timers : i <= n
    /\ MaxLoad \in Nat
    /\ Windows \in Nat \ {0}
    /\ Program \subseteq Instructions /\ Program # {}
    /\ Handler \subseteq Instructions /\ Handler # {}
    /\ FetchStalls \in BOOLEAN /\ MemStalls \in BOOLEAN /\ StallDoubles \in BOOLEAN

\* What r17 and r18 hold when they were not given an address.
NoAddress == [code |-> "none"]
Addresses == [code : {"program"}, inst : Program] \union
             [code : {"handler"}, inst : Handler]

VARIABLES
    stage,          \* the stage the thread visits next
    pc,             \* the address in the program counter
    inst,           \* the instruction latched by the last fetch
    dword,          \* instruction::is_db_word: is this the first half?
    fetchStalled, memStalled, deadStalled, dwordStalled,
    trapped,        \* get_trapped_state: 0 normal, 1 and 2 the trap passes
    trapType,
    et,             \* the ET bit of the PSR
    cwp,            \* the current window pointer
    r17, r18,       \* the registers r17 and r18 of every window
    dt,             \* the deadline timers; 0 stands for every value <= 0
    dtStatus,       \* "UNSET", "SET" or "MISSED"
    plldt,          \* the timer of the phase lock loop
    pllLoad,        \* its mailbox; 0 is empty
    pllLoaded,      \* get_pll_loaded: has the DEADPLL filled the mailbox?
    home,           \* history: the window of the program
    done            \* history: what the instruction at pc has already changed

stalls == <<fetchStalled, memStalled, deadStalled, dwordStalled>>
trap == <<trapped, trapType, et>>
regs == <<cwp, r17, r18>>
timers == <<dt, dtStatus>>
pll == <<plldt, pllLoad, pllLoaded>>
history == <<home, done>>
vars == <<stage, pc, inst, dword, stalls, trap, regs, timers, pll, history>>

IllegalInstruction == 2
DeadlineTrap(i) == 112 + i

-----------------------------------------------------------------------------
(* fetch                                                                   *)

\* decrement_deadline_timers: a timer that runs out while SET is MISSED.
DecrementTimers ==
    /\ dt' = [i \in Timers |-> IF dt[i] > 0 THEN dt[i] - 1 ELSE 0]
    /\ dtStatus' = [i \in Timers |->
           IF dt'[i] = 0 /\ dtStatus[i] = "SET" THEN "MISSED" ELSE dtStatus[i]]

\* The same instruction goes down the pipeline once more.
FetchSkipped ==
    /\ stage = "fetch"
    /\ memStalled \/ deadStalled \/ trapped # 0
    /\ stage' = "regacc"
    /\ DecrementTimers
    /\ UNCHANGED <<pc, inst, dword, stalls, trap, regs, pll, history>>

FetchInstruction ==
    /\ stage = "fetch"
    /\ ~memStalled /\ ~deadStalled /\ trapped = 0
    /\ stage' = "regacc"
    /\ DecrementTimers
    /\ inst' = pc.inst
    /\ \E stalled \in {FALSE, FetchStalls} : fetchStalled' = stalled
    /\ UNCHANGED <<pc, dword, memStalled, deadStalled, dwordStalled, trap, regs,
                   pll, history>>

-----------------------------------------------------------------------------
(* decode and regacc                                                       *)

\* Mutant: the DEAD passes a cycle early.
ExpiredEarly(i) == dt[i.timer] <= 1 \/ i.load

\* The timer lets a DEAD pass, or the instruction does not wait.
Expired(i) == dt[i.timer] = 0 \/ i.load

\* Mutant: a timer that still runs is taken for a missed one.
WatchedTimers(status) == {i \in Timers : status[i] # "UNSET"}

\* missed_deadline leaves the number of the last timer it found.
Missed(status) == {i \in Timers : status[i] = "MISSED"}
LastMissed(status) == CHOOSE i \in Missed(status) : \A j \in Missed(status) : j <= i

\* Mutant: the flag is never set, so dead_stalled never fills the mailbox.
PllNotLoaded ==
    /\ deadStalled' = (deadStalled \/ pllLoad # 0 \/ ~pllLoaded)
    /\ UNCHANGED pllLoaded

\* _destination_phaselockloop_deadlines: stall while the mailbox is full and to
\* fill it; when it has been emptied, only pll_loaded is reset.
PllDeadline ==
    /\ deadStalled' = (deadStalled \/ pllLoad # 0 \/ ~pllLoaded)
    /\ pllLoaded' = IF pllLoad # 0 THEN pllLoaded ELSE ~pllLoaded

\* _deadline_instruction and, for the timers of the thread,
\* _destination_regular_deadlines: the status changes when the DEAD passes.
DeadlineInstruction ==
    IF inst.op = "dead"
    THEN /\ UNCHANGED pllLoaded
         /\ deadStalled' = ~Expired(inst)
         /\ dtStatus' = IF Expired(inst)
                        THEN [dtStatus EXCEPT ![inst.timer] =
                                 IF inst.branch THEN "SET" ELSE "UNSET"]
                        ELSE dtStatus
    ELSE /\ IF inst.op = "deadpll" THEN PllDeadline ELSE UNCHANGED <<deadStalled, pllLoaded>>
         /\ UNCHANGED dtStatus

\* Mutant: the trap starts over as long as the deadline is missed.
CheckAgain ==
    IF Missed(dtStatus') # {}
    THEN /\ trapped' = 1
         /\ trapType' = DeadlineTrap(LastMissed(dtStatus'))
    ELSE UNCHANGED <<trapped, trapType>>

\* _check_deadline: a missed deadline starts a trap, unless one is under way.
CheckDeadline ==
    IF Missed(dtStatus') # {} /\ trapped = 0
    THEN /\ trapped' = 1
         /\ trapType' = DeadlineTrap(LastMissed(dtStatus'))
    ELSE UNCHANGED <<trapped, trapType>>

\* _double_word_instruction: the pass after the first half does the second.
DoubleWord ==
    IF dwordStalled /\ ~deadStalled'
    THEN dword' = FALSE /\ dwordStalled' = FALSE
    ELSE dword' = (inst.op = "ldd") /\ UNCHANGED dwordStalled

\* get_increment_window_pointer, modulo the windows.
Increment(op) == CASE op = "save" -> Windows - 1
                   [] op \in {"restore", "rett"} -> 1
                   [] OTHER -> 0

RegAcc ==
    /\ stage = "regacc"
    /\ stage' = "execute"
    /\ IF fetchStalled
       THEN UNCHANGED <<dword, deadStalled, dwordStalled, trapped, trapType, cwp, dtStatus,
                        pllLoaded>>
       ELSE /\ DeadlineInstruction
            /\ CheckDeadline
            /\ DoubleWord
            /\ cwp' = (cwp + Increment(inst.op)) % Windows
    /\ UNCHANGED <<pc, inst, fetchStalled, memStalled, et, r17, r18, dt, plldt, pllLoad,
                   history>>

-----------------------------------------------------------------------------
(* execute and mem                                                         *)

\* The instruction changes something that outlives it.
Changes(what) == done' = done \union {IF what \in done THEN "again" ELSE what}

\* Mutant: MULSCC makes its step although the fetch is stalled.
ExecuteAlways ==
    /\ stage = "execute"
    /\ stage' = "mem"
    /\ IF inst.op = "mulscc" THEN Changes("step") ELSE UNCHANGED done
    /\ UNCHANGED <<pc, inst, dword, stalls, trap, regs, timers, pll, home>>

\* perform_alu_operations works on the instruction alone, but that MULSCC shifts
\* the Y register here and not when the instruction commits.
Execute ==
    /\ stage = "execute"
    /\ stage' = "mem"
    /\ IF ~fetchStalled /\ inst.op = "mulscc" THEN Changes("step") ELSE UNCHANGED done
    /\ UNCHANGED <<pc, inst, dword, stalls, trap, regs, timers, pll, home>>

WhichHalf == IF dword THEN "first" ELSE "second"
Access == IF inst.op = "ldd" THEN WhichHalf ELSE inst.op

\* The answers of the memory wheel: may it refuse the access?
Refusals == {FALSE, IF inst.op = "ldd" THEN StallDoubles ELSE MemStalls}

Mem ==
    /\ stage = "mem"
    /\ stage' = "except"
    /\ IF ~fetchStalled /\ inst.op \in {"load", "store", "ldd"}
       THEN \E stalled \in Refusals :
               /\ memStalled' = stalled
               /\ IF stalled THEN UNCHANGED done ELSE Changes(Access)
       ELSE UNCHANGED <<memStalled, done>>
    /\ UNCHANGED <<pc, inst, dword, fetchStalled, deadStalled, dwordStalled, trap,
                   regs, timers, pll, home>>

-----------------------------------------------------------------------------
(* except                                                                  *)

\* set_dword_state: the instruction has a second half to come, even if the
\* memory has refused the first.
SetDwordState == dwordStalled' = (dwordStalled \/ dword)

\* A stalled pass ends here and is made again; dead_stalled refills the mailbox
\* for a DEADPLL.
Stalled ==
    /\ stage = "except"
    /\ stage' = "fetch"
    /\ \/ fetchStalled /\ UNCHANGED dwordStalled
       \/ ~fetchStalled /\ (deadStalled \/ memStalled) /\ SetDwordState
    /\ pllLoad' = IF ~fetchStalled /\ deadStalled /\ pllLoaded /\ inst.op = "deadpll"
                  THEN inst.value ELSE pllLoad
    /\ UNCHANGED <<pc, inst, dword, fetchStalled, memStalled, deadStalled, trap,
                   regs, timers, plldt, pllLoaded, history>>

Unstalled ==
    /\ stage = "except"
    /\ stage' = "fetch"
    /\ ~fetchStalled /\ ~deadStalled /\ ~memStalled
    /\ SetDwordState
    /\ UNCHANGED <<inst, dword, fetchStalled, memStalled, deadStalled>>

\* return_from_trap, which every unstalled pass of a RETT ends with: with traps
\* enabled it is illegal, otherwise it enables them.  The code runs with the S
\* bit set; without it a RETT is a privileged_instruction.
AfterPass(state) ==
    IF inst.op = "rett" /\ et
    THEN trapped' = 1 /\ trapType' = IllegalInstruction
    ELSE trapped' = state /\ UNCHANGED trapType

\* write_regs of an address, for which the trap uses the squashed instruction:
\* one that names a special register writes that instead.
Saved(a) == IF inst.op \in {"rdsr", "wrpsr"} THEN NoAddress ELSE a

\* Mutant: the program counter goes to the window of the program.
TrapSavesInOldWindow ==
    /\ Unstalled
    /\ trapped = 1 /\ et
    /\ cwp' = (cwp + Windows - 1) % Windows
    /\ r17' = [r17 EXCEPT ![cwp] = Saved(pc)]
    /\ AfterPass(2)
    /\ UNCHANGED <<pc, et, r18, timers, pll, history>>

\* Mutant: the window pointer moves the way a RETT does.
TrapMovesUp ==
    /\ Unstalled
    /\ trapped = 1 /\ et
    /\ cwp' = (cwp + 1) % Windows
    /\ r17' = [r17 EXCEPT ![cwp'] = Saved(pc)]
    /\ AfterPass(2)
    /\ UNCHANGED <<pc, et, r18, timers, pll, history>>

\* First trap pass: a new window, and the program counter in its r17.
TrapFirstPass ==
    /\ Unstalled
    /\ trapped = 1 /\ et
    /\ cwp' = (cwp + Windows - 1) % Windows
    /\ r17' = [r17 EXCEPT ![cwp'] = Saved(pc)]
    /\ AfterPass(2)
    /\ UNCHANGED <<pc, et, r18, timers, pll, history>>

\* Where the program counter can be in a code.  A handler knows that a RETT is
\* for traps disabled and disables them first.
CodeOf(code, traps) ==
    {a \in Addresses : a.code = code /\ (code = "handler" /\ a.inst.op = "rett" => ~traps)}

\* Mutant: the deadline stays missed when its handler is entered.
StatusKept == dtStatus

\* The deadline that is trapped for is missed no more.
StatusAfterTrap ==
    [i \in Timers |-> IF trapType = DeadlineTrap(i) THEN "UNSET" ELSE dtStatus[i]]

\* Second trap pass: the next address in r18, and off to the handler.  The
\* instruction after pc is left out of the model: r18 holds pc for pc + 4.
TrapSecondPass ==
    /\ Unstalled
    /\ trapped = 2 /\ et
    /\ r18' = [r18 EXCEPT ![cwp] = Saved(pc)]
    /\ pc' \in CodeOf("handler", et)
    /\ dtStatus' = StatusAfterTrap
    /\ AfterPass(0)
    /\ done' = {}
    /\ UNCHANGED <<et, cwp, r17, dt, pll, home>>

\* Where the instruction at pc leads.  A RETT follows the JMPL that
\* took the address from the r17 of the handler's window; a handler that leaves
\* its block for good is a longjmp in the C library.
NextAddresses ==
    LET target == r17[(cwp + Windows - 1) % Windows]
    IN  CASE inst.op = "rett" /\ target # NoAddress -> {target}
          [] inst.op = "leave" -> CodeOf("program", et')
          [] OTHER -> CodeOf(pc.code, et')

\* Mutant: the program counter goes on after the first half of a double word.
IncPcAlways == pc' \in NextAddresses /\ done' = {}

\* inc_pc, but for a double word that has its second half to come.
IncPc ==
    \/ dwordStalled' /\ UNCHANGED <<pc, done>>
    \/ ~dwordStalled' /\ pc' \in NextAddresses /\ done' = {}

\* The instruction takes effect, or the first half of a double word does.  A
\* trap that traps disabled is forgotten.
CommitPass ==
    /\ Unstalled
    /\ trapped = 0 \/ ~et
    /\ et' = CASE inst.op = "wrpsr" -> inst.value = 1
               [] inst.op = "rett" -> TRUE
               [] OTHER -> et
    /\ IncPc
    /\ AfterPass(0)
    /\ pllLoad' = IF inst.op = "deadpll" THEN inst.value ELSE pllLoad
    /\ dt' = IF inst.op = "dead" THEN [dt EXCEPT ![inst.timer] = inst.value] ELSE dt
    /\ cwp' = IF inst.op = "leave" THEN home ELSE cwp
    /\ home' = IF pc.code = "program" THEN (home + Increment(inst.op)) % Windows ELSE home
    /\ UNCHANGED <<r17, r18, dtStatus, plldt, pllLoaded>>

-----------------------------------------------------------------------------
(* The phase lock loop has a clock of its own                              *)

\* decrement_pll_timers, between any two visits of the thread.
PllTick ==
    /\ IF plldt > 0
       THEN plldt' = plldt - 1 /\ UNCHANGED pllLoad
       ELSE pllLoad # 0 /\ plldt' = pllLoad - 1 /\ pllLoad' = 0
    /\ UNCHANGED <<stage, pc, inst, dword, stalls, trap, regs, timers, pllLoaded, history>>

-----------------------------------------------------------------------------

Init ==
    /\ stage = "fetch"
    /\ pc \in CodeOf("program", TRUE)
    /\ inst = pc.inst
    /\ dword = FALSE
    /\ fetchStalled = FALSE /\ memStalled = FALSE
    /\ deadStalled = FALSE /\ dwordStalled = FALSE
    /\ trapped = 0 /\ trapType = 0
    /\ et = TRUE
    /\ cwp = 0
    /\ r17 = [w \in 0 .. Windows - 1 |-> NoAddress]
    /\ r18 = [w \in 0 .. Windows - 1 |-> NoAddress]
    /\ dt = [i \in Timers |-> 0]
    /\ dtStatus = [i \in Timers |-> "UNSET"]
    /\ plldt = 0 /\ pllLoad = 0 /\ pllLoaded = FALSE
    /\ home = 0 /\ done = {}

\* The thread visits its next stage.
Visit ==
    \/ FetchSkipped \/ FetchInstruction \/ RegAcc \/ Execute \/ Mem
    \/ Stalled \/ TrapFirstPass \/ TrapSecondPass \/ CommitPass

Next == Visit \/ PllTick

Spec == Init /\ [][Next]_vars

\* The thread is sent down the pipeline in every rotation, and the memory wheel
\* answers a request that is made again and again (module MemoryWheel).
Fairness ==
    /\ WF_vars(Visit)
    /\ WF_vars(PllTick)
    /\ SF_vars(FetchInstruction /\ ~fetchStalled')
    /\ SF_vars(Mem /\ ~memStalled')

FairSpec == Spec /\ Fairness
-----------------------------------------------------------------------------
(* Properties                                                              *)

TypeOK ==
    /\ stage \in {"fetch", "regacc", "execute", "mem", "except"}
    /\ pc \in Addresses
    /\ inst \in Program \union Handler
    /\ {dword, fetchStalled, memStalled, deadStalled, dwordStalled, et} \subseteq BOOLEAN
    /\ trapped \in 0 .. 2
    /\ trapType \in {0, IllegalInstruction} \union {DeadlineTrap(i) : i \in Timers}
    /\ cwp \in 0 .. Windows - 1 /\ home \in 0 .. Windows - 1
    /\ r17 \in [0 .. Windows - 1 -> Addresses \union {NoAddress}]
    /\ r18 \in [0 .. Windows - 1 -> Addresses \union {NoAddress}]
    /\ dt \in [Timers -> 0 .. MaxLoad]
    /\ dtStatus \in [Timers -> {"UNSET", "SET", "MISSED"}]
    /\ plldt \in 0 .. MaxLoad /\ pllLoad \in 0 .. MaxLoad /\ pllLoaded \in BOOLEAN
    /\ done \subseteq {"load", "store", "first", "second", "step", "again"}

\* The instruction at pc is done with.
Committed == stage = "except" /\ CommitPass /\ ~dwordStalled'

\* The flag that makes an instruction a second half is never left to another
\* instruction, whose registers it would change.
DwordFlagIsOwn ==
    [][dwordStalled' /\ stage' = "regacc" /\ ~fetchStalled' => inst'.op = "ldd"]_vars

\* A stall makes no instruction take effect twice: what has to be done once for
\* it is done, once, when the program counter leaves it.  This counts from the
\* last trap: what a trap squashes and a RETT repeats is SquashedHasNoEffect's.
EffectOnce ==
    [][Committed => /\ inst.op \in {"load", "store"} => done = {inst.op}
                    /\ inst.op = "mulscc" => done = {"step"}]_vars

\* A double load has loaded both its words when the program counter leaves it:
\* the comment in set_dword_state, "we need to redo the instruction except we
\* need to increment the destination address".
DoubleIsWhole ==
    [][Committed /\ inst.op = "ldd" => done = {"first", "second"}]_vars

\* Between instructions the program is in the window that its own SAVEs and
\* RESTOREs have led to.
WindowIsHome ==
    stage = "fetch" /\ pc.code = "program" /\ trapped = 0 /\ ~memStalled /\ ~deadStalled =>
        cwp = home

\* A handler runs in the window next to that of the program it interrupts, from
\* which its RETT gets back.
HandlerWindow ==
    [][TrapSecondPass /\ pc.code = "program" => cwp' = (home + Windows - 1) % Windows]_vars

\* An instruction squashed by a trap leaves no trace in memory, in Y or in the
\* window pointer: the comment in handle_exceptions, "Disable changing processor
\* state from the instructions".
SquashedHasNoEffect ==
    [][stage # "except" /\ trapped' # 0 /\ et => done' \subseteq done /\ cwp' = cwp]_vars

\* The handler finds, in r17 and r18 of its window, where to return to, unless
\* the trap was taken at an instruction that names a special register.
ReturnAddressSaved ==
    [][TrapSecondPass /\ inst.op \notin {"rdsr", "wrpsr"} =>
            r17[cwp'] = pc /\ r18'[cwp'] = pc]_vars

\* A trap for a deadline is taken only for a timer that ran out.
TrapIsForMissed ==
    [][TrapSecondPass => \A i \in Timers : trapType = DeadlineTrap(i) =>
            dt[i] = 0 /\ dtStatus[i] = "MISSED"]_vars

\* A DEAD does not let the thread pass before its timer has run out.
DeadWaits ==
    [][Committed /\ inst.op = "dead" /\ ~inst.load => dt[inst.timer] = 0]_vars

\* A stall makes no instruction take effect twice, leaves no half of a double
\* load out and makes none the second half of another, and lets no DEAD pass
\* early.  This is for code that no deadline traps (NeverTraps) and for a memory
\* that refuses no half of a double load (~StallDoubles).
StallsAreSafe == DwordFlagIsOwn /\ EffectOnce /\ DoubleIsWhole /\ DeadWaits

\* A trap is taken for a deadline that was missed, in a window and with the
\* addresses from which the handler gets back; between instructions the program
\* is in the window that its own SAVEs and RESTOREs have led to.
TrapsAreExact ==
    /\ []WindowIsHome
    /\ HandlerWindow /\ ReturnAddressSaved /\ TrapIsForMissed

\* A trap that is taken gets to its handler, in two unstalled passes.
TrapEntersHandler == et /\ trapped # 0 ~> trapped = 0

\* A DEADPLL that waits gets its value through the mailbox to the loop.
PllIsFed == inst.op = "deadpll" /\ deadStalled ~> plldt > 0

\* A missed deadline is answered, by its handler or by the DEAD it was late for,
\* as long as no handler keeps traps disabled.
MissIsServed ==
    \A i \in Timers : dtStatus[i] = "MISSED" ~> dtStatus[i] # "MISSED" \/ ~et

-----------------------------------------------------------------------------
(* Theorems about HwThread, for any program, handlers, timers and windows. *)

\* The instruction has been through regacc and is not to come back.
Ready == stage \in {"execute", "mem", "except"} /\ ~fetchStalled /\ ~deadStalled

\* Which instructions stalls are about, and where the latched one comes from:
\* from pc, unless a RETT was illegal after the program counter had moved.
Passing ==
    /\ fetchStalled => trapped = 0 /\ ~memStalled /\ ~deadStalled
    /\ memStalled => inst.op \in {"load", "store", "ldd"}
    /\ deadStalled => inst.op \in {"dead", "deadpll"}
    /\ Ready /\ inst.op # "ldd" => ~dword /\ ~dwordStalled
    /\ trapped = 2 => et
    /\ stage # "fetch" \/ memStalled \/ deadStalled \/ trapped # 0 =>
           inst = pc.inst \/ (inst.op = "rett" /\ et /\ trapped # 0)

\* What timers, their states and traps for them have to do with each other.
Deadlines ==
    /\ Ready /\ inst.op = "dead" =>
           /\ dt[inst.timer] = 0 \/ inst.load
           /\ dtStatus[inst.timer] # "MISSED"
    /\ \A i \in Timers :
           /\ dtStatus[i] = "MISSED" => dt[i] = 0
           /\ trapped # 0 /\ trapType = DeadlineTrap(i) =>
                  /\ dtStatus[i] = "MISSED"
                  /\ ~(inst.op = "dead" /\ inst.timer = i)

\* What an instruction other than a double load has done when it comes to a stage.
Stepped == IF inst.op = "mulscc" /\ ~fetchStalled THEN {"step"} ELSE {}
Accessed == IF inst.op \in {"load", "store"} /\ ~fetchStalled /\ ~memStalled
            THEN {inst.op} ELSE Stepped
Effects ==
    trapped # 2 /\ pc.inst.op # "ldd" =>
        done = CASE stage = "mem" -> Stepped
                 [] stage = "except" -> Accessed
                 [] OTHER -> {}

-----------------------------------------------------------------------------
(* Types                                                                   *)

\* Instructions have their fields, wherever they are found.
LEMMA Fields ==
    ASSUME ThreadConstants, TypeOK
    PROVE  /\ inst \in Instructions /\ inst.op \in Ops /\ inst.timer \in Timers
           /\ inst.load \in BOOLEAN /\ inst.branch \in BOOLEAN /\ inst.value \in 0 .. MaxLoad
           /\ pc.inst \in Instructions /\ pc.inst \in Program \union Handler
           /\ pc.inst.op \in Ops
BY DEF ThreadConstants, TypeOK, Addresses, Instructions

\* The window pointer goes round.
LEMMA WindowRound ==
    ASSUME ThreadConstants, NEW w \in 0 .. Windows - 1, NEW d \in 0 .. Windows
    PROVE  (w + d) % Windows \in 0 .. Windows - 1
BY DEF ThreadConstants

\* Wherever an instruction leads, there is code.
LEMMA LeadsToCode ==
    ASSUME ThreadConstants, TypeOK
    PROVE  NextAddresses \subseteq Addresses
<1>1. (cwp + (Windows - 1)) % Windows \in 0 .. Windows - 1
  BY WindowRound DEF ThreadConstants, TypeOK
<1>2. r17[(cwp + Windows - 1) % Windows] \in Addresses \union {NoAddress}
  <2>1. cwp + (Windows - 1) = cwp + Windows - 1
    BY DEF ThreadConstants, TypeOK
  <2> QED BY <1>1, <2>1 DEF TypeOK
<1> QED BY <1>2 DEF NextAddresses, CodeOf

LEMMA InitType == ThreadConstants /\ Init => TypeOK
<1> SUFFICES ASSUME ThreadConstants, Init PROVE TypeOK
  OBVIOUS
<1>1. pc \in Addresses /\ inst \in Program \union Handler
  BY DEF Init, CodeOf, Addresses
<1>2. 0 \in 0 .. Windows - 1 /\ 0 \in 0 .. MaxLoad
  BY DEF ThreadConstants
<1>3. /\ r17 \in [0 .. Windows - 1 -> Addresses \union {NoAddress}]
      /\ r18 \in [0 .. Windows - 1 -> Addresses \union {NoAddress}]
  BY DEF Init
<1>4. /\ dt \in [Timers -> 0 .. MaxLoad]
      /\ dtStatus \in [Timers -> {"UNSET", "SET", "MISSED"}]
  BY <1>2 DEF Init
<1>5. /\ {dword, fetchStalled, memStalled, deadStalled, dwordStalled, et} \subseteq BOOLEAN
      /\ trapType \in {0, IllegalInstruction} \union {DeadlineTrap(i) : i \in Timers}
  BY DEF Init
<1>6. /\ stage \in {"fetch", "regacc", "execute", "mem", "except"}
      /\ trapped \in 0 .. 2
      /\ done \subseteq {"load", "store", "first", "second", "step", "again"}
  BY DEF Init
<1>7. pllLoaded \in BOOLEAN
  BY DEF Init
<1>8. cwp \in 0 .. Windows - 1 /\ home \in 0 .. Windows - 1
      /\ plldt \in 0 .. MaxLoad /\ pllLoad \in 0 .. MaxLoad
  BY <1>2 DEF Init
<1> QED BY <1>1, <1>3, <1>4, <1>5, <1>6, <1>7, <1>8 DEF TypeOK

\* A tick of the deadline timers.
LEMMA DecrementTyped ==
    ASSUME ThreadConstants, TypeOK, DecrementTimers
    PROVE  /\ dt' \in [Timers -> 0 .. MaxLoad]
           /\ dtStatus' \in [Timers -> {"UNSET", "SET", "MISSED"}]
<1>1. ASSUME NEW i \in Timers
      PROVE  (IF dt[i] > 0 THEN dt[i] - 1 ELSE 0) \in 0 .. MaxLoad
  BY DEF ThreadConstants, TypeOK
<1> QED BY <1>1 DEF TypeOK, DecrementTimers

\* The last missed timer is a missed one.
LEMMA LastIsMissed ==
    ASSUME ThreadConstants, NEW status, Missed(status) # {}
    PROVE  LastMissed(status) \in Missed(status)
<1>1. PICK n \in Timers : \A i \in Timers : i <= n
  BY DEF ThreadConstants
<1>2. n \in Nat /\ \A i \in Missed(status) : i \in Nat /\ i <= n
  BY <1>1 DEF Missed, ThreadConstants
<1> DEFINE Distances == {d \in Nat : \E i \in Missed(status) : d = n - i}
<1>3. Distances # {}
  <2>1. PICK i \in Missed(status) : TRUE
    OBVIOUS
  <2>2. n - i \in Nat
    BY <1>1, <1>2, <2>1
  <2> QED BY <2>1, <2>2
<1>4. PICK d \in Distances : \A e \in Distances : <<e, d>> \notin OpToRel(<, Nat)
  <2> HIDE DEF Distances
  <2>1. Distances \subseteq Nat
    BY DEF Distances
  <2> QED BY <1>3, <2>1, NatLessThanWellFounded, WFMin
<1>5. PICK i \in Missed(status) : d = n - i
  OBVIOUS
<1>6. ASSUME NEW j \in Missed(status) PROVE j <= i
  <2>1. n - j \in Distances /\ n - j \in Nat /\ i \in Nat /\ j \in Nat /\ n \in Nat
    BY <1>1, <1>2
  <2>2. ~(n - j < d)
    BY <1>4, <2>1 DEF OpToRel
  <2> QED BY <1>5, <2>1, <2>2
<1> QED BY <1>6 DEF LastMissed

\* What regacc leaves.
LEMMA RegAccTyped ==
    ASSUME ThreadConstants, TypeOK, RegAcc
    PROVE  TypeOK'
<1> USE DEF TypeOK
<1>0. inst.timer \in Timers /\ inst.op \in Ops
  BY Fields
<1>1. CASE fetchStalled
  BY <1>1 DEF RegAcc, history
<1>2. CASE ~fetchStalled
  <2>1. deadStalled' \in BOOLEAN /\ pllLoaded' \in BOOLEAN
        /\ dtStatus' \in [Timers -> {"UNSET", "SET", "MISSED"}]
    BY <1>0, <1>2 DEF RegAcc, DeadlineInstruction, PllDeadline, Expired
  <2>2. trapped' \in 0 .. 2
        /\ trapType' \in {0, IllegalInstruction} \union {DeadlineTrap(i) : i \in Timers}
    <3>1. Missed(dtStatus') # {} => LastMissed(dtStatus') \in Timers
      BY LastIsMissed DEF Missed
    <3> QED BY <1>2, <3>1 DEF RegAcc, CheckDeadline
  <2>3. dword' \in BOOLEAN /\ dwordStalled' \in BOOLEAN
    BY <1>2 DEF RegAcc, DoubleWord
  <2>4. cwp' \in 0 .. Windows - 1
    <3>1. Increment(inst.op) \in 0 .. Windows
      BY DEF Increment, ThreadConstants
    <3> QED BY <1>2, <3>1, WindowRound DEF RegAcc
  <2> QED BY <2>1, <2>2, <2>3, <2>4 DEF RegAcc, history
<1> QED BY <1>1, <1>2

\* What the exception stage leaves of an unstalled pass.
LEMMA TrapTyped ==
    ASSUME ThreadConstants, TypeOK, TrapFirstPass \/ TrapSecondPass
    PROVE  TypeOK'
<1> USE DEF TypeOK
<1>1. dwordStalled' \in BOOLEAN
  BY DEF TrapFirstPass, TrapSecondPass, Unstalled, SetDwordState
<1>2. trapped' \in 0 .. 2
      /\ trapType' \in {0, IllegalInstruction} \union {DeadlineTrap(i) : i \in Timers}
  BY DEF TrapFirstPass, TrapSecondPass, AfterPass
<1>3. Saved(pc) \in Addresses \union {NoAddress}
  BY DEF Saved
<1>4. CASE TrapFirstPass
  <2>1. cwp + (Windows - 1) = cwp + Windows - 1 /\ Windows - 1 \in 0 .. Windows
    BY DEF ThreadConstants
  <2>2. (cwp + Windows - 1) % Windows \in 0 .. Windows - 1
    BY <2>1, WindowRound
  <2>3. cwp' \in 0 .. Windows - 1
    BY <1>4, <2>2 DEF TrapFirstPass
  <2>4. r17' \in [0 .. Windows - 1 -> Addresses \union {NoAddress}]
    BY <1>3, <1>4, <2>3 DEF TrapFirstPass
  <2> QED BY <1>1, <1>2, <1>4, <2>3, <2>4 DEF TrapFirstPass, Unstalled, timers, pll, history
<1>5. CASE TrapSecondPass
  <2>1. r18' \in [0 .. Windows - 1 -> Addresses \union {NoAddress}]
    BY <1>3, <1>5 DEF TrapSecondPass
  <2>2. pc' \in Addresses
    BY <1>5 DEF TrapSecondPass, CodeOf
  <2>3. dtStatus' \in [Timers -> {"UNSET", "SET", "MISSED"}]
    BY <1>5 DEF TrapSecondPass, StatusAfterTrap
  <2> QED BY <1>1, <1>2, <1>5, <2>1, <2>2, <2>3 DEF TrapSecondPass, Unstalled, pll
<1> QED BY <1>4, <1>5

LEMMA CommitTyped ==
    ASSUME ThreadConstants, TypeOK, CommitPass
    PROVE  TypeOK'
<1> USE DEF TypeOK
<1>0. inst.value \in 0 .. MaxLoad /\ inst.timer \in Timers
  BY Fields
<1>1. dwordStalled' \in BOOLEAN /\ et' \in BOOLEAN
  BY DEF CommitPass, Unstalled, SetDwordState
<1>2. trapped' \in 0 .. 2
      /\ trapType' \in {0, IllegalInstruction} \union {DeadlineTrap(i) : i \in Timers}
  BY DEF CommitPass, AfterPass
<1>3. pc' \in Addresses /\ (done' = done \/ done' = {})
  BY LeadsToCode DEF CommitPass, IncPc
<1>4. pllLoad' \in 0 .. MaxLoad /\ dt' \in [Timers -> 0 .. MaxLoad]
  BY <1>0 DEF CommitPass
<1>5. home' \in 0 .. Windows - 1 /\ cwp' \in 0 .. Windows - 1
  <2>1. Increment(inst.op) \in 0 .. Windows
    BY DEF Increment, ThreadConstants
  <2>2. (home + Increment(inst.op)) % Windows \in 0 .. Windows - 1
    BY <2>1, WindowRound
  <2> QED BY <2>2 DEF CommitPass
<1> QED BY <1>1, <1>2, <1>3, <1>4, <1>5 DEF CommitPass, Unstalled

LEMMA TypeStep ==
    ASSUME ThreadConstants, TypeOK, [Next]_vars
    PROVE  TypeOK'
<1> USE DEF TypeOK
<1>1. CASE FetchSkipped
  BY <1>1, DecrementTyped DEF FetchSkipped, stalls, trap, regs, pll, history
<1>2. CASE FetchInstruction
  <2>1. inst' \in Program \union Handler
    BY <1>2, Fields DEF FetchInstruction
  <2>2. fetchStalled' \in BOOLEAN
    BY <1>2 DEF FetchInstruction, ThreadConstants
  <2> QED BY <1>2, <2>1, <2>2, DecrementTyped DEF FetchInstruction, trap, regs, pll, history
<1>3. CASE RegAcc
  BY <1>3, RegAccTyped
<1>4. CASE Execute
  BY <1>4 DEF Execute, Changes, stalls, trap, regs, timers, pll
<1>5. CASE Mem
  <2>1. memStalled' \in BOOLEAN
    BY <1>5 DEF Mem, Refusals, ThreadConstants
  <2>2. done' \subseteq {"load", "store", "first", "second", "step", "again"}
    BY <1>5 DEF Mem, Changes, Access, WhichHalf
  <2> QED BY <1>5, <2>1, <2>2 DEF Mem, trap, regs, timers, pll
<1>6. CASE Stalled
  <2>1. pllLoad' \in 0 .. MaxLoad /\ dwordStalled' \in BOOLEAN
    BY <1>6, Fields DEF Stalled, SetDwordState
  <2> QED BY <1>6, <2>1 DEF Stalled, trap, regs, timers, history
<1>7. CASE TrapFirstPass \/ TrapSecondPass
  BY <1>7, TrapTyped
<1>8. CASE CommitPass
  BY <1>8, CommitTyped
<1>9. CASE PllTick
  <2>1. MaxLoad \in Nat
    BY DEF ThreadConstants
  <2>2. plldt' \in 0 .. MaxLoad /\ pllLoad' \in 0 .. MaxLoad
    BY <1>9, <2>1 DEF PllTick
  <2> QED BY <1>9, <2>2 DEF PllTick, stalls, trap, regs, timers, history
<1>10. CASE UNCHANGED vars
  BY <1>10 DEF vars, stalls, trap, regs, timers, pll, history
<1> QED BY <1>1, <1>2, <1>3, <1>4, <1>5, <1>6, <1>7, <1>8, <1>9, <1>10 DEF Next, Visit

-----------------------------------------------------------------------------
(* Stalls                                                                  *)

LEMMA RegAccPassing ==
    ASSUME ThreadConstants, TypeOK, Passing, RegAcc
    PROVE  Passing'
<1> USE DEF TypeOK
<1>1. CASE fetchStalled
  BY <1>1 DEF RegAcc, Passing, Ready
<1>2. CASE ~fetchStalled
  <2>1. inst' = inst /\ pc' = pc /\ et' = et /\ memStalled' = memStalled /\ ~fetchStalled'
    BY <1>2 DEF RegAcc
  <2>2. deadStalled' => inst'.op \in {"dead", "deadpll"}
    BY <1>2, <2>1 DEF RegAcc, DeadlineInstruction, PllDeadline, Passing
  <2>3. Ready' /\ inst'.op # "ldd" => ~dword' /\ ~dwordStalled'
    BY <1>2, <2>1 DEF RegAcc, DoubleWord, Ready
  <2>4. trapped' = trapped \/ (trapped = 0 /\ trapped' = 1)
    BY <1>2 DEF RegAcc, CheckDeadline
  <2>5. inst = pc.inst \/ (inst.op = "rett" /\ et /\ trapped # 0)
    BY DEF RegAcc, Passing
  <2> QED BY <2>1, <2>2, <2>3, <2>4, <2>5 DEF Passing
<1> QED BY <1>1, <1>2

LEMMA PassingStep ==
    ASSUME ThreadConstants, TypeOK, Passing, [Next]_vars
    PROVE  Passing'
<1> USE DEF TypeOK
<1>1. CASE FetchSkipped
  BY <1>1 DEF FetchSkipped, stalls, trap, Passing, Ready
<1>2. CASE FetchInstruction
  BY <1>2 DEF FetchInstruction, trap, Passing, Ready
<1>3. CASE RegAcc
  BY <1>3, RegAccPassing
<1>4. CASE Execute
  BY <1>4 DEF Execute, stalls, trap, Passing, Ready
<1>5. CASE Mem
  BY <1>5 DEF Mem, trap, Passing, Ready
<1>6. CASE Stalled
  BY <1>6 DEF Stalled, trap, Passing, Ready
<1>7. CASE TrapFirstPass
  BY <1>7 DEF TrapFirstPass, Unstalled, AfterPass, Passing, Ready
<1>8. CASE TrapSecondPass
  BY <1>8 DEF TrapSecondPass, Unstalled, AfterPass, Passing, Ready
<1>9. CASE CommitPass
  BY <1>9 DEF CommitPass, Unstalled, AfterPass, Passing, Ready
<1>10. CASE PllTick
  BY <1>10 DEF PllTick, stalls, trap, Passing, Ready
<1>11. CASE UNCHANGED vars
  BY <1>11 DEF vars, stalls, trap, Passing, Ready
<1> QED BY <1>1, <1>2, <1>3, <1>4, <1>5, <1>6, <1>7, <1>8, <1>9, <1>10, <1>11
        DEF Next, Visit

-----------------------------------------------------------------------------
(* Deadlines                                                               *)

\* A timer that has run out stays so, and a deadline that is missed is.
LEMMA DecrementKeeps ==
    ASSUME ThreadConstants, TypeOK, DecrementTimers, NEW i \in Timers,
           dtStatus[i] = "MISSED" => dt[i] = 0
    PROVE  /\ dtStatus'[i] = "MISSED" => dt'[i] = 0
           /\ dtStatus[i] = "MISSED" => dtStatus'[i] = "MISSED"
BY DEF DecrementTimers, TypeOK

\* No trap is under way for one of the deadlines when an illegal one begins.
LEMMA IllegalIsNoDeadline ==
    ASSUME ThreadConstants, NEW i \in Timers
    PROVE  IllegalInstruction # DeadlineTrap(i)
BY DEF IllegalInstruction, DeadlineTrap, ThreadConstants

\* A DEAD that passes takes its own miss back before the other timers are
\* looked at, so that no trap is ever for the timer of the DEAD.
LEMMA RegAccDeadlines ==
    ASSUME ThreadConstants, TypeOK, Passing, Deadlines, RegAcc
    PROVE  Deadlines'
<1> USE DEF TypeOK
<1>0. inst.timer \in Timers /\ inst' = inst /\ dt' = dt /\ fetchStalled' = fetchStalled
  BY Fields DEF RegAcc
<1>1. CASE fetchStalled
  <2>1. ~Ready' /\ UNCHANGED <<dtStatus, trapped, trapType>>
    BY <1>0, <1>1 DEF RegAcc, Ready
  <2> QED BY <1>0, <2>1 DEF Deadlines
<1>2. CASE ~fetchStalled
  <2>1. ASSUME inst.op = "dead"
        PROVE  /\ deadStalled' = ~Expired(inst)
               /\ Expired(inst) => dtStatus'[inst.timer] # "MISSED"
               /\ ~Expired(inst) => dtStatus' = dtStatus
               /\ \A i \in Timers : i # inst.timer => dtStatus'[i] = dtStatus[i]
    BY <1>0, <1>2, <2>1 DEF RegAcc, DeadlineInstruction
  <2>2. inst.op # "dead" => dtStatus' = dtStatus
    BY <1>2 DEF RegAcc, DeadlineInstruction
  <2>3. \A i \in Timers : dtStatus'[i] = "MISSED" => dt'[i] = 0 /\ dtStatus[i] = "MISSED"
    BY <1>0, <2>1, <2>2 DEF Deadlines
  <2>4. \A i \in Timers : dtStatus'[i] = "MISSED" => ~(inst.op = "dead" /\ inst.timer = i)
    BY <1>0, <2>1, <2>3 DEF Expired
  <2>5. ASSUME NEW i \in Timers, trapped' # 0, trapType' = DeadlineTrap(i)
        PROVE  dtStatus'[i] = "MISSED" /\ ~(inst.op = "dead" /\ inst.timer = i)
    <3>1. CASE Missed(dtStatus') # {} /\ trapped = 0
      <4>1. LastMissed(dtStatus') \in Missed(dtStatus')
        BY <3>1, LastIsMissed
      <4>2. trapType' = DeadlineTrap(LastMissed(dtStatus'))
        BY <1>2, <3>1 DEF RegAcc, CheckDeadline
      <4>3. LastMissed(dtStatus') = i
        <5>1. LastMissed(dtStatus') \in Nat /\ i \in Nat
          BY <4>1 DEF Missed, ThreadConstants
        <5>2. 112 + LastMissed(dtStatus') = 112 + i
          BY <2>5, <4>2 DEF DeadlineTrap
        <5> QED BY <5>1, <5>2
      <4> QED BY <2>4, <4>1, <4>3 DEF Missed
    <3>2. CASE ~(Missed(dtStatus') # {} /\ trapped = 0)
      <4>1. UNCHANGED <<trapped, trapType>>
        BY <1>2, <3>2 DEF RegAcc, CheckDeadline
      <4>2. dtStatus[i] = "MISSED" /\ ~(inst.op = "dead" /\ inst.timer = i)
        BY <2>5, <4>1 DEF Deadlines
      <4> QED BY <2>1, <2>2, <4>2
    <3> QED BY <3>1, <3>2
  <2>6. ASSUME Ready', inst.op = "dead"
        PROVE  (dt'[inst.timer] = 0 \/ inst.load) /\ dtStatus'[inst.timer] # "MISSED"
    BY <1>0, <2>1, <2>6 DEF Ready, Expired
  <2> QED BY <1>0, <2>3, <2>5, <2>6 DEF Deadlines
<1> QED BY <1>1, <1>2

\* The timers go on whether a new instruction is fetched or not.
LEMMA FetchDeadlines ==
    ASSUME ThreadConstants, TypeOK, Passing, Deadlines, FetchSkipped \/ FetchInstruction
    PROVE  Deadlines'
<1>1. ~Ready' /\ DecrementTimers /\ UNCHANGED <<trapped, trapType>>
  BY DEF FetchSkipped, FetchInstruction, Ready, trap
<1>2. trapped # 0 => inst' = inst
  BY DEF FetchSkipped, FetchInstruction
<1>3. ASSUME NEW i \in Timers
      PROVE  /\ dtStatus'[i] = "MISSED" => dt'[i] = 0
             /\ dtStatus[i] = "MISSED" => dtStatus'[i] = "MISSED"
  BY <1>1, DecrementKeeps DEF Deadlines
<1> QED BY <1>1, <1>2, <1>3 DEF Deadlines

LEMMA DeadlinesStep ==
    ASSUME ThreadConstants, TypeOK, Passing, Deadlines, [Next]_vars
    PROVE  Deadlines'
<1> USE DEF TypeOK
<1>1. CASE FetchSkipped \/ FetchInstruction
  BY <1>1, FetchDeadlines
<1>2. CASE RegAcc
  BY <1>2, RegAccDeadlines
<1>3. CASE Execute \/ Mem
  <2>1. /\ UNCHANGED <<inst, fetchStalled, deadStalled, dt, dtStatus, trapped, trapType>>
        /\ stage \in {"execute", "mem"}
    <3>1. CASE Execute
      BY <3>1 DEF Execute, stalls, trap, timers
    <3>2. CASE Mem
      BY <3>2 DEF Mem, trap, timers
    <3> QED BY <1>3, <3>1, <3>2
  <2>2. Ready' => Ready
    BY <2>1 DEF Ready
  <2> QED BY <2>1, <2>2 DEF Deadlines
<1>4. CASE Stalled
  <2>1. UNCHANGED <<inst, dt, dtStatus, trapped, trapType>> /\ ~Ready'
    BY <1>4 DEF Stalled, trap, timers, Ready
  <2> QED BY <2>1 DEF Deadlines
<1>5. CASE TrapFirstPass
  <2>1. UNCHANGED <<inst, dt, dtStatus>> /\ ~Ready'
    BY <1>5 DEF TrapFirstPass, Unstalled, timers, Ready
  <2>2. (trapped # 0 /\ trapType' = trapType) \/ trapType' = IllegalInstruction
    BY <1>5 DEF TrapFirstPass, AfterPass
  <2> QED BY <2>1, <2>2, IllegalIsNoDeadline DEF Deadlines
<1>6. CASE TrapSecondPass
  <2>1. UNCHANGED <<inst, dt>> /\ ~Ready' /\ dtStatus' = StatusAfterTrap
    BY <1>6 DEF TrapSecondPass, Unstalled, Ready
  <2>2. trapped' = 0 \/ trapType' = IllegalInstruction
    BY <1>6 DEF TrapSecondPass, AfterPass
  <2>3. \A i \in Timers : dtStatus'[i] = "MISSED" => dtStatus[i] = "MISSED"
    BY <2>1 DEF StatusAfterTrap
  <2> QED BY <2>1, <2>2, <2>3, IllegalIsNoDeadline DEF Deadlines
<1>7. CASE CommitPass
  <2>1. UNCHANGED <<inst, dtStatus>> /\ ~Ready' /\ Ready
    BY <1>7 DEF CommitPass, Unstalled, Ready
  <2>2. trapped' = 0 \/ trapType' = IllegalInstruction
    BY <1>7 DEF CommitPass, AfterPass
  <2>3. \A i \in Timers : dtStatus[i] = "MISSED" => dt'[i] = dt[i]
    BY <1>7, <2>1 DEF CommitPass, Deadlines
  <2> QED BY <2>1, <2>2, <2>3, IllegalIsNoDeadline DEF Deadlines
<1>8. CASE PllTick \/ UNCHANGED vars
  <2>1. UNCHANGED <<stage, inst, fetchStalled, deadStalled, dt, dtStatus, trapped, trapType>>
    BY <1>8 DEF PllTick, vars, stalls, trap, timers
  <2> QED BY <2>1 DEF Deadlines, Ready
<1> QED BY <1>1, <1>2, <1>3, <1>4, <1>5, <1>6, <1>7, <1>8 DEF Next, Visit

-----------------------------------------------------------------------------
(* Effects                                                                 *)

\* The pass that commits an instruction is none of a trap's second.
LEMMA CommitsUntrapped ==
    ASSUME TypeOK, Passing, CommitPass
    PROVE  trapped # 2 /\ Ready /\ ~memStalled
BY DEF TypeOK, Passing, CommitPass, Unstalled, Ready

LEMMA EffectsStep ==
    ASSUME ThreadConstants, TypeOK, Passing, Effects, [Next]_vars
    PROVE  Effects'
<1> USE DEF TypeOK
<1>0. stage # "fetch" /\ pc.inst.op # "ldd" => inst.op # "ldd"
  BY DEF Passing
<1>1. CASE FetchSkipped
  BY <1>1 DEF FetchSkipped, trap, history, Effects
<1>2. CASE FetchInstruction
  BY <1>2 DEF FetchInstruction, trap, history, Effects
<1>3. CASE RegAcc
  <2>1. trapped' = trapped \/ (trapped = 0 /\ trapped' = 1)
    BY <1>3 DEF RegAcc, CheckDeadline
  <2> QED BY <1>3, <2>1 DEF RegAcc, history, Effects
<1>4. CASE Execute
  <2>1. UNCHANGED <<pc, inst, fetchStalled, trapped>> /\ stage = "execute" /\ stage' = "mem"
    BY <1>4 DEF Execute, stalls, trap
  <2>2. ASSUME trapped # 2, pc.inst.op # "ldd"
        PROVE  done' = Stepped
    <3>1. done = {}
      BY <2>1, <2>2 DEF Effects
    <3> QED BY <1>4, <3>1 DEF Execute, Changes, Stepped
  <2> QED BY <2>1, <2>2 DEF Effects, Stepped
<1>5. CASE Mem
  <2>1. UNCHANGED <<pc, inst, fetchStalled, trapped>> /\ stage = "mem" /\ stage' = "except"
    BY <1>5 DEF Mem, trap
  <2>2. ASSUME trapped # 2, pc.inst.op # "ldd"
        PROVE  done' = Accessed'
    <3>1. done = Stepped /\ inst.op # "ldd"
      BY <1>0, <2>1, <2>2 DEF Effects
    <3>2. CASE ~fetchStalled /\ inst.op \in {"load", "store"}
      <4>1. done = {} /\ Access = inst.op
        BY <3>1, <3>2 DEF Stepped, Access
      <4>2. (memStalled' /\ done' = {}) \/ (~memStalled' /\ done' = {inst.op})
        <5>1. PICK stalled \in Refusals :
                  /\ memStalled' = stalled
                  /\ IF stalled THEN UNCHANGED done ELSE Changes(inst.op)
          BY <1>5, <3>2, <4>1 DEF Mem
        <5>2. stalled \in BOOLEAN
          BY DEF ThreadConstants, Refusals
        <5>3. Changes(inst.op) => done' = {inst.op}
          BY <4>1 DEF Changes
        <5> QED BY <4>1, <5>1, <5>2, <5>3
      <4> QED BY <2>1, <3>2, <4>2 DEF Accessed, Stepped
    <3>3. CASE ~(~fetchStalled /\ inst.op \in {"load", "store"})
      <4>1. done' = done
        BY <1>5, <3>1, <3>3 DEF Mem
      <4> QED BY <2>1, <3>1, <3>3, <4>1 DEF Accessed, Stepped
    <3> QED BY <3>2, <3>3
  <2> QED BY <2>1, <2>2 DEF Effects
<1>6. CASE Stalled
  <2>1. UNCHANGED <<pc, trapped, done>> /\ stage = "except" /\ stage' = "fetch"
    BY <1>6 DEF Stalled, trap, history
  <2>2. Accessed = {}
    BY <1>6 DEF Stalled, Accessed, Stepped, Passing
  <2> QED BY <2>1, <2>2 DEF Effects
<1>7. CASE TrapFirstPass
  <2>1. /\ UNCHANGED <<pc, done>> /\ stage = "except" /\ stage' = "fetch" /\ trapped = 1
        /\ trapped' = 2 \/ inst.op = "rett"
    BY <1>7 DEF TrapFirstPass, Unstalled, AfterPass, history
  <2>2. inst.op = "rett" => Accessed = {}
    BY DEF Accessed, Stepped
  <2> QED BY <2>1, <2>2 DEF Effects
<1>8. CASE TrapSecondPass
  BY <1>8 DEF TrapSecondPass, Unstalled, Effects
<1>9. CASE CommitPass
  <2>1. stage' = "fetch" /\ (done' = {} \/ (dwordStalled' /\ pc' = pc))
    BY <1>9 DEF CommitPass, Unstalled, IncPc
  <2>2. dwordStalled' => pc.inst.op = "ldd"
    BY <1>9, CommitsUntrapped DEF Passing, CommitPass, Unstalled, SetDwordState
  <2> QED BY <2>1, <2>2 DEF Effects
<1>10. CASE PllTick \/ UNCHANGED vars
  BY <1>10 DEF PllTick, vars, stalls, trap, history, Effects, Stepped, Accessed
<1> QED BY <1>1, <1>2, <1>3, <1>4, <1>5, <1>6, <1>7, <1>8, <1>9, <1>10 DEF Next, Visit

-----------------------------------------------------------------------------
(* Theorems for any program and handlers                                   *)

IInv == TypeOK /\ Passing /\ Deadlines /\ Effects

LEMMA InitIInv == ThreadConstants /\ Init => IInv
<1> SUFFICES ASSUME ThreadConstants, Init PROVE IInv
  OBVIOUS
<1>1. TypeOK
  BY InitType
<1>2. Passing /\ Deadlines /\ Effects
  BY DEF Init, Passing, Ready, Deadlines, Effects
<1> QED BY <1>1, <1>2 DEF IInv

LEMMA StepIInv == ASSUME ThreadConstants, IInv, [Next]_vars PROVE IInv'
BY TypeStep, PassingStep, DeadlinesStep, EffectsStep DEF IInv

\* Every variable keeps its type, whatever is stalled and trapped.
THEOREM ThreadTypeCorrect == ThreadConstants => (Spec => []TypeOK)
<1> SUFFICES ASSUME ThreadConstants PROVE Spec => []TypeOK
  OBVIOUS
<1>1. IInv /\ [Next]_vars => IInv'
  BY StepIInv
<1>2. IInv => TypeOK
  BY DEF IInv
<1> QED BY <1>1, <1>2, InitIInv, PTL DEF Spec

\* _check_deadline traps only for a timer that ran out, and by the time the
\* handler is entered nothing has taken the miss back.
THEOREM TrapsAreForMissed == ThreadConstants => (Spec => TrapIsForMissed)
<1> SUFFICES ASSUME ThreadConstants PROVE Spec => TrapIsForMissed
  OBVIOUS
<1>1. IInv /\ [Next]_vars => IInv'
  BY StepIInv
<1>2. IInv /\ TrapSecondPass =>
          \A i \in Timers : trapType = DeadlineTrap(i) => dt[i] = 0 /\ dtStatus[i] = "MISSED"
  BY DEF IInv, Deadlines, TrapSecondPass
<1> QED BY <1>1, <1>2, InitIInv, PTL DEF Spec, TrapIsForMissed

\* _destination_regular_deadlines lets no DEAD pass early, and no pass of the
\* pipeline counts a timer up between regacc and the commit.
THEOREM DeadsWait == ThreadConstants => (Spec => DeadWaits)
<1> SUFFICES ASSUME ThreadConstants PROVE Spec => DeadWaits
  OBVIOUS
<1>1. IInv /\ [Next]_vars => IInv'
  BY StepIInv
<1>2. ASSUME IInv, Committed, inst.op = "dead", ~inst.load
      PROVE  dt[inst.timer] = 0
  <2>1. CommitPass
    BY <1>2 DEF Committed
  <2> QED BY <1>2, <2>1, CommitsUntrapped DEF IInv, Deadlines
<1> QED BY <1>1, <1>2, InitIInv, PTL DEF Spec, DeadWaits

-----------------------------------------------------------------------------
(* Windows: a SAVE or RESTORE that a trap squashes has moved the window by *)
(* then (SquashedHasNoEffect), so what follows is about timed blocks and   *)
(* handlers without one, and a RETT is for handlers.                       *)

StaysInWindow ==
    /\ \A i \in Program : i.op \notin {"save", "restore", "rett"}
    /\ \A i \in Handler : i.op \notin {"save", "restore"}

\* The program is in its window, and its handler, from the second trap pass on,
\* below it: a RETT that finds an address of the program comes back to it.
\* A RETT is reached with traps disabled only, and no trap saves its address.
InWindows ==
    /\ home = 0
    /\ pc.inst.op = "rett" => ~et
    /\ stage # "fetch" \/ memStalled \/ deadStalled \/ trapped # 0 => inst = pc.inst
    /\ pc.code = "program" => cwp = IF trapped = 2 THEN Windows - 1 ELSE 0
    /\ \A w \in 0 .. Windows - 1 : r17[w] # NoAddress =>
           /\ r17[w].inst.op # "rett"
           /\ r17[w].code = "program" => w = Windows - 1
    /\ trapped = 2 /\ inst.op \notin {"rdsr", "wrpsr"} => r17[cwp] = pc

\* The program counter is in the program or in a handler, with their instructions.
LEMMA CodeFields ==
    ASSUME NEW a \in Addresses
    PROVE  /\ a # NoAddress
           /\ a.code \in {"program", "handler"}
           /\ a.code = "program" => a.inst \in Program
           /\ a.code = "handler" => a.inst \in Handler
BY DEF Addresses, NoAddress

\* One window down and one up.
LEMMA WindowBelow ==
    ASSUME ThreadConstants, NEW w \in 0 .. Windows - 1
    PROVE  /\ (w + 0) % Windows = w
           /\ (w + Windows - 1) % Windows = IF w = 0 THEN Windows - 1 ELSE w - 1
           /\ (w + Windows - 1) % Windows \in 0 .. Windows - 1
<1>1. Windows \in Nat \ {0}
  BY DEF ThreadConstants
<1>2. CASE w = 0
  <2>1. w + Windows - 1 = Windows - 1 /\ Windows - 1 \in 0 .. Windows - 1
    BY <1>1, <1>2
  <2>2. (Windows - 1) % Windows = Windows - 1
    BY <1>1
  <2> QED BY <1>1, <1>2, <2>1, <2>2
<1>3. CASE w # 0
  <2>1. w + Windows - 1 = Windows + (w - 1) /\ w - 1 \in 0 .. Windows - 1
    BY <1>1, <1>3
  <2>2. (Windows * 1 + (w - 1)) % Windows = w - 1
    BY <1>1, <2>1
  <2> QED BY <1>1, <1>3, <2>1, <2>2
<1> QED BY <1>2, <1>3

LEMMA InitWindows == ThreadConstants /\ StaysInWindow /\ Init => InWindows
<1> SUFFICES ASSUME ThreadConstants, StaysInWindow, Init PROVE InWindows
  OBVIOUS
<1>1. pc.inst \in Program
  BY CodeFields DEF Init, CodeOf
<1>2. pc.inst.op # "rett"
  BY <1>1 DEF StaysInWindow
<1> QED BY <1>2 DEF Init, InWindows

\* No instruction in the pipeline moves the window but a RETT of a handler, which
\* is latched with traps disabled.
LEMMA RegAccWindows ==
    ASSUME ThreadConstants, StaysInWindow, TypeOK, Passing, InWindows, RegAcc
    PROVE  InWindows'
<1> USE DEF TypeOK
<1>1. /\ UNCHANGED <<pc, inst, et, r17, home, memStalled>> /\ inst = pc.inst
      /\ stage' = "execute"
  BY DEF RegAcc, InWindows, history
<1>2. trapped' = trapped \/ (trapped = 0 /\ trapped' = 1)
  BY DEF RegAcc, CheckDeadline
<1>3. ASSUME pc.code = "program" \/ trapped = 2
      PROVE  cwp' = cwp
  <2>1. inst.op # "rett"
    <3>1. pc.code = "program" => pc.inst \in Program
      BY CodeFields
    <3> QED BY <1>1, <1>3, <3>1 DEF InWindows, Passing, StaysInWindow
  <2>2. inst.op \notin {"save", "restore"}
    BY <1>1, Fields DEF StaysInWindow
  <2>3. Increment(inst.op) = 0
    BY <2>1, <2>2 DEF Increment
  <2>4. cwp' = cwp \/ cwp' = (cwp + 0) % Windows
    BY <2>3 DEF RegAcc
  <2> QED BY <2>4, WindowBelow
<1> QED BY <1>1, <1>2, <1>3 DEF InWindows

\* The trap passes: down by a window, and away to the handler.
LEMMA TrapWindows ==
    ASSUME ThreadConstants, StaysInWindow, TypeOK, Passing, InWindows,
           TrapFirstPass \/ TrapSecondPass
    PROVE  InWindows'
<1> USE DEF TypeOK
<1>1. inst = pc.inst /\ inst.op # "rett" /\ et /\ et' = et /\ inst' = inst /\ home' = 0
  BY DEF TrapFirstPass, TrapSecondPass, Unstalled, InWindows, history
<1>2. CASE TrapFirstPass
  <2>1. /\ trapped = 1 /\ trapped' = 2 /\ pc' = pc
        /\ cwp' = (cwp + Windows - 1) % Windows
        /\ r17' = [r17 EXCEPT ![cwp'] = Saved(pc)]
    BY <1>1, <1>2 DEF TrapFirstPass, AfterPass
  <2>2. cwp' = (IF cwp = 0 THEN Windows - 1 ELSE cwp - 1) /\ cwp' \in 0 .. Windows - 1
    BY <2>1, WindowBelow
  <2>3. pc.code = "program" => cwp' = Windows - 1
    BY <2>1, <2>2 DEF InWindows
  <2>4. r17'[cwp'] = Saved(pc) /\ \A w \in 0 .. Windows - 1 : w # cwp' => r17'[w] = r17[w]
    BY <2>1, <2>2
  <2>5. Saved(pc) # NoAddress => Saved(pc) = pc
    BY DEF Saved
  <2>6. inst.op \notin {"rdsr", "wrpsr"} => Saved(pc) = pc
    BY DEF Saved
  <2> QED BY <1>1, <2>1, <2>3, <2>4, <2>5, <2>6 DEF InWindows
<1>3. CASE TrapSecondPass
  <2>1. /\ trapped' = 0 /\ r17' = r17 /\ stage' = "fetch" /\ ~memStalled' /\ ~deadStalled'
        /\ pc' \in CodeOf("handler", et)
    BY <1>1, <1>3 DEF TrapSecondPass, AfterPass, Unstalled
  <2>2. pc'.code = "handler" /\ pc'.inst.op # "rett"
    BY <1>1, <2>1 DEF CodeOf
  <2> QED BY <1>1, <2>1, <2>2 DEF InWindows
<1> QED BY <1>2, <1>3

\* The next instruction: a RETT finds the window it came from.
LEMMA CommitWindows ==
    ASSUME ThreadConstants, StaysInWindow, TypeOK, Passing, InWindows, CommitPass
    PROVE  InWindows'
<1> USE DEF TypeOK
<1>1. /\ inst = pc.inst /\ inst' = inst /\ r17' = r17 /\ stage' = "fetch"
      /\ ~memStalled' /\ ~deadStalled' /\ trapped # 2
  BY CommitsUntrapped DEF CommitPass, Unstalled, InWindows
<1>2. ~(inst.op = "rett" /\ et)
  BY <1>1 DEF InWindows
<1>3. trapped' = 0
  BY <1>2 DEF CommitPass, AfterPass
<1>4. pc.code = "program" => inst.op \notin {"save", "restore", "rett"}
  BY <1>1, CodeFields DEF StaysInWindow
<1>5. home' = 0
  <2>1. pc.code = "program" => Increment(inst.op) = 0
    BY <1>4 DEF Increment
  <2>2. home' = home \/ home' = (home + 0) % Windows
    BY <2>1 DEF CommitPass
  <2> QED BY <2>2, WindowBelow DEF InWindows
<1>6. cwp' = IF inst.op = "leave" THEN 0 ELSE cwp
  BY DEF CommitPass, InWindows
<1>7. (pc'.inst.op = "rett" => ~et') /\ (pc'.code = "program" => cwp' = 0)
  <2>1. CASE pc' = pc /\ dwordStalled'
    <3>1. inst.op = "ldd"
      BY <1>1, <2>1, CommitsUntrapped DEF CommitPass, Unstalled, SetDwordState, Passing
    <3>2. et' = et
      BY <3>1 DEF CommitPass
    <3> QED BY <1>1, <1>6, <2>1, <3>1, <3>2 DEF InWindows
  <2>2. CASE pc' \in NextAddresses
    <3> DEFINE below == (cwp + Windows - 1) % Windows
    <3>1. below = (IF cwp = 0 THEN Windows - 1 ELSE cwp - 1) /\ below \in 0 .. Windows - 1
      BY WindowBelow
    <3> HIDE DEF below
    <3>2. CASE inst.op = "rett" /\ r17[below] # NoAddress
      <4>1. pc' = r17[below]
        BY <2>2, <3>2 DEF NextAddresses, below
      <4>2. pc'.inst.op # "rett" /\ (pc'.code = "program" => below = Windows - 1)
        BY <3>1, <3>2, <4>1 DEF InWindows
      <4>3. below = Windows - 1 => cwp = 0
        BY <3>1 DEF ThreadConstants
      <4> QED BY <1>6, <3>2, <4>2, <4>3
    <3>3. CASE inst.op = "leave"
      <4>1. pc' \in CodeOf("program", et')
        BY <2>2, <3>3 DEF NextAddresses
      <4>2. pc'.inst.op # "rett"
        BY <4>1, CodeFields DEF CodeOf, StaysInWindow
      <4> QED BY <1>6, <3>3, <4>2
    <3>4. CASE inst.op # "leave" /\ ~(inst.op = "rett" /\ r17[below] # NoAddress)
      <4>1. pc' \in CodeOf(pc.code, et')
        BY <2>2, <3>4 DEF NextAddresses, below
      <4>2. pc'.code = pc.code /\ (pc'.inst.op = "rett" => pc.code = "program" \/ ~et')
        BY <4>1, CodeFields DEF CodeOf
      <4>3. pc.code = "program" => pc'.inst.op # "rett"
        BY <4>1, CodeFields DEF CodeOf, StaysInWindow
      <4> QED BY <1>1, <1>6, <3>4, <4>2, <4>3 DEF InWindows
    <3> QED BY <3>2, <3>3, <3>4
  <2> QED BY <2>1, <2>2 DEF CommitPass, IncPc
<1> QED BY <1>1, <1>3, <1>5, <1>7 DEF InWindows

LEMMA WindowsStep ==
    ASSUME ThreadConstants, StaysInWindow, TypeOK, Passing, InWindows, [Next]_vars
    PROVE  InWindows'
<1> USE DEF TypeOK
<1>1. CASE FetchSkipped
  BY <1>1 DEF FetchSkipped, stalls, trap, regs, history, InWindows
<1>2. CASE FetchInstruction
  BY <1>2 DEF FetchInstruction, trap, regs, history, InWindows
<1>3. CASE RegAcc
  BY <1>3, RegAccWindows
<1>4. CASE Execute
  BY <1>4 DEF Execute, stalls, trap, regs, InWindows
<1>5. CASE Mem
  BY <1>5 DEF Mem, trap, regs, InWindows
<1>6. CASE Stalled
  BY <1>6 DEF Stalled, trap, regs, history, InWindows
<1>7. CASE TrapFirstPass \/ TrapSecondPass
  BY <1>7, TrapWindows
<1>8. CASE CommitPass
  BY <1>8, CommitWindows
<1>9. CASE PllTick
  BY <1>9 DEF PllTick, stalls, trap, regs, history, InWindows
<1>10. CASE UNCHANGED vars
  BY <1>10 DEF vars, stalls, trap, regs, history, InWindows
<1> QED BY <1>1, <1>2, <1>3, <1>4, <1>5, <1>6, <1>7, <1>8, <1>9, <1>10 DEF Next, Visit

WindowInv == IInv /\ InWindows

LEMMA WindowInvariance ==
    ASSUME ThreadConstants, StaysInWindow
    PROVE  (Init => WindowInv) /\ (WindowInv /\ [Next]_vars => WindowInv')
BY InitIInv, StepIInv, InitWindows, WindowsStep DEF WindowInv, IInv

\* handle_exceptions and return_from_trap: handlers within handlers, deadlines
\* missed in both, and returns or longjmps from any of them leave the program in
\* its window, and every handler next to it.
THEOREM ProgramIsHome ==
    ASSUME ThreadConstants, StaysInWindow
    PROVE  Spec => []WindowIsHome /\ HandlerWindow
<1>1. (Init => WindowInv) /\ (WindowInv /\ [Next]_vars => WindowInv')
  BY WindowInvariance
<1>2. WindowInv => WindowIsHome
  BY DEF WindowInv, InWindows, WindowIsHome
<1>3. ASSUME WindowInv, TrapSecondPass, pc.code = "program"
      PROVE  cwp' = (home + Windows - 1) % Windows
  <2>1. cwp' = Windows - 1 /\ home = 0
    BY <1>3 DEF WindowInv, InWindows, TrapSecondPass
  <2>2. (0 + Windows - 1) % Windows = Windows - 1
    BY WindowBelow DEF ThreadConstants
  <2> QED BY <2>1, <2>2
<1> QED BY <1>1, <1>2, <1>3, PTL DEF Spec, HandlerWindow

\* The handler finds where to return to, unless the trap was taken at an
\* instruction that names a special register, which gets the address instead.
THEOREM AddressesAreSaved ==
    ASSUME ThreadConstants, StaysInWindow
    PROVE  Spec => ReturnAddressSaved
<1>1. (Init => WindowInv) /\ (WindowInv /\ [Next]_vars => WindowInv')
  BY WindowInvariance
<1>2. ASSUME WindowInv, TrapSecondPass, inst.op \notin {"rdsr", "wrpsr"}
      PROVE  r17[cwp'] = pc /\ r18'[cwp'] = pc
  <2>1. r17[cwp] = pc /\ cwp' = cwp /\ r18' = [r18 EXCEPT ![cwp] = Saved(pc)]
    BY <1>2 DEF WindowInv, InWindows, TrapSecondPass
  <2>2. Saved(pc) = pc
    BY <1>2 DEF Saved
  <2>3. cwp \in DOMAIN r18
    BY <1>2 DEF WindowInv, IInv, TypeOK
  <2> QED BY <2>1, <2>2, <2>3
<1> QED BY <1>1, <1>2, PTL DEF Spec, ReturnAddressSaved

-----------------------------------------------------------------------------
(* Code that is not trapped: no deadline of it can be missed, and no RETT   *)
(* of it can be illegal.  A trap between the two halves of a double load    *)
(* leaves the flag to what the handler begins with, and one at an           *)
(* instruction that has acted makes it act again after the RETT             *)
(* (SquashedHasNoEffect), so what follows is about code without traps.      *)

NeverTraps ==
    \A i \in Program \union Handler : i.op # "rett" /\ (i.op = "dead" => ~i.branch)

\* What the halves of the double load at pc have done, by the pass it is in.
Halves ==
    IF stage \in {"fetch", "regacc"} \/ fetchStalled
    THEN IF dwordStalled THEN {"first"} ELSE {}
    ELSE {h \in {"first", "second"} : IF h = "first" THEN ~dword \/ stage = "except"
                                      ELSE ~dword /\ stage = "except"}

\* There is no trap.  The flag says that pc is at a double load, and so does that
\* of the pass; it is set by the first half alone.
OwnDword ==
    /\ trapped = 0
    /\ \A i \in Timers : dtStatus[i] = "UNSET"
    /\ dwordStalled => pc.inst.op = "ldd"
    /\ stage \in {"execute", "mem", "except"} /\ ~fetchStalled /\ dword => pc.inst.op = "ldd"
    /\ stage \in {"execute", "mem", "except"} /\ ~fetchStalled => ~dwordStalled

\* When the memory refuses no half of a double load, it is never stalled.
WholeDoubles ==
    pc.inst.op = "ldd" => done = Halves /\ ~memStalled /\ ~deadStalled

LEMMA DwordStep ==
    ASSUME ThreadConstants, NeverTraps, TypeOK, Passing, OwnDword, [Next]_vars
    PROVE  OwnDword'
<1> USE DEF TypeOK
<1>0. stage # "fetch" => inst = pc.inst
  BY DEF Passing, OwnDword
<1>1. CASE FetchSkipped \/ FetchInstruction
  <2>1. UNCHANGED <<trapped, dwordStalled, pc>> /\ stage' = "regacc" /\ DecrementTimers
    BY <1>1 DEF FetchSkipped, FetchInstruction, stalls, trap
  <2> QED BY <2>1 DEF DecrementTimers, OwnDword
<1>2. CASE RegAcc
  <2>1. CASE fetchStalled
    BY <1>2, <2>1 DEF RegAcc, OwnDword, history
  <2>2. CASE ~fetchStalled
    <3>1. inst.timer \in Timers /\ (inst.op = "dead" => ~inst.branch)
      BY Fields DEF NeverTraps
    <3>2. \A i \in Timers : dtStatus'[i] = "UNSET"
      BY <1>2, <2>2, <3>1 DEF RegAcc, DeadlineInstruction, OwnDword
    <3>3. trapped' = 0
      BY <1>2, <2>2, <3>2 DEF RegAcc, CheckDeadline, Missed, OwnDword
    <3>4. deadStalled' => inst.op # "ldd"
      BY <1>2, <2>2 DEF RegAcc, DeadlineInstruction, Passing
    <3>5. (dword' => inst.op = "ldd") /\ ~dwordStalled' /\ pc' = pc
      BY <1>0, <1>2, <2>2, <3>4 DEF RegAcc, DoubleWord, OwnDword
    <3> QED BY <1>0, <1>2, <3>2, <3>3, <3>5 DEF RegAcc, OwnDword
  <2> QED BY <2>1, <2>2
<1>3. CASE Execute
  BY <1>3 DEF Execute, stalls, trap, timers, OwnDword
<1>4. CASE Mem
  BY <1>4 DEF Mem, trap, timers, OwnDword
<1>5. CASE Stalled
  BY <1>5 DEF Stalled, SetDwordState, trap, timers, OwnDword
<1>6. CASE TrapFirstPass \/ TrapSecondPass
  BY <1>6 DEF TrapFirstPass, TrapSecondPass, OwnDword
<1>7. CASE CommitPass
  <2>1. inst.op # "rett"
    BY Fields DEF NeverTraps
  <2>2. trapped' = 0
    BY <1>7, <2>1 DEF CommitPass, AfterPass
  <2>3. dwordStalled' => pc.inst.op = "ldd" /\ pc' = pc
    BY <1>7 DEF CommitPass, Unstalled, SetDwordState, IncPc, OwnDword
  <2> QED BY <1>7, <2>2, <2>3 DEF CommitPass, Unstalled, OwnDword
<1>8. CASE PllTick
  BY <1>8 DEF PllTick, stalls, trap, timers, OwnDword
<1>9. CASE UNCHANGED vars
  BY <1>9 DEF vars, stalls, trap, timers, OwnDword
<1> QED BY <1>1, <1>2, <1>3, <1>4, <1>5, <1>6, <1>7, <1>8, <1>9 DEF Next, Visit

\* One half in every pass that the fetch does not stall.
LEMMA HalvesStep ==
    ASSUME ThreadConstants, NeverTraps, ~StallDoubles, TypeOK, Passing, OwnDword, Effects,
           WholeDoubles, [Next]_vars
    PROVE  WholeDoubles'
<1> USE DEF TypeOK
<1>0. stage # "fetch" => inst = pc.inst
  BY DEF Passing, OwnDword
<1>1. CASE FetchSkipped \/ FetchInstruction
  <2>1. /\ UNCHANGED <<pc, done, memStalled, deadStalled, dwordStalled>>
        /\ stage = "fetch" /\ stage' = "regacc"
    BY <1>1 DEF FetchSkipped, FetchInstruction, stalls, history
  <2> QED BY <2>1 DEF WholeDoubles, Halves
<1>2. CASE RegAcc
  <2>1. UNCHANGED <<pc, inst, done, memStalled, fetchStalled>> /\ stage = "regacc"
        /\ stage' = "execute"
    BY <1>2 DEF RegAcc, history
  <2>2. CASE fetchStalled
    BY <1>2, <2>1, <2>2 DEF RegAcc, WholeDoubles, Halves
  <2>3. ASSUME ~fetchStalled, pc.inst.op = "ldd"
        PROVE  done' = Halves' /\ ~deadStalled'
    <3>1. inst.op = "ldd" /\ ~deadStalled' /\ done = IF dwordStalled THEN {"first"} ELSE {}
      BY <1>0, <1>2, <2>1, <2>3 DEF RegAcc, DeadlineInstruction, WholeDoubles, Halves
    <3>2. dword' = ~dwordStalled
      BY <1>2, <2>3, <3>1 DEF RegAcc, DoubleWord
    <3> QED BY <2>1, <2>3, <3>1, <3>2 DEF Halves
  <2> QED BY <2>1, <2>2, <2>3 DEF WholeDoubles
<1>3. CASE Execute
  <2>1. /\ UNCHANGED <<pc, dword, fetchStalled, memStalled, deadStalled, dwordStalled>>
        /\ stage = "execute" /\ stage' = "mem"
    BY <1>3 DEF Execute, stalls
  <2>2. pc.inst.op = "ldd" => done' = done
    BY <1>0, <1>3 DEF Execute
  <2> QED BY <2>1, <2>2 DEF WholeDoubles, Halves
<1>4. CASE Mem
  <2>1. /\ UNCHANGED <<pc, inst, dword, fetchStalled, deadStalled, dwordStalled>>
        /\ stage = "mem" /\ stage' = "except"
    BY <1>4 DEF Mem
  <2>2. ASSUME fetchStalled, pc.inst.op = "ldd"
        PROVE  done' = Halves' /\ ~memStalled'
    <3>1. UNCHANGED <<done, memStalled>>
      BY <1>4, <2>2 DEF Mem
    <3> QED BY <2>1, <2>2, <3>1 DEF WholeDoubles, Halves
  <2>3. ASSUME ~fetchStalled, pc.inst.op = "ldd"
        PROVE  done' = Halves' /\ ~memStalled'
    <3>1. inst.op = "ldd" /\ Refusals = {FALSE} /\ Access = WhichHalf
      BY <1>0, <2>1, <2>3 DEF Refusals, Access, ThreadConstants
    <3>2. ~memStalled' /\ Changes(WhichHalf)
      BY <1>4, <2>3, <3>1 DEF Mem
    <3>3. CASE dword
      <4>1. done = {} /\ WhichHalf = "first"
        BY <2>1, <2>3, <3>3 DEF WholeDoubles, Halves, WhichHalf
      <4>2. done' = {"first"}
        BY <3>2, <4>1 DEF Changes
      <4>3. Halves' = {"first"}
        BY <2>1, <2>3, <3>3 DEF Halves
      <4> QED BY <3>2, <4>2, <4>3
    <3>4. CASE ~dword
      <4>1. done = {"first"} /\ WhichHalf = "second"
        BY <2>1, <2>3, <3>4 DEF WholeDoubles, Halves, WhichHalf
      <4>2. done' = {"first", "second"}
        BY <3>2, <4>1 DEF Changes
      <4>3. Halves' = {"first", "second"}
        BY <2>1, <2>3, <3>4 DEF Halves
      <4> QED BY <3>2, <4>2, <4>3
    <3> QED BY <3>3, <3>4
  <2> QED BY <2>1, <2>2, <2>3 DEF WholeDoubles
<1>5. CASE Stalled
  <2>1. /\ UNCHANGED <<pc, done, dword, fetchStalled, memStalled, deadStalled>>
        /\ stage = "except" /\ stage' = "fetch"
    BY <1>5 DEF Stalled, history
  <2>2. pc.inst.op = "ldd" => fetchStalled /\ dwordStalled' = dwordStalled
    BY <1>5 DEF Stalled, WholeDoubles
  <2> QED BY <2>1, <2>2 DEF WholeDoubles, Halves
<1>6. CASE TrapFirstPass \/ TrapSecondPass
  BY <1>6 DEF TrapFirstPass, TrapSecondPass, OwnDword
<1>7. CASE CommitPass
  <2>1. /\ stage = "except" /\ stage' = "fetch" /\ ~fetchStalled /\ ~dwordStalled
        /\ ~memStalled' /\ ~deadStalled' /\ dwordStalled' = dword
    BY <1>7 DEF CommitPass, Unstalled, SetDwordState, OwnDword
  <2>2. CASE dword
    <3>1. pc' = pc /\ done' = done /\ pc.inst.op = "ldd"
      BY <1>7, <2>1, <2>2 DEF CommitPass, IncPc, OwnDword
    <3>2. done = {"first"}
      BY <2>1, <2>2, <3>1 DEF WholeDoubles, Halves
    <3> QED BY <2>1, <2>2, <3>1, <3>2 DEF WholeDoubles, Halves
  <2>3. CASE ~dword
    <3>1. done' = {}
      BY <1>7, <2>1, <2>3 DEF CommitPass, IncPc
    <3> QED BY <2>1, <2>3, <3>1 DEF WholeDoubles, Halves
  <2> QED BY <2>2, <2>3
<1>8. CASE PllTick
  BY <1>8 DEF PllTick, stalls, history, WholeDoubles, Halves
<1>9. CASE UNCHANGED vars
  BY <1>9 DEF vars, stalls, history, WholeDoubles, Halves
<1> QED BY <1>1, <1>2, <1>3, <1>4, <1>5, <1>6, <1>7, <1>8, <1>9 DEF Next, Visit

\* _double_word_instruction and set_dword_state: without traps, the pass that
\* the flag makes a second half is one of the double load that has set it.
THEOREM SecondHalvesAreOwn ==
    ASSUME ThreadConstants, NeverTraps
    PROVE  Spec => DwordFlagIsOwn
<1> DEFINE DwordInv == IInv /\ OwnDword
<1>1. Init => DwordInv
  BY InitIInv DEF Init, OwnDword
<1>2. DwordInv /\ [Next]_vars => DwordInv'
  BY StepIInv, DwordStep DEF IInv
<1>3. ASSUME DwordInv, DwordInv', [Next]_vars, dwordStalled', stage' = "regacc", ~fetchStalled'
      PROVE  inst'.op = "ldd"
  BY <1>3 DEF IInv, Passing, OwnDword
<1> HIDE DEF DwordInv
<1> QED BY <1>1, <1>2, <1>3, PTL DEF Spec, DwordFlagIsOwn

\* mem, except and the fetch that makes a stalled pass start over: with no trap
\* between, a load, a store or a MULSCC has been done once when it commits,
\* whatever has been stalled, and a double load once in each of its halves.
THEOREM EffectsAreOnce ==
    ASSUME ThreadConstants, NeverTraps, ~StallDoubles
    PROVE  Spec => EffectOnce /\ DoubleIsWhole
<1> DEFINE WholeInv == IInv /\ OwnDword /\ WholeDoubles
<1>1. Init => WholeInv
  BY InitIInv DEF Init, OwnDword, WholeDoubles, Halves
<1>2. WholeInv /\ [Next]_vars => WholeInv'
  BY StepIInv, DwordStep, HalvesStep DEF IInv
<1>3. ASSUME WholeInv, Committed
      PROVE  /\ inst.op \in {"load", "store"} => done = {inst.op}
             /\ inst.op = "mulscc" => done = {"step"}
             /\ inst.op = "ldd" => done = {"first", "second"}
  <2>1. CommitPass /\ stage = "except" /\ ~dwordStalled'
    BY <1>3 DEF Committed
  <2>2. trapped = 0 /\ ~fetchStalled /\ ~memStalled /\ inst = pc.inst
    BY <1>3, <2>1, CommitsUntrapped DEF IInv, Ready, Passing, OwnDword
  <2>3. inst.op # "ldd" => done = Accessed
    BY <1>3, <2>1, <2>2 DEF IInv, Effects
  <2>4. inst.op = "ldd" => done = {"first", "second"}
    <3>1. ~dword
      BY <2>1 DEF CommitPass, Unstalled, SetDwordState
    <3> QED BY <1>3, <2>1, <2>2, <3>1 DEF WholeDoubles, Halves
  <2> QED BY <2>2, <2>3, <2>4 DEF Accessed, Stepped
<1> HIDE DEF WholeInv
<1> QED BY <1>1, <1>2, <1>3, PTL DEF Spec, EffectOnce, DoubleIsWhole

\* Together: stalls are safe for code in which no deadline traps and in which
\* the memory refuses no half of a double load.
THEOREM StallsAreHarmless ==
    ASSUME ThreadConstants, NeverTraps, ~StallDoubles
    PROVE  Spec => StallsAreSafe
BY SecondHalvesAreOwn, EffectsAreOnce, DeadsWait DEF StallsAreSafe

\* And traps are exact, for code that stays in its window.
THEOREM TrapsInTheirWindows ==
    ASSUME ThreadConstants, StaysInWindow
    PROVE  Spec => TrapsAreExact
BY ProgramIsHome, AddressesAreSaved, TrapsAreForMissed DEF TrapsAreExact
=============================================================================
