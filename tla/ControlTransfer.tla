--------------------------- MODULE ControlTransfer ---------------------------
(***************************************************************************)
(* The program counter of a hardware thread and its delayed branch         *)
(* address: except::inc_pc with branch_check and addr_calc, the two passes *)
(* of handle_exceptions, and the return from a trap.                       *)
(*                                                                         *)
(* A step is an unstalled pass through the exception stage that changes    *)
(* one of them.  Addresses count words, so what the code calls + 4 is + 1. *)
(* Nothing is assumed of the code but what compilers guarantee: that the   *)
(* only control transfer in a delay slot is the RETT that ends a handler.  *)
(***************************************************************************)
EXTENDS Integers

CONSTANTS
    MaxPc,          \* bound: the code is at the addresses 1 .. MaxPc
    Disps,          \* disp22 and disp30 of the branches and calls
    TrapAddress,    \* the table of trap handlers, TBR and trap type
    Windows         \* REGISTER_WINDOWS, of which all but one can be handlers'

Addresses == 1 .. MaxPc

ASSUME ControlConstants ==
    /\ MaxPc \in Nat
    /\ Disps \subseteq Int
    /\ TrapAddress \in Addresses
    /\ Windows \in Nat \ {0}

\* get_delayed_branch_address when no delayed branch is pending.
None == 0

VARIABLES
    pc,             \* hw_thread::get_pc
    delayed,        \* get_delayed_branch_address
    link,           \* the alu_result that a call or jump writes to its register
    trapped,        \* get_trapped_state: 0 normal, 2 between the trap passes
    et,             \* the ET bit of the PSR
    cwp,            \* the current window; the program is in the highest one
    r17, r18        \* the registers r17 and r18 of every window

regs == <<cwp, r17, r18>>
vars == <<pc, delayed, link, trapped, et, regs>>

-----------------------------------------------------------------------------
(* inc_pc                                                                  *)

\* Where pc goes before branches and jumps are looked at: through the pending
\* delayed branch, which is then none, or on.
Advanced == IF delayed # None THEN delayed ELSE pc + 1

\* The instruction after the one at pc, seen by the program.
Npc == Advanced

\* The pass ends the instruction at pc, a trap is not under way.
Commits == trapped = 0

Plain ==
    /\ Commits
    /\ pc' = Advanced
    /\ delayed' = None
    /\ UNCHANGED <<link, trapped, et, regs>>

\* No control transfer in the delay slot of another.
NotInSlot == Npc = pc + 1

\* get_pc() + addr_calc() - 4, after pc has been moved.
Near(disp) == Advanced + disp - 1

\* branch_check is true, and the branch is not a BA with the annul bit.  There
\* is no code at the address that the delayed branch takes for none.
Branch(disp) ==
    /\ Commits /\ NotInSlot
    /\ pc' = Advanced
    /\ delayed' = Near(disp) /\ delayed' # None
    /\ UNCHANGED <<link, trapped, et, regs>>

BranchAlwaysAnnul(disp) ==
    /\ Commits /\ NotInSlot
    /\ pc' = Near(disp)
    /\ delayed' = None
    /\ UNCHANGED <<link, trapped, et, regs>>

\* branch_check is false, and the annul bit is set.
UntakenAnnul ==
    /\ Commits /\ NotInSlot
    /\ pc' = Advanced + 1
    /\ delayed' = None
    /\ UNCHANGED <<link, trapped, et, regs>>

Call(disp) ==
    /\ Commits /\ NotInSlot
    /\ pc' = Advanced
    /\ delayed' = Near(disp) /\ delayed' # None
    /\ link' = pc' - 1
    /\ UNCHANGED <<trapped, et, regs>>

\* A JMPL, to the register r17 of a handler's window or to any other.
Jump(target) ==
    /\ Commits /\ NotInSlot
    /\ pc' = Advanced
    /\ delayed' = target
    /\ link' = pc' - 1
    /\ UNCHANGED <<trapped, et, regs>>

-----------------------------------------------------------------------------
(* handle_exceptions and return_from_trap                                  *)

\* Mutant: the window is that of the interrupted code.
SavePcInPlace ==
    /\ trapped = 0 /\ et
    /\ cwp > 0
    /\ cwp' = cwp - 1
    /\ r17' = [r17 EXCEPT ![cwp] = pc]
    /\ trapped' = 2
    /\ UNCHANGED <<pc, delayed, link, et, r18>>

\* First pass: a new window, and pc in its r17.  The bound is on the handlers
\* that run inside one another.
SavePc ==
    /\ trapped = 0 /\ et
    /\ cwp > 0
    /\ cwp' = cwp - 1
    /\ r17' = [r17 EXCEPT ![cwp'] = pc]
    /\ trapped' = 2
    /\ UNCHANGED <<pc, delayed, link, et, r18>>

\* Mutant: the pending delayed branch is forgotten.
EnterWithoutDelayed ==
    /\ trapped = 2
    /\ r18' = [r18 EXCEPT ![cwp] = pc + 1]
    /\ pc' = TrapAddress
    /\ delayed' = None
    /\ trapped' = 0
    /\ UNCHANGED <<link, et, cwp, r17>>

\* Second pass: the address after it in r18, and off to the handler.
EnterHandler ==
    /\ trapped = 2
    /\ r18' = [r18 EXCEPT ![cwp] = IF delayed # None THEN delayed ELSE pc + 1]
    /\ pc' = TrapAddress
    /\ delayed' = None
    /\ trapped' = 0
    /\ UNCHANGED <<link, et, cwp, r17>>

\* A handler disables traps with a WRPSR before it returns.
DisableTraps ==
    /\ Commits
    /\ cwp < Windows - 1
    /\ et' = FALSE
    /\ pc' = Advanced
    /\ delayed' = None
    /\ UNCHANGED <<link, trapped, regs>>

\* RETT to the r18 of the handler's window, with traps disabled as it has to
\* be; return_from_trap enables them.
Rett ==
    /\ Commits
    /\ ~et
    /\ cwp < Windows - 1
    /\ pc' = Advanced
    /\ delayed' = r18[cwp]
    /\ cwp' = cwp + 1
    /\ et' = TRUE
    /\ UNCHANGED <<link, trapped, r17, r18>>

-----------------------------------------------------------------------------

Init ==
    /\ pc \in Addresses
    /\ delayed = None
    /\ link = 0
    /\ trapped = 0
    /\ et = TRUE
    /\ cwp = Windows - 1
    /\ r17 = [w \in 0 .. Windows - 1 |-> 0]
    /\ r18 = [w \in 0 .. Windows - 1 |-> 0]

Step ==
    \/ Plain
    \/ \E disp \in Disps : Branch(disp) \/ BranchAlwaysAnnul(disp) \/ Call(disp)
    \/ UntakenAnnul
    \/ \E target \in Addresses : Jump(target)
    \/ SavePc \/ EnterHandler
    \/ DisableTraps \/ Rett

\* The code is within its bounds.
InBounds == pc' \in Addresses /\ delayed' \in Addresses \union {None}

Next == Step /\ InBounds

Spec == Init /\ [][Next]_vars
-----------------------------------------------------------------------------
(* Properties                                                              *)

TypeOK ==
    /\ pc \in Addresses
    /\ delayed \in Addresses \union {None}
    /\ link \in 0 .. MaxPc
    /\ trapped \in {0, 2}
    /\ et \in BOOLEAN
    /\ cwp \in 0 .. Windows - 1
    /\ r17 \in [0 .. Windows - 1 -> 0 .. MaxPc]
    /\ r18 \in [0 .. Windows - 1 -> 0 .. MaxPc + 1]

\* Between the two passes of a trap there are a window that holds the pc of the
\* interrupted instruction, and traps that are enabled.
BetweenPasses == trapped = 2 => cwp < Windows - 1 /\ r17[cwp] = pc

\* A handler that runs knows where to return to: the address that its RETT goes
\* to is one, and not what the delayed branch takes for none.
HandlersCanReturn ==
    \A w \in cwp .. Windows - 2 : r18[w] # None \/ (trapped = 2 /\ w = cwp)

\* The handlers that the program sees running: a trap takes effect with its
\* second pass.
Depth == Windows - 1 - cwp - (IF trapped = 2 THEN 1 ELSE 0)

NoContext == [pc |-> 0, npc |-> 0]

\* The program sees a SPARC: its delay slots, calls and returns, and traps that
\* interrupt it at any instruction, one in a delay slot too.  FIXMEs in
\* handle_exceptions ask for both cases: "Need to check this case..." and "There
\* might be a bug if there is a timeout on branch...".
Sparc == INSTANCE SparcControl WITH
    npc <- Npc,
    MaxDepth <- Windows - 1,
    depth <- Depth,
    context <- [d \in 1 .. Windows - 1 |->
                   IF d <= Depth
                   THEN [pc |-> r17[Windows - 1 - d], npc |-> r18[Windows - 1 - d]]
                   ELSE NoContext]
ImplementsSparc == Sparc!ControlSpec
=============================================================================
