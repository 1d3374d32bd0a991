----------------------------- MODULE SparcControl -----------------------------
(***************************************************************************)
(* What a SPARC program sees of the flow of control, with no pipeline and  *)
(* no passes: the program counter pc, the next program counter npc, the    *)
(* return address of the last call, and the interrupted contexts that the  *)
(* windows of the trap handlers hold.                                      *)
(***************************************************************************)
EXTENDS Integers

CONSTANTS Addresses,    \* the word addresses of the code
          Disps,        \* the displacements of branches and calls
          TrapAddress,  \* where the handlers begin
          MaxDepth,     \* the handlers that may run inside one another
          NoContext     \* a window without an interrupted context

VARIABLES pc, npc, link,
          depth,        \* the handlers that are running
          context       \* the interrupted [pc, npc] of each of them

controlVars == <<pc, npc, link, depth, context>>

ControlInit ==
    /\ pc \in Addresses
    /\ npc = pc + 1
    /\ link = 0
    /\ depth = 0
    /\ context = [d \in 1 .. MaxDepth |-> NoContext]

\* The instruction in the delay slot comes next, and `target' after it.
GoTo(target) == pc' = npc /\ npc' = target

Sequential == GoTo(npc + 1) /\ UNCHANGED <<link, depth, context>>

\* A branch to pc + disp that is taken, or not; an annulled delay slot is
\* skipped if the branch is not taken or unconditional.
TakeBranch(disp) == GoTo(pc + disp) /\ UNCHANGED <<link, depth, context>>
BranchAlwaysAnnul(disp) ==
    pc' = pc + disp /\ npc' = pc + disp + 1 /\ UNCHANGED <<link, depth, context>>
SkipSlot == pc' = npc + 1 /\ npc' = npc + 2 /\ UNCHANGED <<link, depth, context>>

CallTo(target) == GoTo(target) /\ link' = pc /\ UNCHANGED <<depth, context>>

\* The instruction at pc is not executed; a handler runs in a new window.
Trap ==
    /\ depth < MaxDepth
    /\ depth' = depth + 1
    /\ context' = [context EXCEPT ![depth + 1] = [pc |-> pc, npc |-> npc]]
    /\ pc' = TrapAddress
    /\ npc' = TrapAddress + 1
    /\ UNCHANGED link

\* The second instruction of the pair JMPL, RETT that ends a handler: the pair
\* leads to the pc and npc of the interrupted context.
ReturnFromTrap ==
    /\ depth > 0
    /\ GoTo(context[depth].npc)
    /\ depth' = depth - 1
    /\ context' = [context EXCEPT ![depth] = NoContext]
    /\ UNCHANGED link

ControlNext ==
    \/ Sequential
    \/ \E disp \in Disps : TakeBranch(disp) \/ BranchAlwaysAnnul(disp) \/ CallTo(pc + disp)
    \/ SkipSlot
    \/ \E target \in Addresses : CallTo(target)
    \/ Trap
    \/ ReturnFromTrap

ControlSpec == ControlInit /\ [][ControlNext]_controlVars
=============================================================================
