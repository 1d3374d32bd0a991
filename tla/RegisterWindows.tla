--------------------------- MODULE RegisterWindows ---------------------------
(***************************************************************************)
(* The register file of a hardware thread: get_reg and set_reg, the window *)
(* pointer that regacc moves between reading and writing, that a trap      *)
(* moves on its own, and that nothing keeps from going round: WIM is never *)
(* looked at.                                                              *)
(*                                                                         *)
(* A step is the pass of an instruction, or the two passes of a trap.      *)
(***************************************************************************)
EXTENDS Integers

CONSTANTS
    FileWindows,    \* REGISTER_WINDOWS
    Group,          \* 8: the registers of a kind
    Value,          \* what a register holds
    SavesPc,        \* r17, the register of a handler that gets the pc
    SavesNpc,       \* r18, for the npc
    MaxFrames,      \* bound: the program's calls and handlers at any time
    Named,          \* bound: the registers that instructions name
    Fresh           \* bound: what memory that no one has written holds

Registers == 0 .. 4 * Group - 1
Cells == 0 .. 2 * Group * FileWindows - 1

ASSUME WindowConstants ==
    /\ FileWindows \in Nat /\ Group \in Nat
    /\ MaxFrames \in 1 .. FileWindows - 1
    /\ SavesPc \in 2 * Group .. 3 * Group - 1
    /\ SavesNpc \in 2 * Group .. 3 * Group - 1
    /\ SavesPc # SavesNpc
    /\ Named \subseteq Registers
    /\ Fresh \subseteq Value /\ 0 \in Value

VARIABLES
    global,         \* _global_reg
    window,         \* _window_reg
    wp,             \* special_reg::_curr_wp
    frames          \* history: the program's calls and handlers

fileVars == <<global, window, wp, frames>>

\* Where get_reg and set_reg find a register of window w that is no global.
Cell(r, w) == (w * 2 * Group + r - Group) % (2 * Group * FileWindows)

GetReg(r, w) == IF r < Group THEN global[r] ELSE window[Cell(r, w)]

\* decode lets no instruction write register 0.
SetReg(r, v, w) ==
    /\ global' = IF r \in 1 .. Group - 1 THEN [global EXCEPT ![r] = v] ELSE global
    /\ window' = IF r >= Group THEN [window EXCEPT ![Cell(r, w)] = v] ELSE window

-----------------------------------------------------------------------------
(* Instructions                                                            *)

\* Mutant: the window moves before the operands are read.
PassMovedFirst(from, to, move) ==
    LET w == (wp + move) % FileWindows IN
    /\ wp' = w
    /\ SetReg(to, GetReg(from, w), w)

\* regacc reads the operands and moves the window, except writes the result.
Pass(from, to, move) ==
    LET w == (wp + move) % FileWindows IN
    /\ wp' = w
    /\ SetReg(to, GetReg(from, wp), w)

Copy(from, to) == Pass(from, to, 0) /\ UNCHANGED frames

\* A result that comes from elsewhere: a constant, or memory.
Load(v, to) ==
    /\ SetReg(to, v, wp)
    /\ UNCHANGED <<wp, frames>>

Save(from, to) ==
    /\ frames < MaxFrames
    /\ Pass(from, to, -1)
    /\ frames' = frames + 1

Restore(from, to) ==
    /\ frames > 1
    /\ Pass(from, to, 1)
    /\ frames' = frames - 1

\* handle_exceptions: the window moves, and pc and npc are written there.
Trap(pc, npc) ==
    /\ frames < MaxFrames
    /\ wp' = (wp - 1) % FileWindows
    /\ window' = [window EXCEPT ![Cell(SavesPc, wp')] = pc, ![Cell(SavesNpc, wp')] = npc]
    /\ frames' = frames + 1
    /\ UNCHANGED global

\* RETT moves the window as RESTORE does, and writes nothing.
TrapReturn ==
    /\ frames > 1
    /\ wp' = (wp + 1) % FileWindows
    /\ frames' = frames - 1
    /\ UNCHANGED <<global, window>>

\* The constructors set the globals and leave the windows as they are.
FileInit ==
    /\ global = [r \in 0 .. Group - 1 |-> 0]
    /\ window \in [Cells -> Fresh]
    /\ wp = 0
    /\ frames = 1

FileNext ==
    \/ \E from, to \in Named : Copy(from, to) \/ Save(from, to) \/ Restore(from, to)
    \/ \E v \in Value, to \in Named : Load(v, to)
    \/ \E pc, npc \in Value : Trap(pc, npc)
    \/ TrapReturn

FileSpec == FileInit /\ [][FileNext]_fileVars

-----------------------------------------------------------------------------
(* Properties                                                              *)

FileTypeOK ==
    /\ global \in [0 .. Group - 1 -> Value]
    /\ window \in [Cells -> Value]
    /\ wp \in 0 .. FileWindows - 1
    /\ frames \in 1 .. MaxFrames

\* The window of the program's frame k, and a group of registers of it.
WindowOf(k) == (1 - k) % FileWindows
GroupOf(kind, w) == [g \in 0 .. Group - 1 |-> window[Cell(kind * Group + g, w)]]

\* The groups that frames share with the next, and those of their own.
StackShared == [k \in 1 .. frames + 1 |->
                   IF k = 1 THEN GroupOf(3, 0) ELSE GroupOf(1, WindowOf(k - 1))]
StackLocals == [k \in 1 .. frames |-> GroupOf(2, WindowOf(k))]

\* With frames for all windows but one, the program has a stack of frames: no
\* handler and no callee changes what its callers will look for.
Stack == INSTANCE RegisterStack WITH
    HandlerSaves <- <<SavesPc - 2 * Group, SavesNpc - 2 * Group>>,
    globals <- global, shared <- StackShared, locals <- StackLocals
ImplementsStack == Stack!StackSpec

=============================================================================
