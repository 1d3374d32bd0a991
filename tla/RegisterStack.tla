---------------------------- MODULE RegisterStack ----------------------------
(***************************************************************************)
(* What register windows promise a program: the globals, and a stack of    *)
(* frames.  A frame has locals of its own, and shares its ins with the     *)
(* outs of the frame below it, its caller's.  No frame changes another's   *)
(* registers but for those they share.                                     *)
(***************************************************************************)
EXTENDS Integers, Sequences

CONSTANTS
    Group,          \* how many globals, outs, locals and ins there are
    Value,          \* what a register holds
    MaxFrames,      \* the frames that the program may have at once
    Named,          \* the registers that instructions name
    HandlerSaves    \* the locals in which a trap handler finds pc and npc

VARIABLES
    globals,
    shared,         \* shared[k]: the ins of frame k, shared[k + 1]: its outs
    locals          \* locals[k]: those of frame k

stackVars == <<globals, shared, locals>>

Contents == [0 .. Group - 1 -> Value]
Kind(r) == r \div Group             \* of globals, outs, locals, ins
Top == Len(locals)

Content(r) ==
    LET g == r % Group IN
    CASE Kind(r) = 0 -> globals[g]
      [] Kind(r) = 1 -> shared[Top + 1][g]
      [] Kind(r) = 2 -> locals[Top][g]
      [] OTHER -> shared[Top][g]

\* Register r of frame k becomes v, in the stack s of shared groups and l of
\* locals; the first global stays as it is.
Becomes(r, v, k, s, l) ==
    LET g == r % Group IN
    /\ globals' = IF Kind(r) = 0 /\ g # 0 THEN [globals EXCEPT ![g] = v] ELSE globals
    /\ shared' = CASE Kind(r) = 1 -> [s EXCEPT ![k + 1][g] = v]
                   [] Kind(r) = 3 -> [s EXCEPT ![k][g] = v]
                   [] OTHER -> s
    /\ locals' = IF Kind(r) = 2 THEN [l EXCEPT ![k][g] = v] ELSE l

StackInit ==
    /\ globals \in Contents
    /\ shared \in {<<i, o>> : i \in Contents, o \in Contents}
    /\ locals \in {<<l>> : l \in Contents}

Compute(from, to) == Becomes(to, Content(from), Top, shared, locals)
Constant(v, to) == Becomes(to, v, Top, shared, locals)

\* A frame is pushed, with anything in its locals and outs.
Push(from, to) ==
    /\ Top < MaxFrames
    /\ Len(locals') = Top + 1
    /\ \E l \in Contents, o \in Contents :
           Becomes(to, Content(from), Top + 1, Append(shared, o), Append(locals, l))

\* The top frame is popped, for the one below it.
Pop(from, to) ==
    /\ Top > 1
    /\ Becomes(to, Content(from), Top - 1,
               SubSeq(shared, 1, Top), SubSeq(locals, 1, Top - 1))

\* A handler runs in a frame of its own.
Interrupt(pc, npc) ==
    /\ Top < MaxFrames
    /\ Len(locals') = Top + 1
    /\ \E l \in Contents, o \in Contents :
           /\ l[HandlerSaves[1]] = pc /\ l[HandlerSaves[2]] = npc
           /\ shared' = Append(shared, o)
           /\ locals' = Append(locals, l)
    /\ UNCHANGED globals

Return ==
    /\ Top > 1
    /\ shared' = SubSeq(shared, 1, Top)
    /\ locals' = SubSeq(locals, 1, Top - 1)
    /\ UNCHANGED globals

StackNext ==
    \/ \E from, to \in Named : Compute(from, to) \/ Push(from, to) \/ Pop(from, to)
    \/ \E v \in Value, to \in Named : Constant(v, to)
    \/ \E pc, npc \in Value : Interrupt(pc, npc)
    \/ Return

StackSpec == StackInit /\ [][StackNext]_stackVars
=============================================================================
