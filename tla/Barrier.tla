------------------------------- MODULE Barrier -------------------------------
(***************************************************************************)
(* What the SYNC instruction promises to a program, without the table that *)
(* implements it: a reusable barrier for every set of threads named by a   *)
(* mask.  A thread leaves its n-th SYNC on a mask only when every thread   *)
(* of the mask has arrived at its own n-th SYNC on that mask.              *)
(***************************************************************************)
EXTENDS Integers

CONSTANTS Threads,  \* the hardware threads
          Masks     \* the masks SYNC instructions name, as sets of threads

VARIABLES arrived,  \* arrived[t][m]: SYNCs on m that t has started
          left      \* left[t][m]: SYNCs on m that t has completed

barrierVars == <<arrived, left>>

Inside(t, m) == left[t][m] < arrived[t][m]

BarrierInit ==
    /\ arrived = [t \in Threads |-> [m \in Masks |-> 0]]
    /\ left = [t \in Threads |-> [m \in Masks |-> 0]]

Arrive(t, m) ==
    /\ t \in m
    /\ arrived[t][m] = left[t][m]
    /\ arrived' = [arrived EXCEPT ![t][m] = @ + 1]
    /\ UNCHANGED left

Leave(t, m) ==
    /\ Inside(t, m)
    /\ \A u \in m : left[t][m] < arrived[u][m]
    /\ left' = [left EXCEPT ![t][m] = @ + 1]
    /\ UNCHANGED arrived

BarrierNext == \E t \in Threads, m \in Masks : Arrive(t, m) \/ Leave(t, m)

BarrierSpec == BarrierInit /\ [][BarrierNext]_barrierVars
=============================================================================
