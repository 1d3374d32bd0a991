--------------------------- MODULE DeadlineTimers ---------------------------
(***************************************************************************)
(* What the deadline timers of a thread promise: each counts down to zero, *)
(* stays there until it is set again, and is MISSED when it gets there     *)
(* while somebody wants to be told.                                        *)
(***************************************************************************)
EXTENDS Integers

CONSTANTS
    Timers,         \* the timers of a thread
    Largest         \* the largest value of a timer

NoTimer == -1

VARIABLES
    left,           \* the passes that are left of every timer
    status,         \* "UNSET", "SET" or "MISSED"
    timer, value    \* the DEAD instruction on its way to commit, if any

timerVars == <<left, status, timer, value>>

TimersInit ==
    /\ left = [i \in Timers |-> 0]
    /\ status = [i \in Timers |-> "UNSET"]
    /\ timer = NoTimer /\ value = 0

\* A pass of the thread begins: every timer counts.
Count ==
    /\ timer = NoTimer
    /\ left' = [i \in Timers |-> IF left[i] > 0 THEN left[i] - 1 ELSE 0]
    /\ status' = [i \in Timers |->
           IF left'[i] = 0 /\ status[i] = "SET" THEN "MISSED" ELSE status[i]]
    /\ UNCHANGED <<timer, value>>

\* A DEAD passes a timer that has run out; a deadload passes any.
Pass(i, v, load, told) ==
    /\ timer = NoTimer
    /\ left[i] = 0 \/ load
    /\ status' = [status EXCEPT ![i] = IF told THEN "SET" ELSE "UNSET"]
    /\ timer' = i /\ value' = v
    /\ UNCHANGED left

\* It commits, and the timer starts again.
Start ==
    /\ timer # NoTimer
    /\ left' = [left EXCEPT ![timer] = value]
    /\ timer' = NoTimer /\ value' = 0
    /\ UNCHANGED status

\* A trap squashes it.
Squash ==
    /\ timer # NoTimer
    /\ timer' = NoTimer /\ value' = 0
    /\ UNCHANGED <<left, status>>

\* The handler for a missed deadline is entered.
Serve(i) ==
    /\ timer = NoTimer /\ status[i] = "MISSED"
    /\ status' = [status EXCEPT ![i] = "UNSET"]
    /\ UNCHANGED <<left, timer, value>>

TimersNext ==
    \/ Count \/ Start \/ Squash
    \/ \E i \in Timers, v \in 0 .. Largest, load \in BOOLEAN, told \in BOOLEAN :
           Pass(i, v, load, told)
    \/ \E i \in Timers : Serve(i)

TimersSpec == TimersInit /\ [][TimersNext]_timerVars
=============================================================================
