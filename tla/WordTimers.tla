----------------------------- MODULE WordTimers -----------------------------
(***************************************************************************)
(* The deadline timers as special_reg keeps them: words that are counted   *)
(* down in every pass, below zero too and without end.  As long as the     *)
(* program sets a timer again before it has gone round they are the timers *)
(* of DeadlineTimers; after that they are not.                             *)
(*                                                                         *)
(* HwThread has the pipeline around them and takes them to stop at zero.   *)
(***************************************************************************)
EXTENDS Integers

CONSTANTS
    Timers,         \* 0 .. NUM_DEADLINE_TIMERS - 1, or some of them
    Half,           \* 2^31: words are -Half .. Half - 1
    Renewed         \* does the program set every timer again in time?

ASSUME WordConstants ==
    /\ Timers \subseteq Nat
    /\ Half \in Nat /\ Half > 1
    /\ Renewed \in BOOLEAN

Word == -Half .. Half - 1
Unsigned == 0 .. 2 * Half - 1
NoTimer == -1

VARIABLES
    dt, dtStatus,   \* special_reg::_dt and _dt_status
    timer, value    \* the DEAD between regacc and except: its rd and alu_result

wordVars == <<dt, dtStatus, timer, value>>

\* The uint32_t of a register as the int32_t of set_dt.
Signed(v) == IF v < Half THEN v ELSE v - 2 * Half

\* One less than a word; from the least word the overflow wraps.
LessOne(x) == IF x = -Half THEN Half - 1 ELSE x - 1

\* Mutant: looks at the timers before they are decremented.
DecrementLate ==
    /\ timer = NoTimer
    /\ \A i \in Timers : Renewed => dt[i] > 1 - Half
    /\ dt' = [i \in Timers |-> LessOne(dt[i])]
    /\ dtStatus' = [i \in Timers |->
           IF dt[i] <= 0 /\ dtStatus[i] = "SET" THEN "MISSED" ELSE dtStatus[i]]
    /\ UNCHANGED <<timer, value>>

\* decrement_deadline_timers, in fetch.  The compiler may take the test
\* "_dt - 1 < 0" for "_dt <= 0", which is something else for the least word only.
Decrement ==
    /\ timer = NoTimer
    /\ \A i \in Timers : Renewed => dt[i] > 1 - Half
    /\ dt' = [i \in Timers |-> LessOne(dt[i])]
    /\ \E folded \in BOOLEAN :
          dtStatus' = [i \in Timers |->
              IF dtStatus[i] = "SET" /\ (LessOne(dt'[i]) < 0 \/ (folded /\ dt'[i] = -Half))
              THEN "MISSED" ELSE dtStatus[i]]
    /\ UNCHANGED <<timer, value>>

\* Mutant: a deadload keeps the status as it is.
DeadKeepsStatus(i, v, deadload, deadbranch) ==
    /\ timer = NoTimer
    /\ dt[i] <= 0 \/ deadload
    /\ dtStatus' = IF deadload THEN dtStatus
                   ELSE [dtStatus EXCEPT ![i] = IF deadbranch THEN "SET" ELSE "UNSET"]
    /\ timer' = i /\ value' = v
    /\ UNCHANGED dt

\* _destination_regular_deadlines, of a DEAD that is not stalled.
Dead(i, v, deadload, deadbranch) ==
    /\ timer = NoTimer
    /\ dt[i] <= 0 \/ deadload
    /\ dtStatus' = [dtStatus EXCEPT ![i] = IF deadbranch THEN "SET" ELSE "UNSET"]
    /\ timer' = i /\ value' = v
    /\ UNCHANGED dt

\* write_special_regs of SREG_DT.
SetDt ==
    /\ timer # NoTimer
    /\ dt' = [dt EXCEPT ![timer] = Signed(value)]
    /\ timer' = NoTimer /\ value' = 0
    /\ UNCHANGED dtStatus

\* handle_exceptions returns before: the DEAD has its status, but no value.
Squashed ==
    /\ timer # NoTimer
    /\ timer' = NoTimer /\ value' = 0
    /\ UNCHANGED <<dt, dtStatus>>

\* The second pass of the trap for the timer.
Trapped(i) ==
    /\ timer = NoTimer /\ dtStatus[i] = "MISSED"
    /\ dtStatus' = [dtStatus EXCEPT ![i] = "UNSET"]
    /\ UNCHANGED <<dt, timer, value>>

WordInit ==
    /\ dt = [i \in Timers |-> 0]
    /\ dtStatus = [i \in Timers |-> "UNSET"]
    /\ timer = NoTimer /\ value = 0

WordNext ==
    \/ Decrement \/ SetDt \/ Squashed
    \/ \E i \in Timers, v \in Unsigned, deadload \in BOOLEAN, deadbranch \in BOOLEAN :
           Dead(i, v, deadload, deadbranch)
    \/ \E i \in Timers : Trapped(i)

WordSpec == WordInit /\ [][WordNext]_wordVars

-----------------------------------------------------------------------------
(* Properties                                                              *)

\* Every variable in its range: no timer leaves the width of a word.
WordTypeOK ==
    /\ dt \in [Timers -> Word]
    /\ dtStatus \in [Timers -> {"UNSET", "SET", "MISSED"}]
    /\ timer \in Timers \union {NoTimer}
    /\ value \in Unsigned

\* A deadline is missed only as long as its timer has run out: whoever sets the
\* timer again has taken the miss back before.
MissedHasRunOut == \A i \in Timers : dtStatus[i] = "MISSED" => dt[i] <= 0

\* What a word counts for: negative ones have run out.
Left(x) == IF x > 0 THEN x ELSE 0

\* The words behave like timers that stop at zero.
StopAtZero ==
    INSTANCE DeadlineTimers WITH
        Largest <- Half - 1,
        left <- [i \in Timers |-> Left(dt[i])],
        status <- dtStatus,
        value <- Left(Signed(value))
ImplementsTimers == StopAtZero!TimersSpec

=============================================================================
