------------------------------ MODULE Pipeline ------------------------------
(***************************************************************************)
(* One core in the build without SystemC: core::run and                    *)
(* run_for_instruction with their clock, core::behavior, which calls the   *)
(* stages from the last to the first, the registers between the stages,    *)
(* the thread controller that feeds them, and the instruction that ends    *)
(* the simulation by an exception thrown in the middle of a cycle.         *)
(*                                                                         *)
(* What a stage does to its thread is the matter of other modules; here it *)
(* leaves its number in the thread's phase.                                *)
(***************************************************************************)
EXTENDS Integers

CONSTANTS
    N,          \* NUM_THREADS: threads, stages, and registers that feed them
    Wrap,       \* the values of _tcount and of the cycle counter
    Period,     \* of _clock, in ticks
    Calls,      \* bound: the ticks that a call of run asks for
    Steps,      \* bound: the instructions asked of run_for_instruction
    Again,      \* the debugger calls again after the end of the simulation
    Nobody      \* a register that no thread has reached yet

ASSUME PipelineConstants ==
    /\ N \in Nat /\ N >= 2
    /\ Wrap \in Nat \ {0}
    /\ Period \in Nat \ {0}
    /\ Calls \subseteq Nat
    /\ Steps \subseteq Nat
    /\ Again \in BOOLEAN
    /\ Nobody \notin Nat

Threads == 0 .. N - 1
Stages == 1 .. N            \* fetch, decode, regacc, execute, mem, except

VARIABLES
    line,       \* the register that feeds each stage: _pool_to_f .. _mem_to_except
    tcount,     \* _tcount; _cycles is incremented with it
    count,      \* pret_clock::_count
    left,       \* the ticks that the current call has left, 0 outside of calls
    result,     \* what the last call returned
    ended,      \* the threads that have fetched the end of the simulation
    phase,      \* history: the last stage that worked on a thread, 0 at the end
    wrapped,    \* history: has _tcount come round to zero again?
    mode,       \* history: what the last call was to run, cycles or instructions,
    asked, ran  \* how many, and the cycles it has run

machine == <<line, tcount, ended, phase, wrapped>>
vars == <<machine, count, left, result, mode, asked, ran>>

Init ==
    /\ line = [s \in Stages |-> Nobody]
    /\ tcount = 0
    /\ count = 0
    /\ left = 0
    /\ result = TRUE
    /\ ended = {}
    /\ phase = [t \in Threads |-> 0]
    /\ wrapped = FALSE
    /\ mode = "steps" /\ asked = 0 /\ ran = 0

-----------------------------------------------------------------------------
(* behavior                                                                *)

\* The stages are called from the last one down to `first': the lowest stage
\* that a thread waits for is the one that works on it last.
WorksOn(t, first) == {s \in first .. N : line[s] = t}
LastStage(t, first) ==
    CHOOSE s \in WorksOn(t, first) : \A r \in WorksOn(t, first) : s <= r
Work(first) ==
    phase' = [t \in Threads |->
                 IF WorksOn(t, first) = {} THEN phase[t]
                 ELSE IF LastStage(t, first) = N THEN 0 ELSE LastStage(t, first)]

\* Mutant: the controller skips a thread.
FeedSkipping ==
    /\ tcount' = (tcount + 1) % Wrap
    /\ line' = [s \in Stages |-> IF s = 1 THEN (tcount + tcount) % N ELSE line[s - 1]]
    /\ wrapped' = (wrapped \/ tcount' = 0)

\* hw_thread_controller::behavior and cycle_counter::behavior.  Where the counter
\* wraps, at a power of two, the round breaks off and begins anew: the six threads
\* do not divide 2^32.
Feed ==
    /\ tcount' = (tcount + 1) % Wrap
    /\ line' = [s \in Stages |-> IF s = 1 THEN tcount % N ELSE line[s - 1]]
    /\ wrapped' = (wrapped \/ tcount' = 0)

\* A cycle in which no thread, or one that goes on, is fetched.
Cycle ==
    /\ line[1] \notin ended
    /\ Work(1)
    /\ Feed
    /\ UNCHANGED ended

\* Mutant: the stages before the fetch stage are called all the same.
EndCycleFeeding ==
    /\ line[1] # Nobody
    /\ ended' = ended \union {line[1]}
    /\ Work(2)
    /\ Feed

\* fetch throws.  The stages from decode on have been called, and have handed
\* their threads on; fetch, the controller and the cycle counter have not.
EndCycle ==
    /\ line[1] # Nobody
    /\ ended' = ended \union {line[1]}
    /\ Work(2)
    /\ line' = [s \in Stages |-> IF s <= 2 THEN line[s] ELSE line[s - 1]]
    /\ UNCHANGED <<tcount, wrapped>>

-----------------------------------------------------------------------------
(* run and run_for_instruction                                             *)

Idle == left = 0 /\ (ended = {} \/ Again)

\* run: as many ticks as the caller says.
Run(ticks) ==
    /\ Idle
    /\ left' = ticks
    /\ mode' = "cycles" /\ asked' = ticks /\ ran' = 0
    /\ result' = TRUE
    /\ UNCHANGED <<machine, count>>

\* run_for_instruction: a period for each.
RunForInstruction(n) ==
    /\ Idle
    /\ left' = n * Period
    /\ mode' = "steps" /\ asked' = n /\ ran' = 0
    /\ result' = TRUE
    /\ UNCHANGED <<machine, count>>

\* Mutant: every call starts the clock anew.
TickOn ==
    /\ left > 0
    /\ left' = left - 1
    /\ count' = IF count >= Period THEN 0 ELSE count + 1

\* A turn of the loop: pret_clock::tick, which ticks if it comes round to zero.
Tick ==
    /\ left > 0
    /\ left' = left - 1
    /\ count' = (count + 1) % Period

Turn ==
    /\ Tick
    /\ IF count' = 0 THEN Cycle /\ ran' = ran + 1
                     ELSE UNCHANGED <<machine, ran>>
    /\ UNCHANGED <<result, mode, asked>>

\* The exception is caught: the call returns.
Halt ==
    /\ left > 0
    /\ count' = (count + 1) % Period /\ count' = 0
    /\ EndCycle
    /\ left' = 0
    /\ result' = FALSE
    /\ UNCHANGED <<mode, asked, ran>>

Next ==
    \/ \E ticks \in Calls : Run(ticks)
    \/ \E n \in Steps : RunForInstruction(n)
    \/ Turn
    \/ Halt

Spec == Init /\ [][Next]_vars

\* A call runs to its end, and the debugger calls again.
FairSpec ==
    /\ Spec
    /\ WF_vars(Turn)
    /\ WF_vars(\E n \in Steps : RunForInstruction(n))

-----------------------------------------------------------------------------
(* Properties                                                              *)

TypeOK ==
    /\ line \in [Stages -> Threads \union {Nobody}]
    /\ tcount \in 0 .. Wrap - 1
    /\ count \in 0 .. Period - 1
    /\ left \in Nat /\ asked \in Nat /\ ran \in Nat
    /\ wrapped \in BOOLEAN
    /\ result \in BOOLEAN /\ mode \in {"cycles", "steps"}
    /\ ended \subseteq Threads
    /\ phase \in [Threads -> 0 .. N - 1]

\* A round and a cycle have passed since the counter wrapped, if it has: what was
\* in the pipeline then has left it.
Settled == wrapped => tcount > N

\* Until the simulation ends, every stage gets a thread that the stage before it
\* has just left: no instruction goes through a stage twice or past one, and no
\* thread is in two stages.  This fails for a round where the counter wraps, and
\* holds again after it.
InStep ==
    ended = {} /\ Settled => \A s \in Stages : line[s] # Nobody => phase[line[s]] = s - 1

\* csim.py takes the thread of the cycle count, modulo the threads, for the one
\* to look at: it is the one whose instruction is about to leave the pipeline,
\* so that its pc is that of the instruction; but for the round where the counter
\* wraps.
ShownIsLeaving ==
    ended = {} /\ Settled /\ line[N] # Nobody => line[N] = tcount % N

\* run_for_instruction runs a cycle for every instruction asked for, wherever
\* the calls before it have left the clock.
StepsAreCycles ==
    [][left' = 0 /\ ended' = {} /\ mode' = "steps" => ran' = asked']_vars

\* Once a program has ended no thread is fed to the pipeline, whatever the
\* debugger calls: the other programs stay where they are.
EndIsFinal == [][ended # {} => line'[1] = line[1] /\ tcount' = tcount]_vars

\* Both: what the debugger may count on when it calls run and run_for_instruction.
CallsAreKept == EndIsFinal /\ StepsAreCycles
=============================================================================
