----------------------------- MODULE MemoryWheel -----------------------------
(***************************************************************************)
(* The memory wheel (wheeled_mem) and those that ask it for the main       *)
(* memory in a cycle of core::behavior: the DMA controller, the memory     *)
(* stage and the fetch stage.                                              *)
(*                                                                         *)
(* A step is one call of core::behavior, in the order of the code; `stage' *)
(* is the call that comes next.  Each stage works on the thread that the   *)
(* round robin of the thread controller has put there.  An instruction is  *)
(* where its code is and where its data are: [code, data].                 *)
(***************************************************************************)
EXTENDS Integers

CONSTANTS
    NumThreads,     \* NUM_THREADS
    Latency,        \* lat_d, the delay of one word: MEM_DELAY - 1
    Throughput,     \* throughput_d, the delay of a further word of a burst
    BurstWords,     \* the words of a DMA burst
    Active,         \* the threads that are enabled
    Programs,       \* the instructions each of them may execute
    NoInst          \* no instruction in flight

ASSUME WheelConstants ==
    /\ NumThreads \in Nat /\ NumThreads >= 6
    /\ Latency \in Nat \ {0} /\ Throughput \in Nat /\ BurstWords \in Nat \ {0}
    /\ Active \subseteq 0 .. NumThreads - 1
    /\ Programs \in [Active -> SUBSET [code : {"spm", "main"},
                                       data : {"none", "spm", "main", "dma"}]]
    /\ \A t \in Active : NoInst \notin Programs[t]

VARIABLES
    cycle,          \* the cycle counter, modulo the rotation of the wheel
    stage,          \* the call of core::behavior that comes next
    remaining,      \* wheeled_mem::remaining_cycles
    accessing,      \* wheeled_mem::accessing
    inst,           \* the instruction in flight of each thread
    fetchStalled,   \* hw_thread::is_fetch_stalled
    memStalled,     \* hw_thread::is_memory_stalled
    dma,            \* dma::_transfer_complete
    waited          \* history: refusals of the present request of a thread

wheel == <<remaining, accessing>>
wheelVars == <<cycle, stage, wheel, inst, fetchStalled, memStalled, dma, waited>>

-----------------------------------------------------------------------------
(* wheeled_mem                                                             *)

RoundUp(x, y) == ((x + y - 1) \div y) * y

\* Mutant: the window is not made longer than the threads' turns.
EvenWindow == RoundUp(Latency, NumThreads)

\* MEMORY_WINDOW, for the longest burst the wheel is built for: MAX_WORDS = 1.
Window == RoundUp(Latency, NumThreads) + 1
Rotation == Window * NumThreads

GetDelay(words) == Latency + Throughput * (words - 1)

\* Mutant: the windows are those of the threads one further on.
NextWindow == (cycle \div Window) % NumThreads

CurrentThread == (1 + cycle \div Window) % NumThreads

\* is_scheduled: the delay that must fit is that of MAX_WORDS, not of the access.
IsScheduled(t) ==
    /\ t = CurrentThread
    /\ cycle % Window <= Window - GetDelay(1)

\* The access is turned away: it is not the thread's turn or too late in it.
Refused(t) == t # CurrentThread \/ (~IsScheduled(t) /\ ~accessing)

\* is_stalled_helper, which returns `stalled': a clean access sets the delay,
\* and the answer is whether no delay is left.
IsStalled(t, words, stalled) ==
    \/ /\ Refused(t)
       /\ stalled
       /\ UNCHANGED wheel
    \/ /\ ~Refused(t)
       /\ remaining' = IF accessing THEN remaining ELSE GetDelay(words)
       /\ accessing' = (remaining' <= 0)
       /\ stalled = accessing'

-----------------------------------------------------------------------------
(* The calls of core::behavior, for the thread t that is in the stage      *)

\* The thread that entered the pipeline `depth' cycles ago.
InStage(t, depth) == cycle % NumThreads = (1 + t + depth) % NumThreads

Goes(from, to) == stage = from /\ stage' = to

\* No stall keeps the thread from committing.
Commits(t) == InStage(t, 5) /\ inst[t] # NoInst /\ ~fetchStalled[t] /\ ~memStalled[t]

\* except::behavior commits the instruction; SREG_MEM2SP starts a transfer.
Except ==
    /\ Goes("except", "memory")
    /\ \/ \E t \in Active :
             /\ Commits(t)
             /\ inst' = [inst EXCEPT ![t] = NoInst]
             /\ dma' = [dma EXCEPT ![t] = IF inst[t].data = "dma" THEN "BUSY" ELSE @]
       \/ /\ \A t \in Active : ~Commits(t)
          /\ UNCHANGED <<inst, dma>>
    /\ UNCHANGED <<cycle, wheel, fetchStalled, memStalled, waited>>

\* memory_controller::behavior.
Memory ==
    /\ Goes("memory", "dma")
    /\ remaining' = IF remaining # 0 THEN remaining - 1 ELSE 0
    /\ UNCHANGED <<cycle, accessing, inst, fetchStalled, memStalled, dma, waited>>

\* Mutant: a transfer that was made is not marked as complete.
DmaStaysBusy ==
    /\ Goes("dma", "mem")
    /\ \/ \E t \in Active, stalled \in BOOLEAN :
             /\ t = CurrentThread
             /\ dma[t] = "BUSY"
             /\ IsStalled(t, BurstWords, stalled)
       \/ /\ \A t \in Active : t = CurrentThread => dma[t] = "IDLE"
          /\ UNCHANGED wheel
    /\ UNCHANGED <<cycle, inst, fetchStalled, memStalled, dma, waited>>

\* dma::behavior asks for every thread with a transfer, and the wheel refuses
\* every thread but one.
Dma ==
    /\ Goes("dma", "mem")
    /\ \/ \E t \in Active, stalled \in BOOLEAN :
             /\ t = CurrentThread
             /\ dma[t] = "BUSY"
             /\ IsStalled(t, BurstWords, stalled)
             /\ dma' = [dma EXCEPT ![t] = IF stalled THEN @ ELSE "IDLE"]
       \/ /\ \A t \in Active : t = CurrentThread => dma[t] = "IDLE"
          /\ UNCHANGED <<wheel, dma>>
    /\ UNCHANGED <<cycle, inst, fetchStalled, memStalled, waited>>

\* The thread in the memory stage has a valid instruction for main memory.
AsksForData(t) ==
    InStage(t, 4) /\ inst[t] # NoInst /\ ~fetchStalled[t] /\ inst[t].data = "main"

\* mem::behavior: a load, or a store, which asks the same way.
Mem ==
    /\ Goes("mem", "fetch")
    /\ \/ \E t \in Active, stalled \in BOOLEAN :
             /\ AsksForData(t)
             /\ IsStalled(t, 1, stalled)
             /\ memStalled' = [memStalled EXCEPT ![t] = stalled]
             /\ waited' = [waited EXCEPT ![t] = IF stalled THEN @ + 1 ELSE 0]
       \/ /\ \A t \in Active : ~AsksForData(t)
          /\ UNCHANGED <<wheel, memStalled, waited>>
    /\ UNCHANGED <<cycle, inst, fetchStalled, dma>>

\* fetch::behavior, which a thread stalled on its data skips.
FetchInst(t, i) ==
    /\ inst' = [inst EXCEPT ![t] = i]
    /\ IF i.code = "main"
       THEN \E stalled \in BOOLEAN :
               /\ IsStalled(t, 1, stalled)
               /\ fetchStalled' = [fetchStalled EXCEPT ![t] = stalled]
               /\ waited' = [waited EXCEPT ![t] = IF stalled THEN @ + 1 ELSE 0]
       ELSE /\ fetchStalled' = [fetchStalled EXCEPT ![t] = FALSE]
            /\ UNCHANGED <<wheel, waited>>

Fetch ==
    /\ Goes("fetch", "count")
    /\ \/ \E t \in Active :
             /\ InStage(t, 0)
             /\ ~memStalled[t]
             /\ \E i \in Programs[t] :
                   (fetchStalled[t] => i = inst[t]) /\ FetchInst(t, i)
       \/ /\ \A t \in Active : InStage(t, 0) => memStalled[t]
          /\ UNCHANGED <<wheel, inst, fetchStalled, waited>>
    /\ UNCHANGED <<cycle, memStalled, dma>>

\* cycle_counter::behavior.
Count ==
    /\ Goes("count", "except")
    /\ cycle' = (cycle + 1) % Rotation
    /\ UNCHANGED <<wheel, inst, fetchStalled, memStalled, dma, waited>>

-----------------------------------------------------------------------------

\* After the first call of core::behavior, in which the pipeline is empty and
\* the thread controller sends thread 0 into it.
WheelInit ==
    /\ cycle = 1
    /\ stage = "except"
    /\ remaining = 0
    /\ accessing = FALSE
    /\ inst = [t \in Active |-> NoInst]
    /\ fetchStalled = [t \in Active |-> FALSE]
    /\ memStalled = [t \in Active |-> FALSE]
    /\ dma = [t \in Active |-> "IDLE"]
    /\ waited = [t \in Active |-> 0]

WheelNext == Except \/ Memory \/ Dma \/ Mem \/ Fetch \/ Count

WheelSpec == WheelInit /\ [][WheelNext]_wheelVars

-----------------------------------------------------------------------------
(* Properties                                                              *)

WheelTypeOK ==
    /\ cycle \in 0 .. Rotation - 1
    /\ stage \in {"except", "memory", "dma", "mem", "fetch", "count"}
    /\ remaining \in Nat
    /\ accessing \in BOOLEAN
    /\ DOMAIN inst = Active
    /\ \A t \in Active : inst[t] \in Programs[t] \union {NoInst}
    /\ fetchStalled \in [Active -> BOOLEAN]
    /\ memStalled \in [Active -> BOOLEAN]
    /\ dma \in [Active -> {"IDLE", "BUSY"}]
    /\ waited \in [Active -> Nat]

\* The window the constructor chooses is open in the cycles in which the stages
\* of its thread come to ask, and in each of them once: by how much it is longer
\* than one access.  (Six threads and a delay of fourteen make five.)
WindowMeetsStages ==
    IF NumThreads = 6 THEN Window - Latency \in 2 .. 5 ELSE Window - Latency >= 6

\* A thread asks once in every pass through the pipeline, and the window lets it
\* in before the wheel has turned once.
BoundedWait == WheelTypeOK /\ \A t \in Active : waited[t] * NumThreads < Rotation

\* The first cycle of the window of thread t in the rotation.
FirstCycle(t) == ((t - 1) % NumThreads) * Window

\* Every thread sees the time-triggered interface to memory that wheeled_mem.h
\* describes: the cycle in which it is answered does not depend on what the
\* other threads, or transfers, do.
T == INSTANCE TimeTriggeredMemory WITH
        FetchSlot <- [t \in Active |-> FirstCycle(t) + 2],
        DataSlot <- [t \in Active |-> FirstCycle(t) + (6 % NumThreads)]
TimeTriggered == T!TimeTriggered

\* Every transfer ends, since the wheel comes to its thread again.
DmaCompletes == \A t \in Active : dma[t] = "BUSY" ~> dma[t] = "IDLE"
=============================================================================
