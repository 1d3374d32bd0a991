------------------------- MODULE TimeTriggeredMemory -------------------------
(***************************************************************************)
(* The time-triggered interface to memory that wheeled_mem promises, with  *)
(* no wheel: each thread has one cycle of the rotation in which a fetch    *)
(* from main memory is answered and one in which a data access is, and the *)
(* other threads do not exist for it.                                      *)
(***************************************************************************)
EXTENDS Integers

CONSTANTS Active,       \* the enabled hardware threads
          Programs,     \* the instructions each thread may execute
          NoInst,       \* no instruction in flight
          FetchSlot,    \* cycle of the rotation in which a fetch is answered
          DataSlot      \* cycle of the rotation in which data are answered

VARIABLES cycle,        \* the cycle within the rotation
          inst,         \* the instruction each thread executes
          fetchStalled, \* is the thread waiting for its instruction?
          memStalled    \* is the thread waiting for its data?

memoryVars == <<cycle, inst, fetchStalled, memStalled>>

TimeInit ==
    /\ cycle = 1
    /\ inst = [t \in Active |-> NoInst]
    /\ fetchStalled = [t \in Active |-> FALSE]
    /\ memStalled = [t \in Active |-> FALSE]

FetchAnswer(t) ==
    /\ inst[t] = NoInst \/ fetchStalled[t]
    /\ \E i \in Programs[t] :
          /\ fetchStalled[t] => i = inst[t]
          /\ inst' = [inst EXCEPT ![t] = i]
          /\ fetchStalled' = [fetchStalled EXCEPT
                 ![t] = i.code = "main" /\ cycle # FetchSlot[t]]
    /\ UNCHANGED <<cycle, memStalled>>

DataAnswer(t) ==
    /\ inst[t] # NoInst
    /\ ~fetchStalled[t]
    /\ inst[t].data = "main"
    /\ memStalled' = [memStalled EXCEPT ![t] = cycle # DataSlot[t]]
    /\ UNCHANGED <<cycle, inst, fetchStalled>>

Commit(t) ==
    /\ inst[t] # NoInst
    /\ ~fetchStalled[t]
    /\ ~memStalled[t]
    /\ inst' = [inst EXCEPT ![t] = NoInst]
    /\ UNCHANGED <<cycle, fetchStalled, memStalled>>

TimePasses ==
    /\ cycle' # cycle
    /\ UNCHANGED <<inst, fetchStalled, memStalled>>

TimeNext ==
    \/ TimePasses
    \/ \E t \in Active : FetchAnswer(t) \/ DataAnswer(t) \/ Commit(t)

TimeTriggered == TimeInit /\ [][TimeNext]_memoryVars
=============================================================================
