------------------------------ MODULE MCCycle ------------------------------
(***************************************************************************)
(* For TLC: the cycles of the core.  A behaviour is one of Pipeline, or    *)
(* one of MemoryWheel, with the delays of defines.h; the other part stays  *)
(* as it starts.                                                           *)
(***************************************************************************)
EXTENDS Pipeline, MemoryWheel, TLC

VARIABLE part               \* "pipeline" or "wheel"

Inst(c, d) == [code |-> c, data |-> d]

\* Thread 0 runs from main memory, thread 1 has code and data in both memories,
\* and both start transfers.
TwoPrograms ==
       0 :> {Inst("main", d) : d \in {"none", "main", "dma"}}
    @@ 1 :> {Inst(c, d) : c \in {"spm", "main"}, d \in {"none", "main", "dma"}}

ASSUME WheelAssumption == WindowMeetsStages

CycleInit ==
    /\ part \in {"pipeline", "wheel"}
    /\ Init
    /\ WheelInit

PipelineStep == part = "pipeline" /\ Next /\ UNCHANGED <<part, wheelVars>>
WheelStep == part = "wheel" /\ WheelNext /\ UNCHANGED <<part, vars>>

CycleNext == PipelineStep \/ WheelStep
cycleVars == <<part, vars, wheelVars>>

\* core::run calls core::behavior for every tick of the clock.
CycleSpec == CycleInit /\ [][CycleNext]_cycleVars /\ WF_cycleVars(WheelStep)

=============================================================================
