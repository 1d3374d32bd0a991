------------------------------ MODULE SyncTable ------------------------------
(***************************************************************************)
(* The SYNC instruction: hw_thread_controller::check_sync_table, the rows  *)
(* of _sync_table it keeps, and the passes of the hardware threads that    *)
(* call it from the exception stage.                                       *)
(*                                                                         *)
(* One step is one visit of one thread to the exception stage.  The thread *)
(* controller sends the threads into the pipeline in a fixed round robin,  *)
(* so the visits come in the order of `turn'.  A mask is a set of threads: *)
(* the bit `1 << id' is membership, bitCount is Cardinality.               *)
(***************************************************************************)
EXTENDS Integers, FiniteSets

CONSTANTS
    NumThreads,     \* NUM_THREADS, the threads and the rows of the table
    Masks,          \* the masks that SYNC instructions of the programs name
    FetchStalls,    \* may a visit be lost to a stalled instruction fetch?
    Traps,          \* may deadline traps hit threads at a SYNC?
    MaxSyncs        \* bound: SYNCs each thread executes on each mask

Threads == 0 .. NumThreads - 1
Rows == 0 .. NumThreads - 1

ASSUME SyncConstants ==
    /\ NumThreads \in Nat \ {0}
    /\ Masks \subseteq (SUBSET Threads) \ {{}}
    /\ FetchStalls \in BOOLEAN
    /\ Traps \in BOOLEAN
    /\ MaxSyncs \in Nat

VARIABLES
    table,      \* _sync_table: [mask, pending, passed] of every row
    smashed,    \* has check_sync_table written outside the table (row -1)?
    turn,       \* _tcount % NUM_THREADS
    phase,      \* what each thread is doing
    syncing,    \* the mask of the SYNC a thread is executing
    arrived,    \* arrived[t][m]: SYNCs on m that t has started
    left,       \* left[t][m]: SYNCs on m that t has completed
    abandoned   \* history: has a handler left a SYNC for good?

vars == <<table, smashed, turn, phase, syncing, arrived, left, abandoned>>

\* "run": executing instructions other than SYNC; "sync": its program counter
\* is at a SYNC that has not let it pass; "trapped": between the two passes of
\* a trap taken at the SYNC; "handler": in the handler of that trap.
Phases == {"run", "sync", "trapped", "handler"}

FreeRow == [mask |-> {}, pending |-> {}, passed |-> 0]

RowType == [mask : SUBSET Threads, pending : SUBSET Threads, passed : Nat]

-----------------------------------------------------------------------------
(* check_sync_table                                                        *)

RowsFor(m) == {i \in Rows : table[i].mask = m}

\* The first row the scan meets, as a set that is empty when there is none.
First(S) == {i \in S : \A j \in S : i <= j}

PassNeverFrees(i, m) ==
    /\ table[i].pending = {}
    /\ table' = [table EXCEPT ![i].passed = @ + 1]
    /\ UNCHANGED smashed

\* The row's threads have all polled: the caller passes, and the row is freed
\* when as many calls have passed as the mask has threads.
PassRow(i, m) ==
    /\ table[i].pending = {}
    /\ LET passed == table[i].passed + 1
       IN  table' = [table EXCEPT ![i] =
               [mask    |-> IF passed = Cardinality(m) THEN {} ELSE m,
                pending |-> {},
                passed  |-> passed]]
    /\ UNCHANGED smashed

\* Mutants: the call clears every bit, or none.
ClearAll(i, m, t) ==
    /\ table[i].pending # {}
    /\ table' = [table EXCEPT ![i].pending = {}]
    /\ UNCHANGED smashed
ClearNone(i, m, t) ==
    /\ table[i].pending # {}
    /\ UNCHANGED <<table, smashed>>

\* Some threads have not polled yet: the caller clears its bit and waits.
ClearBit(i, m, t) ==
    /\ table[i].pending # {}
    /\ table' = [table EXCEPT ![i] =
           [mask |-> m, pending |-> @.pending \ {t}, passed |-> @.passed]]
    /\ UNCHANGED smashed

\* Mutant: a row is added without a look for one that is there.
AddAlways(m) ==
    \/ \E i \in First(RowsFor({})) :
          /\ table' = [table EXCEPT ![i] = [mask |-> m, pending |-> m, passed |-> 0]]
          /\ UNCHANGED smashed
    \/ /\ RowsFor({}) = {}
       /\ smashed' = TRUE
       /\ UNCHANGED table

\* No row for the mask: the first free row is taken and the caller waits, its
\* own bit still pending.  Without a free row the code writes row -1.
AddRow(m) ==
    /\ RowsFor(m) = {}
    /\ \/ \E i \in First(RowsFor({})) :
             /\ table' = [table EXCEPT
                    ![i] = [mask |-> m, pending |-> m, passed |-> 0]]
             /\ UNCHANGED smashed
       \/ /\ RowsFor({}) = {}
          /\ smashed' = TRUE
          /\ UNCHANGED table

\* check_sync_table(m, t) returns `go'.
CheckSyncTable(m, t, go) ==
    \/ go /\ \E i \in First(RowsFor(m)) : PassRow(i, m)
    \/ ~go /\ \E i \in First(RowsFor(m)) : ClearBit(i, m, t)
    \/ ~go /\ AddRow(m)

-----------------------------------------------------------------------------
(* Visits of thread t to the exception stage                               *)

NextTurn(t) == turn = t /\ turn' = (turn + 1) % NumThreads

\* An instruction that is not a SYNC, of the program or of a trap handler.
Compute(t) ==
    /\ phase[t] \in {"run", "handler"}
    /\ UNCHANGED <<table, smashed, phase, syncing, arrived, left, abandoned>>

\* The fetch of this pass was stalled: every later stage skips the thread.
FetchStalled(t) ==
    /\ FetchStalls
    /\ phase[t] # "trapped"
    /\ UNCHANGED <<table, smashed, phase, syncing, arrived, left, abandoned>>

\* The outcome of a poll of m by t, executing the SYNC it is now at.
Poll(t, m) ==
    \/ /\ CheckSyncTable(m, t, TRUE)
       /\ phase' = [phase EXCEPT ![t] = "run"]
       /\ left' = [left EXCEPT ![t][m] = @ + 1]
    \/ /\ CheckSyncTable(m, t, FALSE)
       /\ phase' = [phase EXCEPT ![t] = "sync"]
       /\ UNCHANGED left

\* The program counter reaches a SYNC, which polls in the same pass.
StartSync(t) ==
    /\ phase[t] = "run"
    /\ \E m \in Masks :
          /\ t \in m
          /\ arrived[t][m] < MaxSyncs
          /\ arrived' = [arrived EXCEPT ![t][m] = @ + 1]
          /\ syncing' = [syncing EXCEPT ![t] = m]
          /\ Poll(t, m)
    /\ UNCHANGED abandoned

\* The program counter was not incremented: the same SYNC polls again.
RetrySync(t) ==
    /\ phase[t] = "sync"
    /\ Poll(t, syncing[t])
    /\ UNCHANGED <<syncing, arrived, abandoned>>

\* First trap pass: a missed deadline set the trap in the register access
\* stage, the exception stage polls all the same and ignores the answer.  The
\* trap hits a thread that has polled before, or one that is new at the SYNC.
TrapAtStart(t) ==
    /\ Traps
    /\ phase[t] = "run"
    /\ \E m \in Masks :
          /\ t \in m
          /\ arrived[t][m] < MaxSyncs
          /\ arrived' = [arrived EXCEPT ![t][m] = @ + 1]
          /\ syncing' = [syncing EXCEPT ![t] = m]
          /\ \E go \in BOOLEAN : CheckSyncTable(m, t, go)
    /\ phase' = [phase EXCEPT ![t] = "trapped"]
    /\ UNCHANGED <<left, abandoned>>

TrapAtSync(t) ==
    /\ Traps
    /\ phase[t] = "sync"
    /\ \E go \in BOOLEAN : CheckSyncTable(syncing[t], t, go)
    /\ phase' = [phase EXCEPT ![t] = "trapped"]
    /\ UNCHANGED <<syncing, arrived, left, abandoned>>

\* Second trap pass: the SYNC polls once more, then the handler is entered.
EnterHandler(t) ==
    /\ phase[t] = "trapped"
    /\ \E go \in BOOLEAN : CheckSyncTable(syncing[t], t, go)
    /\ phase' = [phase EXCEPT ![t] = "handler"]
    /\ UNCHANGED <<syncing, arrived, left, abandoned>>

\* The handler returns to the saved program counter, that of the SYNC.
Resume(t) ==
    /\ phase[t] = "handler"
    /\ phase' = [phase EXCEPT ![t] = "sync"]
    /\ UNCHANGED <<table, smashed, syncing, arrived, left, abandoned>>

\* The handler leaves the timed block (longjmp) and never comes back.
Abandon(t) ==
    /\ phase[t] = "handler"
    /\ phase' = [phase EXCEPT ![t] = "run"]
    /\ abandoned' = TRUE
    /\ UNCHANGED <<table, smashed, syncing, arrived, left>>

Visit(t) ==
    \/ Compute(t)
    \/ FetchStalled(t)
    \/ StartSync(t)
    \/ RetrySync(t)
    \/ TrapAtStart(t)
    \/ TrapAtSync(t)
    \/ EnterHandler(t)
    \/ Resume(t)
    \/ Abandon(t)

-----------------------------------------------------------------------------

Init ==
    /\ table = [i \in Rows |-> FreeRow]
    /\ smashed = FALSE
    /\ turn = 0
    /\ phase = [t \in Threads |-> "run"]
    /\ syncing = [t \in Threads |-> {}]
    /\ arrived = [t \in Threads |-> [m \in Masks |-> 0]]
    /\ left = [t \in Threads |-> [m \in Masks |-> 0]]
    /\ abandoned = FALSE

Next == ~smashed /\ \E t \in Threads : NextTurn(t) /\ Visit(t)

Spec == Init /\ [][Next]_vars

\* A thread at a SYNC is polled again and again: the pipeline visits it every
\* rotation, and its fetch is granted once in every rotation of the memory
\* wheel (module MemoryWheel), so the visits lost to a stall are finitely many.
Fairness ==
    /\ WF_vars(Next)
    /\ \A t \in Threads : SF_vars(NextTurn(t) /\ RetrySync(t))

FairSpec == Spec /\ Fairness
-----------------------------------------------------------------------------
(* Properties                                                              *)

Live(i) == table[i].mask # {}

\* The threads executing a SYNC on m, trapped at it or not.
Waiters(m) == {t \in Threads : phase[t] # "run" /\ syncing[t] = m}

TypeOK ==
    /\ table \in [Rows -> RowType]
    /\ smashed \in BOOLEAN
    /\ turn \in Threads
    /\ phase \in [Threads -> Phases]
    /\ syncing \in [Threads -> SUBSET Threads]
    /\ \A t \in Threads : phase[t] # "run" => t \in syncing[t] /\ syncing[t] \in Masks
    /\ arrived \in [Threads -> [Masks -> Nat]]
    /\ left \in [Threads -> [Masks -> Nat]]
    /\ abandoned \in BOOLEAN

\* check_sync_table never runs out of rows, unless a handler left a SYNC for
\* good: it never writes outside the table, for which it has no test.
TableNeverFull == ~abandoned => ~smashed

\* The rows the scan can find are never ambiguous: a mask has one row.
OneRowPerMask == \A i, j \in Rows : Live(i) /\ table[i].mask = table[j].mask => i = j

\* No row outlives the barrier it was made for, unless a handler left a SYNC for
\* good: some thread of the mask is still at the SYNC, and will find the row.
LiveRowHasWaiter ==
    ~abandoned => \A i \in Rows : Live(i) => Waiters(table[i].mask) # {}

\* Why no row is orphaned while handlers return to the SYNC.  W is the set of
\* waiters of the row r: while threads are still to poll, those that polled are
\* waiting; afterwards, enough of them are left to use up the passes.
RowOK(r, W) ==
    /\ r.mask \in Masks
    /\ r.pending \subseteq r.mask
    /\ r.pending # {} =>
          r.passed = 0 /\ r.mask \ r.pending \subseteq W /\ W # {}
    /\ r.pending = {} =>
          /\ r.passed < Cardinality(r.mask)
          /\ Cardinality(W) + r.passed >= Cardinality(r.mask)

\* Every row in use is owed to threads that are still at the SYNC it was made
\* for, and none is written outside the table.
OwedRows ==
    /\ ~smashed
    /\ OneRowPerMask
    /\ \A i \in Rows : Live(i) => RowOK(table[i], Waiters(table[i].mask))

\* The inductive invariant behind TableNeverFull and LiveRowHasWaiter: as long
\* as no handler has left a SYNC for good, what check_sync_table does on visits
\* that commit nothing is made good by the threads that still wait.
RowInv == ~abandoned => OwedRows

\* A row is freed only when all the threads of its mask have passed, as the
\* comment in check_sync_table says: none is left behind at the SYNC.
RowFreedWhenAllPassed ==
    [][\A i \in Rows :
        Live(i) /\ table'[i].mask = {} =>
            \A t \in table[i].mask : left'[t][table[i].mask] = arrived'[t][table[i].mask]]_vars

\* The table implements the reusable barrier.
B == INSTANCE Barrier
BarrierSafe == B!BarrierSpec

\* When every thread of a mask is at its SYNC, all of them get past it.
AllAt(m) == \A u \in m : phase[u] = "sync" /\ syncing[u] = m
BarrierOpens == \A m \in Masks : \A t \in m : AllAt(m) ~> phase[t] = "run"
=============================================================================
