-------------------------- MODULE SyncTableProofs --------------------------
(***************************************************************************)
(* Proofs about SyncTable, for every number of threads and every set of    *)
(* masks.                                                                  *)
(***************************************************************************)
EXTENDS SyncTable, FiniteSetTheorems, TLAPS

\* Every mask is a finite set of threads, and it is empty if it counts none.
LEMMA MasksFinite ==
    ASSUME NEW m \in SUBSET Threads
    PROVE  /\ IsFiniteSet(m)
           /\ Cardinality(m) \in Nat
           /\ (Cardinality(m) = 0 <=> m = {})
<1>1. IsFiniteSet(Threads)
  BY SyncConstants, FS_Interval DEF Threads
<1>2. IsFiniteSet(m)
  BY <1>1, FS_Subset
<1>3. QED
  BY <1>2, FS_CardinalityType, FS_EmptySet

\* A call of check_sync_table rewrites one row, that of the mask or a free one
\* if the mask has none, or it writes outside the table.
LEMMA CheckEffect ==
    ASSUME NEW m, NEW t, NEW go \in BOOLEAN, CheckSyncTable(m, t, go)
    PROVE  \/ \E i \in Rows : table[i].mask = m /\ PassRow(i, m) /\ go
           \/ \E i \in Rows : table[i].mask = m /\ ClearBit(i, m, t) /\ ~go
           \/ /\ \A i \in Rows : table[i].mask # m
              /\ ~go
              /\ \E i \in Rows :
                    /\ table[i].mask = {}
                    /\ table' = [table EXCEPT
                           ![i] = [mask |-> m, pending |-> m, passed |-> 0]]
                    /\ smashed' = smashed
           \/ /\ \A i \in Rows : table[i].mask # m /\ table[i].mask # {}
              /\ ~go
              /\ table' = table
              /\ smashed' = TRUE
  BY DEF CheckSyncTable, AddRow, First, RowsFor

LEMMA CheckType ==
    ASSUME TypeOK, NEW m \in SUBSET Threads, NEW t \in Threads,
           NEW go \in BOOLEAN, CheckSyncTable(m, t, go)
    PROVE  table' \in [Rows -> RowType] /\ smashed' \in BOOLEAN
<1> USE DEF TypeOK, RowType
<1>1. CASE \E i \in Rows : table[i].mask = m /\ PassRow(i, m) /\ go
  BY <1>1 DEF PassRow
<1>2. CASE \E i \in Rows : table[i].mask = m /\ ClearBit(i, m, t) /\ ~go
  BY <1>2 DEF ClearBit
<1>3. ASSUME NEW i \in Rows,
             table' = [table EXCEPT ![i] = [mask |-> m, pending |-> m, passed |-> 0]]
      PROVE  table' \in [Rows -> RowType]
  BY <1>3
<1>4. smashed' \in BOOLEAN
  <2>1. smashed' = smashed \/ smashed' = TRUE
    BY CheckEffect, Zenon DEF PassRow, ClearBit
  <2>2. QED
    BY <2>1
<1>5. QED
  BY <1>1, <1>2, <1>3, <1>4, CheckEffect

\* A poll moves the thread on exactly when check_sync_table says so.
LEMMA PollEffect ==
    ASSUME NEW m, NEW t, Poll(t, m)
    PROVE  \/ /\ CheckSyncTable(m, t, TRUE)
              /\ phase' = [phase EXCEPT ![t] = "run"]
              /\ left' = [left EXCEPT ![t][m] = left[t][m] + 1]
           \/ /\ CheckSyncTable(m, t, FALSE)
              /\ phase' = [phase EXCEPT ![t] = "sync"]
              /\ left' = left
  BY Zenon DEF Poll

\* A poll by t of the mask it is now syncing on keeps the types.
LEMMA PollType ==
    ASSUME TypeOK, NEW t \in Threads, NEW m \in Masks, t \in m, Poll(t, m),
           turn' \in Threads, abandoned' \in BOOLEAN,
           syncing'[t] = m,
           \A u \in Threads \ {t} : syncing'[u] = syncing[u],
           syncing' \in [Threads -> SUBSET Threads],
           arrived' \in [Threads -> [Masks -> Nat]]
    PROVE  TypeOK'
<1>1. m \in SUBSET Threads
  BY SyncConstants
<1>2. table' \in [Rows -> RowType] /\ smashed' \in BOOLEAN
  BY <1>1, CheckType DEF Poll
<1>3. phase' \in [Threads -> Phases]
  <2>1. phase' = [phase EXCEPT ![t] = "run"] \/ phase' = [phase EXCEPT ![t] = "sync"]
    BY PollEffect, Zenon
  <2>2. QED
    BY <2>1 DEF TypeOK, Phases
<1>4. \A u \in Threads \ {t} : phase'[u] = phase[u]
  <2>1. phase' = [phase EXCEPT ![t] = "run"] \/ phase' = [phase EXCEPT ![t] = "sync"]
    BY PollEffect, Zenon
  <2>2. QED
    BY <2>1 DEF TypeOK
<1>5. left' \in [Threads -> [Masks -> Nat]]
  <2>1. left' = [left EXCEPT ![t][m] = left[t][m] + 1] \/ left' = left
    BY PollEffect, Zenon
  <2>2. left[t] \in [Masks -> Nat] /\ left[t][m] + 1 \in Nat
    BY DEF TypeOK
  <2>3. [left[t] EXCEPT ![m] = left[t][m] + 1] \in [Masks -> Nat]
    BY <2>2
  <2>4. [left EXCEPT ![t][m] = left[t][m] + 1] \in [Threads -> [Masks -> Nat]]
    BY <2>3 DEF TypeOK
  <2>5. QED
    BY <2>1, <2>4 DEF TypeOK
<1>6. \A u \in Threads : phase'[u] # "run" => u \in syncing'[u] /\ syncing'[u] \in Masks
  BY <1>4 DEF TypeOK
<1>7. QED
  BY <1>2, <1>3, <1>5, <1>6 DEF TypeOK

\* The visits keep every variable in its type.
THEOREM TypeCorrect == Spec => []TypeOK
<1>1. Init => TypeOK
  <2> SUFFICES ASSUME Init PROVE TypeOK
    OBVIOUS
  <2>1. FreeRow \in RowType
    BY DEF FreeRow, RowType
  <2>2. 0 \in Threads
    BY SyncConstants DEF Threads
  <2>3. QED
    BY <2>1, <2>2 DEF Init, TypeOK, Phases
<1>2. TypeOK /\ [Next]_vars => TypeOK'
  <2> SUFFICES ASSUME TypeOK, [Next]_vars PROVE TypeOK'
    OBVIOUS
  <2>1. CASE UNCHANGED vars
    BY <2>1 DEF vars, TypeOK
  <2>2. ASSUME NEW t \in Threads, NextTurn(t), Visit(t) PROVE TypeOK'
    <3>1. turn' \in Threads
      BY <2>2, SyncConstants DEF NextTurn, TypeOK, Threads
    <3>1a. abandoned' \in BOOLEAN
      <4>1. abandoned' = abandoned \/ abandoned' = TRUE
        BY <2>2, Zenon DEF Visit, Compute, FetchStalled, StartSync, RetrySync,
           TrapAtStart, TrapAtSync, EnterHandler, Resume, Abandon
      <4>2. QED
        BY <4>1 DEF TypeOK
    <3>2. CASE Compute(t) \/ FetchStalled(t) \/ Resume(t) \/ Abandon(t)
      <4>1. UNCHANGED <<table, smashed, syncing, arrived, left>>
        BY <3>2, Zenon DEF Compute, FetchStalled, Resume, Abandon
      <4>2. /\ phase' \in [Threads -> Phases]
            /\ \A u \in Threads : phase'[u] # "run" => phase[u] # "run"
        BY <3>2 DEF Compute, FetchStalled, Resume, Abandon, TypeOK, Phases
      <4>3. QED
        BY <3>1, <3>1a, <4>1, <4>2 DEF TypeOK
    <3>3. CASE StartSync(t)
      <4>1. PICK m \in Masks :
               /\ t \in m
               /\ arrived' = [arrived EXCEPT ![t][m] = @ + 1]
               /\ syncing' = [syncing EXCEPT ![t] = m]
               /\ Poll(t, m)
        BY <3>3 DEF StartSync
      <4>2. syncing'[t] = m /\ \A u \in Threads \ {t} : syncing'[u] = syncing[u]
        BY <4>1 DEF TypeOK
      <4>3. arrived' \in [Threads -> [Masks -> Nat]]
        BY <4>1 DEF TypeOK
      <4>4. syncing' \in [Threads -> SUBSET Threads]
        BY <4>1, SyncConstants DEF TypeOK
      <4>5. QED
        BY <3>1, <3>1a, <4>1, <4>2, <4>3, <4>4, PollType
    <3>4. CASE RetrySync(t)
      <4>1. syncing[t] \in Masks /\ t \in syncing[t] /\ Poll(t, syncing[t])
        BY <3>4 DEF RetrySync, TypeOK
      <4>2. syncing' = syncing /\ arrived' = arrived
        BY <3>4 DEF RetrySync
      <4>3. syncing' \in [Threads -> SUBSET Threads] /\ arrived' \in [Threads -> [Masks -> Nat]]
        BY <4>2 DEF TypeOK
      <4>4. QED
        BY <3>1, <3>1a, <4>1, <4>2, <4>3, PollType
    <3>5. CASE TrapAtSync(t) \/ EnterHandler(t)
      <4>1. syncing[t] \in SUBSET Threads /\ phase[t] # "run"
        BY <3>5 DEF TrapAtSync, EnterHandler, TypeOK
      <4>2. table' \in [Rows -> RowType] /\ smashed' \in BOOLEAN
        BY <3>5, <4>1, CheckType DEF TrapAtSync, EnterHandler
      <4>3. UNCHANGED <<syncing, arrived, left>>
        BY <3>5 DEF TrapAtSync, EnterHandler
      <4>4. /\ phase' \in [Threads -> Phases]
            /\ \A u \in Threads : phase'[u] # "run" => phase[u] # "run"
        BY <3>5, <4>1 DEF TrapAtSync, EnterHandler, TypeOK, Phases
      <4>5. QED
        BY <3>1, <3>1a, <4>2, <4>3, <4>4 DEF TypeOK
    <3>6. CASE TrapAtStart(t)
      <4>1. PICK m \in Masks :
               /\ t \in m
               /\ arrived' = [arrived EXCEPT ![t][m] = @ + 1]
               /\ syncing' = [syncing EXCEPT ![t] = m]
               /\ \E go \in BOOLEAN : CheckSyncTable(m, t, go)
        BY <3>6 DEF TrapAtStart
      <4>2. m \in SUBSET Threads
        BY SyncConstants
      <4>3. table' \in [Rows -> RowType] /\ smashed' \in BOOLEAN
        BY <4>1, <4>2, CheckType
      <4>4. /\ arrived' \in [Threads -> [Masks -> Nat]]
            /\ left' \in [Threads -> [Masks -> Nat]]
        BY <3>6, <4>1 DEF TrapAtStart, TypeOK
      <4>5. /\ syncing' \in [Threads -> SUBSET Threads]
            /\ syncing'[t] = m /\ \A u \in Threads \ {t} : syncing'[u] = syncing[u]
        BY <4>1, <4>2 DEF TypeOK
      <4>6. /\ phase' \in [Threads -> Phases]
            /\ \A u \in Threads \ {t} : phase'[u] = phase[u]
        BY <3>6 DEF TrapAtStart, TypeOK, Phases
      <4>7. \A u \in Threads : phase'[u] # "run" => u \in syncing'[u] /\ syncing'[u] \in Masks
        BY <4>1, <4>5, <4>6 DEF TypeOK
      <4>8. QED
        BY <3>1, <3>1a, <4>3, <4>4, <4>5, <4>6, <4>7 DEF TypeOK
    <3>7. QED
      BY <2>2, <3>2, <3>3, <3>4, <3>5, <3>6 DEF Visit
  <2>3. QED
    BY <2>1, <2>2 DEF Next
<1>3. QED
  BY <1>1, <1>2, PTL DEF Spec
-----------------------------------------------------------------------------
(* The scan is never ambiguous                                              *)

\* A call of check_sync_table leaves a mask in one row: a row is only ever added
\* for a mask that has none, in a place that was free.
LEMMA CallKeepsOneRow ==
    ASSUME TypeOK, OneRowPerMask, NEW m \in SUBSET Threads, NEW t \in Threads,
           NEW go \in BOOLEAN, CheckSyncTable(m, t, go)
    PROVE  OneRowPerMask'
<1> USE DEF TypeOK, RowType, OneRowPerMask, Live
<1>1. ASSUME NEW i \in Rows, table[i].mask = m, PassRow(i, m)
      PROVE  OneRowPerMask'
  <2>1. table'[i].mask \in {m, {}} /\ \A j \in Rows \ {i} : table'[j] = table[j]
    BY <1>1 DEF PassRow
  <2>2. QED
    BY <1>1, <2>1
<1>2. ASSUME NEW i \in Rows, table[i].mask = m, ClearBit(i, m, t)
      PROVE  OneRowPerMask'
  <2>1. table'[i].mask = m /\ \A j \in Rows \ {i} : table'[j] = table[j]
    BY <1>2 DEF ClearBit
  <2>2. QED
    BY <1>2, <2>1
<1>3. ASSUME \A j \in Rows : table[j].mask # m, NEW i \in Rows,
             table' = [table EXCEPT ![i] = [mask |-> m, pending |-> m, passed |-> 0]]
      PROVE  OneRowPerMask'
  <2>1. table'[i].mask = m /\ \A j \in Rows \ {i} : table'[j] = table[j]
    BY <1>3
  <2>2. QED
    BY <1>3, <2>1
<1>4. CASE table' = table
  BY <1>4
<1>5. QED
  BY <1>1, <1>2, <1>3, <1>4, CheckEffect

\* Whatever traps and stalls do, and even after a handler has left a SYNC for
\* good, check_sync_table finds at most one row for a mask.
THEOREM RowsUnambiguous == Spec => []OneRowPerMask
<1>1. Init => OneRowPerMask
  BY DEF Init, FreeRow, OneRowPerMask, Live
<1>2. TypeOK /\ OneRowPerMask /\ [Next]_vars => OneRowPerMask'
  <2> SUFFICES ASSUME TypeOK, OneRowPerMask, [Next]_vars PROVE OneRowPerMask'
    OBVIOUS
  <2>1. ASSUME table' = table PROVE OneRowPerMask'
    BY <2>1 DEF OneRowPerMask, Live
  <2>2. ASSUME NEW t \in Threads, Visit(t) PROVE OneRowPerMask'
    <3>1. CASE Compute(t) \/ FetchStalled(t) \/ Resume(t) \/ Abandon(t)
      <4>1. table' = table
        BY <3>1, Zenon DEF Compute, FetchStalled, Resume, Abandon
      <4>2. QED
        BY <2>1, <4>1
    <3>2. ASSUME NEW m \in Masks, Poll(t, m) PROVE OneRowPerMask'
      <4>1. m \in SUBSET Threads
        BY SyncConstants
      <4>2. PICK go \in BOOLEAN : CheckSyncTable(m, t, go)
        BY <3>2, PollEffect
      <4>3. QED
        BY <4>1, <4>2, CallKeepsOneRow
    <3>3. CASE StartSync(t)
      BY <3>2, <3>3 DEF StartSync
    <3>4. CASE RetrySync(t)
      BY <3>2, <3>4 DEF RetrySync, TypeOK
    <3>5. CASE TrapAtSync(t) \/ EnterHandler(t)
      <4>1. PICK go \in BOOLEAN : CheckSyncTable(syncing[t], t, go)
        BY <3>5 DEF TrapAtSync, EnterHandler
      <4>2. syncing[t] \in SUBSET Threads
        BY DEF TypeOK
      <4>3. QED
        BY <4>1, <4>2, CallKeepsOneRow
    <3>6. CASE TrapAtStart(t)
      <4>1. PICK m \in Masks, go \in BOOLEAN : CheckSyncTable(m, t, go)
        BY <3>6 DEF TrapAtStart
      <4>2. m \in SUBSET Threads
        BY SyncConstants
      <4>3. QED
        BY <4>1, <4>2, CallKeepsOneRow
    <3>7. QED
      BY <2>2, <3>1, <3>3, <3>4, <3>5, <3>6 DEF Visit
  <2>3. CASE UNCHANGED vars
    BY <2>1, <2>3 DEF vars
  <2>4. QED
    BY <2>2, <2>3 DEF Next
<1>3. QED
  BY <1>1, <1>2, TypeCorrect, PTL DEF Spec

-----------------------------------------------------------------------------
(* The table never runs out of rows while handlers return to the SYNC       *)

\* The waiters of a mask are threads of the mask.
LEMMA WaitersInMask ==
    ASSUME TypeOK, NEW m \in SUBSET Threads
    PROVE  /\ Waiters(m) \subseteq m
           /\ IsFiniteSet(Waiters(m))
           /\ Cardinality(Waiters(m)) \in Nat
           /\ (Waiters(m) # {} <=> Cardinality(Waiters(m)) > 0)
<1>1. Waiters(m) \subseteq m
  BY DEF Waiters, TypeOK
<1>2. Waiters(m) \in SUBSET Threads
  BY DEF Waiters
<1>3. QED
  BY <1>1, <1>2, MasksFinite

\* A row has a waiter whatever its state.
LEMMA RowHasWaiter ==
    ASSUME TypeOK, NEW i \in Rows, RowOK(table[i], Waiters(table[i].mask))
    PROVE  Waiters(table[i].mask) # {}
<1> DEFINE m == table[i].mask
<1>1. m \in SUBSET Threads
  BY SyncConstants DEF RowOK
<1>2. table[i].passed \in Nat
  BY DEF TypeOK, RowType
<1>3. CASE table[i].pending # {}
  BY <1>3 DEF RowOK
<1>4. CASE table[i].pending = {}
  <2>1. Cardinality(Waiters(m)) > 0
    BY <1>1, <1>2, <1>4, MasksFinite, WaitersInMask DEF RowOK
  <2>2. QED
    BY <1>1, <2>1, WaitersInMask
<1>5. QED
  BY <1>3, <1>4

\* A thread that finds no row for its mask finds a free one: each row in use
\* has a waiter of its own, other than the caller.
LEMMA FreeRowExists ==
    ASSUME TypeOK, OwedRows, NEW t \in Threads, NEW m \in Masks,
           \A m2 \in Masks \ {m} : t \notin Waiters(m2),
           \A i \in Rows : table[i].mask # m
    PROVE  \E i \in Rows : table[i].mask = {}
<1> SUFFICES ASSUME \A i \in Rows : Live(i) PROVE FALSE
  BY DEF Live
<1> DEFINE w == [i \in Rows |-> CHOOSE u \in Waiters(table[i].mask) : TRUE]
<1>1. ASSUME NEW i \in Rows
      PROVE  w[i] \in Waiters(table[i].mask)
  <2>1. Waiters(table[i].mask) # {}
    BY RowHasWaiter DEF OwedRows
  <2>2. QED
    BY <2>1
<1>2. ASSUME NEW i \in Rows
      PROVE  w[i] \in Threads \ {t} /\ syncing[w[i]] = table[i].mask
  <2>1. table[i].mask \in Masks \ {m}
    BY DEF OwedRows, RowOK
  <2>2. t \notin Waiters(table[i].mask)
    BY <2>1
  <2>3. QED
    BY <1>1, <2>2 DEF Waiters
<1>3. w \in [Rows -> Threads \ {t}]
  BY <1>2
<1>4. /\ IsFiniteSet(Threads) /\ Cardinality(Threads) = NumThreads
      /\ IsFiniteSet(Rows) /\ Cardinality(Rows) = NumThreads
  BY SyncConstants, FS_Interval DEF Threads, Rows
<1>5. IsFiniteSet(Threads \ {t}) /\ Cardinality(Threads \ {t}) = NumThreads - 1
  BY <1>4, FS_RemoveElement
<1>6. Cardinality(Threads \ {t}) < Cardinality(Rows)
  BY <1>4, <1>5, SyncConstants
<1> HIDE DEF w
<1>7. PICK i, j \in Rows : i # j /\ w[i] = w[j]
  <2>1. IsFiniteSet(Rows) /\ IsFiniteSet(Threads \ {t})
    BY <1>4, <1>5
  <2>2. QED
    BY ONLY <1>3, <1>6, <2>1, FS_PigeonHole
<1>8. table[i].mask = table[j].mask
  BY <1>2, <1>7
<1>9. QED
  BY <1>7, <1>8 DEF OwedRows, OneRowPerMask

\* Writing one row, that of the mask m or a free one when m has none, keeps
\* the invariant if the new row is right for the new waiters of m.
LEMMA RowWritten ==
    ASSUME TypeOK, OwedRows, NEW m \in Masks, NEW i \in Rows, NEW r \in RowType,
           table' = [table EXCEPT ![i] = r], smashed' = smashed,
           r.mask \in {m, {}},
           \/ table[i].mask = m
           \/ table[i].mask = {} /\ \A j \in Rows : table[j].mask # m,
           r.mask = m => RowOK(r, Waiters(m)'),
           \A m2 \in Masks \ {m} : Waiters(m2)' = Waiters(m2)
    PROVE  OwedRows'
<1>1. table'[i] = r /\ \A j \in Rows \ {i} : table'[j] = table[j]
  BY DEF TypeOK
<1>2. \A j \in Rows \ {i} : table[j].mask # m
  BY SyncConstants DEF OwedRows, OneRowPerMask, Live
<1>3. ~smashed'
  BY Zenon DEF OwedRows
<1>4. OneRowPerMask'
  BY <1>1, <1>2 DEF OwedRows, OneRowPerMask, Live
<1>5. ASSUME NEW j \in Rows, Live(j)'
      PROVE  RowOK(table[j], Waiters(table[j].mask))'
  <2>1. CASE j = i
    <3>1. table'[j] = r /\ r.mask = m
      BY <1>1, <1>5, <2>1 DEF Live
    <3>2. RowOK(r, Waiters(m)')
      BY <3>1
    <3>3. QED
      BY <3>1, <3>2 DEF RowOK, Waiters
  <2>2. CASE j # i
    <3>1. table'[j] = table[j] /\ Live(j)
      BY <1>1, <1>5, <2>2 DEF Live
    <3>2. RowOK(table[j], Waiters(table[j].mask))
      BY <3>1 DEF OwedRows
    <3>3. table[j].mask \in Masks \ {m}
      BY <1>2, <2>2, <3>2 DEF RowOK
    <3>4. Waiters(table[j].mask)' = Waiters(table[j].mask)
      <4> DEFINE k == table[j].mask
      <4>1. \A m2 \in Masks \ {m} :
               {u \in Threads : phase'[u] # "run" /\ syncing'[u] = m2} = Waiters(m2)
        BY DEF Waiters
      <4>2. {u \in Threads : phase'[u] # "run" /\ syncing'[u] = k} = Waiters(k)
        BY <3>3, <4>1
      <4>3. QED
        BY <3>1, <4>2 DEF Waiters
    <3>5. QED
      BY <3>1, <3>2, <3>4 DEF RowOK
  <2>3. QED
    BY <2>1, <2>2
<1>6. QED
  BY <1>3, <1>4, <1>5 DEF OwedRows

\* A call of check_sync_table by t keeps the invariant, provided t was not a
\* waiter of another mask, and is one of m afterwards unless it may pass.
LEMMA CallKeepsRowInv ==
    ASSUME TypeOK, OwedRows, NEW t \in Threads, NEW m \in Masks, t \in m,
           NEW go \in BOOLEAN, CheckSyncTable(m, t, go),
           \A m2 \in Masks \ {m} :
               Waiters(m2)' = Waiters(m2) /\ t \notin Waiters(m2),
           Waiters(m) \ {t} \subseteq Waiters(m)',
           ~go => Waiters(m)' = Waiters(m) \union {t},
           IsFiniteSet(Waiters(m)')
    PROVE  OwedRows'
<1>1. /\ m \in SUBSET Threads /\ m # {}
      /\ Cardinality(m) \in Nat
  BY SyncConstants, MasksFinite
<1>2. Cardinality(Waiters(m)') \in Nat
  BY FS_CardinalityType
<1>3. Cardinality(Waiters(m)') >= Cardinality(Waiters(m)) - 1
  <2>1. IsFiniteSet(Waiters(m)) /\ Cardinality(Waiters(m)) \in Nat
    BY <1>1, WaitersInMask
  <2>2. /\ IsFiniteSet(Waiters(m) \ {t})
        /\ Cardinality(Waiters(m) \ {t}) \in Nat
        /\ Cardinality(Waiters(m) \ {t}) >= Cardinality(Waiters(m)) - 1
    <3>1. /\ IsFiniteSet(Waiters(m) \ {t})
          /\ Cardinality(Waiters(m) \ {t}) =
                IF t \in Waiters(m) THEN Cardinality(Waiters(m)) - 1
                                    ELSE Cardinality(Waiters(m))
      BY <2>1, FS_RemoveElement, Zenon
    <3>2. Cardinality(Waiters(m) \ {t}) \in Nat
      BY <3>1, FS_CardinalityType
    <3>3. QED
      BY <2>1, <3>1, <3>2
  <2>3. Cardinality(Waiters(m) \ {t}) <= Cardinality(Waiters(m)')
    BY FS_Subset
  <2>4. QED
    BY <1>2, <2>1, <2>2, <2>3
<1>4. ASSUME NEW i \in Rows, table[i].mask = m, PassRow(i, m), go
      PROVE  OwedRows'
  <2> DEFINE passed == table[i].passed + 1
             r == [mask    |-> IF passed = Cardinality(m) THEN {} ELSE m,
                   pending |-> {},
                   passed  |-> passed]
  <2>1. table' = [table EXCEPT ![i] = r] /\ smashed' = smashed
    BY <1>4 DEF PassRow
  <2>2. table[i].passed \in Nat /\ table[i].pending = {}
    BY <1>4 DEF TypeOK, RowType, PassRow
  <2>3. r \in RowType
    BY <1>1, <2>2 DEF RowType
  <2>4. /\ table[i].passed < Cardinality(m)
        /\ Cardinality(Waiters(m)) + table[i].passed >= Cardinality(m)
    BY <1>1, <1>4, <2>2 DEF OwedRows, RowOK, Live
  <2>5. Cardinality(Waiters(m)) \in Nat
    BY <1>1, WaitersInMask
  <2>6. r.mask = m => RowOK(r, Waiters(m)')
    BY <1>1, <1>2, <1>3, <2>2, <2>4, <2>5 DEF RowOK
  <2>7. QED
    BY <1>4, <2>1, <2>3, <2>6, RowWritten
<1>5. ASSUME NEW i \in Rows, table[i].mask = m, ClearBit(i, m, t), ~go
      PROVE  OwedRows'
  <2> DEFINE r == [mask |-> m, pending |-> table[i].pending \ {t},
                   passed |-> table[i].passed]
  <2>1. table' = [table EXCEPT ![i] = r] /\ smashed' = smashed
    BY <1>5 DEF ClearBit
  <2>2. table[i] \in RowType /\ table[i].pending # {}
    BY <1>5 DEF TypeOK, ClearBit
  <2>3. r \in RowType
    BY <1>1, <2>2 DEF RowType
  <2>4. /\ table[i].pending \subseteq m
        /\ table[i].passed = 0
        /\ m \ table[i].pending \subseteq Waiters(m)
    BY <1>1, <1>5, <2>2 DEF OwedRows, RowOK, Live
  <2>5. m \ r.pending \subseteq Waiters(m)' /\ Waiters(m)' # {}
    BY <1>5, <2>4
  <2>6. Cardinality(m) > 0
    BY <1>1, MasksFinite
  <2>7. r.pending = {} => Cardinality(Waiters(m)') >= Cardinality(m)
    BY <2>5, FS_Subset
  <2>8. RowOK(r, Waiters(m)')
    BY <1>1, <1>2, <2>4, <2>5, <2>6, <2>7 DEF RowOK
  <2>9. QED
    BY <1>5, <2>1, <2>3, <2>8, RowWritten
<1>6. ASSUME \A i \in Rows : table[i].mask # m, ~go,
             NEW i \in Rows, table[i].mask = {}, smashed' = smashed,
             table' = [table EXCEPT ![i] = [mask |-> m, pending |-> m, passed |-> 0]]
      PROVE  OwedRows'
  <2> DEFINE r == [mask |-> m, pending |-> m, passed |-> 0]
  <2>1. r \in RowType
    BY <1>1 DEF RowType
  <2>2. RowOK(r, Waiters(m)')
    BY <1>1, <1>6 DEF RowOK
  <2>3. QED
    BY <1>6, <2>1, <2>2, RowWritten
<1>7. ~ \A i \in Rows : table[i].mask # m /\ table[i].mask # {}
  BY FreeRowExists
<1>8. QED
  BY <1>4, <1>5, <1>6, <1>7, CheckEffect

\* A visit of t, which was at a SYNC on m or at none, moves only t in and out
\* of the waiters of m, and no thread in or out of those of another mask.
LEMMA OnlyCallerMoves ==
    ASSUME NEW t \in Threads, NEW m \in Masks,
           phase[t] = "run" \/ syncing[t] = m,
           syncing'[t] = m,
           \A u \in Threads \ {t} : phase'[u] = phase[u] /\ syncing'[u] = syncing[u]
    PROVE  /\ \A m2 \in Masks \ {m} :
                 Waiters(m2)' = Waiters(m2) /\ t \notin Waiters(m2)
           /\ Waiters(m) \ {t} \subseteq Waiters(m)'
           /\ phase'[t] # "run" => Waiters(m)' = Waiters(m) \union {t}
           /\ IsFiniteSet(Waiters(m)')
<1>1. ASSUME NEW m2 \in Masks \ {m}
      PROVE  Waiters(m2)' = Waiters(m2) /\ t \notin Waiters(m2)
  BY DEF Waiters
<1>2. Waiters(m) \ {t} \subseteq Waiters(m)'
  BY DEF Waiters
<1>3. ASSUME phase'[t] # "run"
      PROVE  Waiters(m)' = Waiters(m) \union {t}
  BY <1>3 DEF Waiters
<1>4. Waiters(m)' \in SUBSET Threads
  BY DEF Waiters
<1>5. IsFiniteSet(Waiters(m)')
  BY <1>4, MasksFinite
<1>6. QED
  BY <1>1, <1>2, <1>3, <1>5

\* A poll by t keeps the invariant.
LEMMA PollKeepsRowInv ==
    ASSUME TypeOK, OwedRows, NEW t \in Threads, NEW m \in Masks, t \in m,
           phase[t] = "run" \/ syncing[t] = m,
           syncing'[t] = m,
           \A u \in Threads \ {t} : syncing'[u] = syncing[u],
           Poll(t, m)
    PROVE  OwedRows'
<1>1. CASE CheckSyncTable(m, t, TRUE) /\ phase' = [phase EXCEPT ![t] = "run"]
  <2>1. \A u \in Threads \ {t} : phase'[u] = phase[u]
    BY <1>1 DEF TypeOK
  <2>2. QED
    BY <1>1, <2>1, OnlyCallerMoves, CallKeepsRowInv
<1>2. CASE CheckSyncTable(m, t, FALSE) /\ phase' = [phase EXCEPT ![t] = "sync"]
  <2>1. phase'[t] # "run" /\ \A u \in Threads \ {t} : phase'[u] = phase[u]
    BY <1>2 DEF TypeOK
  <2>2. QED
    BY <1>2, <2>1, OnlyCallerMoves, CallKeepsRowInv
<1>3. QED
  BY <1>1, <1>2, PollEffect

\* Whatever visits are lost to fetch stalls and whatever traps hit the waiting
\* threads, as long as their handlers return to the SYNC, check_sync_table has
\* a row for every barrier and no row is left without a waiter.
THEOREM RowsOwed == Spec => []RowInv
<1>1. Init => RowInv
  <2> SUFFICES ASSUME Init PROVE OwedRows
    BY DEF RowInv
  <2>1. \A i \in Rows : table[i].mask = {}
    BY DEF Init, FreeRow
  <2>2. ~smashed
    BY Zenon DEF Init
  <2>3. QED
    BY <2>1, <2>2 DEF OwedRows, OneRowPerMask, Live
<1>2. TypeOK /\ RowInv /\ [Next]_vars => RowInv'
  <2> SUFFICES ASSUME TypeOK, RowInv, [Next]_vars, ~abandoned' PROVE OwedRows'
    BY DEF RowInv
  <2>1. ASSUME OwedRows, table' = table, smashed' = smashed,
               \A k : Waiters(k)' = Waiters(k)
        PROVE  OwedRows'
    BY <2>1 DEF OwedRows, OneRowPerMask, Live, RowOK
  <2>2. CASE UNCHANGED vars
    <3>1. OwedRows
      BY <2>2, Zenon DEF RowInv, vars
    <3>2. QED
      BY <2>1, <2>2, <3>1 DEF vars, Waiters
  <2>3. ASSUME NEW t \in Threads, Visit(t) PROVE OwedRows'
    <3>1. CASE Abandon(t)
      BY <3>1, Zenon DEF Abandon
    <3>2. CASE Compute(t) \/ FetchStalled(t)
      <4>1. OwedRows
        BY <3>2, Zenon DEF RowInv, Compute, FetchStalled
      <4>2. QED
        BY <2>1, <3>2, <4>1 DEF Compute, FetchStalled, Waiters
    <3>3. CASE Resume(t)
      <4>1. OwedRows
        BY <3>3, Zenon DEF RowInv, Resume
      <4>2. QED
        BY <2>1, <3>3, <4>1 DEF Resume, Waiters, TypeOK
    <3>4. CASE StartSync(t)
      <4>1. PICK m \in Masks :
               /\ t \in m
               /\ syncing' = [syncing EXCEPT ![t] = m]
               /\ Poll(t, m)
        BY <3>4 DEF StartSync
      <4>2. syncing'[t] = m /\ \A u \in Threads \ {t} : syncing'[u] = syncing[u]
        BY <4>1 DEF TypeOK
      <4>3. phase[t] = "run"
        BY <3>4 DEF StartSync
      <4>4. OwedRows
        BY <3>4, Zenon DEF RowInv, StartSync
      <4>5. QED
        BY <4>1, <4>2, <4>3, <4>4, PollKeepsRowInv
    <3>5. CASE RetrySync(t)
      <4>1. syncing[t] \in Masks /\ t \in syncing[t] /\ Poll(t, syncing[t])
        BY <3>5 DEF RetrySync, TypeOK
      <4>2. syncing' = syncing
        BY <3>5 DEF RetrySync
      <4>3. OwedRows
        BY <3>5, Zenon DEF RowInv, RetrySync
      <4>4. QED
        BY <4>1, <4>2, <4>3, PollKeepsRowInv
    <3>6. CASE TrapAtSync(t) \/ EnterHandler(t)
      <4> DEFINE m == syncing[t]
      <4>1. m \in Masks /\ t \in m /\ phase[t] # "run"
        BY <3>6 DEF TrapAtSync, EnterHandler, TypeOK
      <4>2. PICK go \in BOOLEAN : CheckSyncTable(m, t, go)
        BY <3>6 DEF TrapAtSync, EnterHandler
      <4>3. /\ syncing' = syncing
            /\ phase'[t] # "run"
            /\ \A u \in Threads \ {t} : phase'[u] = phase[u]
        BY <3>6 DEF TrapAtSync, EnterHandler, TypeOK
      <4>4. OwedRows
        BY <3>6, Zenon DEF RowInv, TrapAtSync, EnterHandler
      <4>5. QED
        BY <4>1, <4>2, <4>3, <4>4, OnlyCallerMoves, CallKeepsRowInv
    <3>7. CASE TrapAtStart(t)
      <4>1. PICK m \in Masks :
               /\ t \in m
               /\ syncing' = [syncing EXCEPT ![t] = m]
               /\ \E go \in BOOLEAN : CheckSyncTable(m, t, go)
        BY <3>7 DEF TrapAtStart
      <4>2. PICK go \in BOOLEAN : CheckSyncTable(m, t, go)
        BY <4>1
      <4>3. syncing'[t] = m /\ \A u \in Threads \ {t} : syncing'[u] = syncing[u]
        BY <4>1 DEF TypeOK
      <4>4. /\ phase[t] = "run" /\ phase'[t] # "run"
            /\ \A u \in Threads \ {t} : phase'[u] = phase[u]
        BY <3>7 DEF TrapAtStart, TypeOK
      <4>5. OwedRows
        BY <3>7, Zenon DEF RowInv, TrapAtStart
      <4>6. QED
        BY <4>1, <4>2, <4>3, <4>4, <4>5, OnlyCallerMoves, CallKeepsRowInv
    <3>8. QED
      BY <2>3, <3>1, <3>2, <3>3, <3>4, <3>5, <3>6, <3>7 DEF Visit
  <2>4. QED
    BY <2>2, <2>3 DEF Next
<1>3. QED
  BY <1>1, <1>2, TypeCorrect, PTL DEF Spec

\* check_sync_table never writes row -1 while handlers return to the SYNC.
THEOREM TableNeverOverflows == Spec => []TableNeverFull
<1>1. RowInv => TableNeverFull
  BY DEF RowInv, OwedRows, TableNeverFull
<1>2. QED
  BY <1>1, RowsOwed, PTL

\* No row outlives its barrier while handlers return to the SYNC.
THEOREM RowsHaveWaiters == Spec => []LiveRowHasWaiter
<1>1. TypeOK /\ OwedRows => \A i \in Rows : Live(i) => Waiters(table[i].mask) # {}
  BY RowHasWaiter DEF OwedRows
<1>2. TypeOK /\ RowInv => LiveRowHasWaiter
  BY <1>1, Zenon DEF RowInv, LiveRowHasWaiter
<1>3. QED
  BY <1>2, RowsOwed, TypeCorrect, PTL
-----------------------------------------------------------------------------
(* The table is a barrier when no visit is lost                             *)

\* No visit is lost: no fetch is stalled, and no trap hits a waiting thread.
Lockstep == ~FetchStalls /\ ~Traps

\* The threads in the order in which the controller visits them next.
Due(u) == IF u >= turn THEN u ELSE u + NumThreads

\* All threads of m have counted alike.
Together(count, m) == \A u, v \in m : count[u][m] = count[v][m]

\* A thread has started one SYNC more than it has left while it is at one.
CountsAgree ==
    \A u \in Threads, m \in Masks :
        arrived[u][m] = left[u][m] + (IF u \in Waiters(m) THEN 1 ELSE 0)

\* Without a row nobody is at the barrier.
NobodyAt(m) == Waiters(m) = {} /\ Together(left, m)

\* While bits are pending, whoever has polled is waiting, and nobody has left.
Gathering(m, r) ==
    /\ r.passed = 0
    /\ m \ r.pending \subseteq Waiters(m)
    /\ Together(left, m)

\* Once all have polled, those that passed are counted, and each of them is
\* visited after all that wait: nobody can be at the barrier again before the
\* last has passed.  This is where the round robin matters.
Leaving(m, r) ==
    /\ r.passed = Cardinality(m \ Waiters(m))
    /\ Waiters(m) # {}
    /\ Together(arrived, m)
    /\ \A w \in Waiters(m), q \in m \ Waiters(m) : Due(w) < Due(q)

Round(m) ==
    /\ (\A i \in Rows : table[i].mask # m) => NobodyAt(m)
    /\ \A i \in Rows : table[i].mask = m =>
          /\ table[i].pending # {} => Gathering(m, table[i])
          /\ table[i].pending = {} => Leaving(m, table[i])

BarrierInv ==
    /\ \A t \in Threads : phase[t] \in {"run", "sync"}
    /\ ~abandoned
    /\ CountsAgree
    /\ \A m \in Masks : Round(m)

\* The thread that is visited is the first that is due, and then the last.
LEMMA VisitedGoesLast ==
    ASSUME TypeOK, NEW t \in Threads, NextTurn(t)
    PROVE  /\ \A u \in Threads : Due(t) <= Due(u)
           /\ \A u \in Threads \ {t} : Due(u)' < Due(t)'
           /\ \A u, v \in Threads \ {t} : Due(u) < Due(v) => Due(u)' < Due(v)'
<1> USE SyncConstants DEF Threads
<1>1. turn = t /\ turn' = (turn + 1) % NumThreads
  BY DEF NextTurn
<1>2. turn' = IF t + 1 = NumThreads THEN 0 ELSE t + 1
  <2>1. CASE t + 1 = NumThreads
    BY <1>1, <2>1
  <2>2. CASE t + 1 < NumThreads
    BY <1>1, <2>2
  <2>3. QED
    BY <2>1, <2>2
<1>3. QED
  BY <1>1, <1>2 DEF Due

\* A visit that leaves the row and the counts of a mask alone leaves its round
\* where it is, if the thread visited is not at the barrier.
LEMMA RoundStays ==
    ASSUME TypeOK, NEW m \in Masks, Round(m), NEW t \in Threads, NextTurn(t),
           t \notin Waiters(m), Waiters(m)' = Waiters(m),
           \A i \in Rows : table[i].mask = m \/ table'[i].mask = m => table'[i] = table[i],
           \A u \in m : arrived'[u][m] = arrived[u][m] /\ left'[u][m] = left[u][m]
    PROVE  Round(m)'
<1>1. m \in SUBSET Threads
  BY SyncConstants
<1>2. Together(arrived, m) => Together(arrived', m)
  BY DEF Together
<1>3. Together(left, m) => Together(left', m)
  BY DEF Together
<1>4. ASSUME \A w \in Waiters(m), q \in m \ Waiters(m) : Due(w) < Due(q)
      PROVE  \A w \in Waiters(m), q \in m \ Waiters(m) : Due(w)' < Due(q)'
  <2> SUFFICES ASSUME NEW w \in Waiters(m), NEW q \in m \ Waiters(m)
               PROVE  Due(w)' < Due(q)'
    OBVIOUS
  <2>1. w \in Threads \ {t} /\ q \in Threads
    BY <1>1 DEF Waiters
  <2>2. QED
    BY <1>4, <2>1, VisitedGoesLast
<1>5. (\A i \in Rows : table'[i].mask # m) => NobodyAt(m)'
  BY <1>3 DEF Round, NobodyAt, Together
<1>6. ASSUME NEW i \in Rows, table'[i].mask = m
      PROVE  /\ table'[i].pending # {} => Gathering(m, table[i])'
             /\ table'[i].pending = {} => Leaving(m, table[i])'
  <2>1. table'[i] = table[i]
    BY <1>6
  <2>2. CASE table[i].pending # {}
    BY <1>3, <1>6, <2>1, <2>2 DEF Round, Gathering, Together
  <2>3. CASE table[i].pending = {}
    <3>1. Leaving(m, table[i])
      BY <1>6, <2>1, <2>3 DEF Round
    <3>2. \A w \in Waiters(m)', q \in m \ Waiters(m)' : Due(w)' < Due(q)'
      BY <1>4, <3>1 DEF Leaving
    <3>3. QED
      BY <1>2, <2>1, <2>3, <3>1, <3>2 DEF Leaving, Together
  <2>4. QED
    BY <2>1, <2>2, <2>3
<1>7. QED
  BY <1>5, <1>6 DEF Round

\* A thread that starts a SYNC never finds a row that lets it pass.
LEMMA StarterWaits ==
    ASSUME TypeOK, NEW m \in Masks, Round(m), NEW t \in m, t \notin Waiters(m),
           NextTurn(t), NEW i \in Rows, table[i].mask = m
    PROVE  table[i].pending # {}
<1> SUFFICES ASSUME table[i].pending = {} PROVE FALSE
  OBVIOUS
<1>1. Leaving(m, table[i]) /\ m \in SUBSET Threads
  BY SyncConstants DEF Round
<1>2. PICK w \in Waiters(m) : Due(w) < Due(t)
  BY <1>1 DEF Leaving
<1>3. w \in Threads /\ Due(t) <= Due(w)
  BY <1>1, VisitedGoesLast DEF Waiters
<1>4. Due(t) \in Int /\ Due(w) \in Int
  BY <1>1, <1>3, SyncConstants DEF Due, Threads, TypeOK
<1>5. QED
  BY <1>2, <1>3, <1>4

\* A pass keeps the round: the row counts one more, or it was the last.
LEMMA PassKeepsRound ==
    ASSUME TypeOK, TypeOK', OneRowPerMask, NEW m \in Masks, Round(m), CountsAgree',
           NEW t \in Waiters(m), NextTurn(t), Waiters(m)' = Waiters(m) \ {t},
           NEW i \in Rows, table[i].mask = m, PassRow(i, m), arrived' = arrived
    PROVE  Round(m)'
<1>1. m \in SUBSET Threads /\ m # {} /\ IsFiniteSet(m) /\ t \in m /\ t \in Threads
  BY SyncConstants, MasksFinite, WaitersInMask
<1>2. Leaving(m, table[i]) /\ table[i].passed \in Nat
  BY DEF Round, PassRow, TypeOK, RowType
<1>3. m \ Waiters(m)' = (m \ Waiters(m)) \union {t}
  BY <1>1
<1>4. /\ IsFiniteSet(m \ Waiters(m)) /\ IsFiniteSet(m \ Waiters(m)')
      /\ Cardinality(m \ Waiters(m)') = table[i].passed + 1
  <2>1. IsFiniteSet(m \ Waiters(m)) /\ t \notin m \ Waiters(m)
    BY <1>1, FS_Subset
  <2>2. Cardinality(m \ Waiters(m)) = table[i].passed
    BY <1>2 DEF Leaving
  <2>3. Cardinality((m \ Waiters(m)) \union {t}) = Cardinality(m \ Waiters(m)) + 1
    BY <2>1, FS_AddElement
  <2>4. IsFiniteSet((m \ Waiters(m)) \union {t})
    BY <2>1, FS_AddElement
  <2>5. Cardinality(m \ Waiters(m)') = table[i].passed + 1
    BY <1>3, <2>2, <2>3
  <2>6. IsFiniteSet(m \ Waiters(m)')
    BY <1>3, <2>4
  <2>7. QED
    BY <2>1, <2>5, <2>6
<1>5. Cardinality(m \ Waiters(m)') = Cardinality(m) <=> Waiters(m)' = {}
  <2>1. Waiters(m)' \subseteq m
    BY <1>1, WaitersInMask
  <2>2. Cardinality(m \ Waiters(m)') = Cardinality(m) <=> m \ Waiters(m)' = m
    BY <1>1, FS_Subset
  <2>3. QED
    BY <2>1, <2>2
<1>6. Together(arrived', m)
  BY <1>2 DEF Leaving, Together
<1>7. \A j \in Rows \ {i} : table'[j] = table[j] /\ table'[j].mask # m
  BY <1>1 DEF PassRow, TypeOK, OneRowPerMask, Live
<1>8. CASE table[i].passed + 1 = Cardinality(m)
  <2>1. table'[i].mask = {}
    BY <1>8 DEF PassRow, TypeOK
  <2>2. Waiters(m)' = {}
    BY <1>4, <1>5, <1>8
  <2>3. \A u \in m : arrived'[u][m] = left'[u][m] + 0
    BY <1>1, <2>2 DEF CountsAgree
  <2>4. \A u \in m : left'[u][m] = arrived'[u][m]
    <3>1. \A u \in m : left'[u][m] \in Int
      BY <1>1 DEF TypeOK
    <3>2. QED
      BY <2>3, <3>1
  <2>5. Together(left', m)
    BY <1>6, <2>4 DEF Together
  <2>6. QED
    BY <1>1, <1>7, <2>1, <2>2, <2>5 DEF Round, NobodyAt, Together
<1>9. CASE table[i].passed + 1 # Cardinality(m)
  <2>1. table'[i] = [mask |-> m, pending |-> {}, passed |-> table[i].passed + 1]
    BY <1>9 DEF PassRow, TypeOK
  <2>2. Waiters(m)' # {}
    BY <1>4, <1>5, <1>9
  <2>3. ASSUME NEW w \in Waiters(m)', NEW q \in m \ Waiters(m)'
        PROVE  Due(w)' < Due(q)'
    <3>1. w \in Waiters(m) /\ w \in Threads \ {t} /\ q \in Threads
      BY <1>1 DEF Waiters
    <3>2. CASE q = t
      BY <3>1, <3>2, VisitedGoesLast
    <3>3. CASE q # t
      <4>1. q \in m \ Waiters(m) /\ q \in Threads \ {t}
        BY <1>3, <3>1, <3>3
      <4>2. Due(w) < Due(q)
        BY <1>2, <3>1, <4>1 DEF Leaving
      <4>3. \A u, v \in Threads \ {t} : Due(u) < Due(v) => Due(u)' < Due(v)'
        BY <1>1, VisitedGoesLast
      <4>4. QED
        BY <3>1, <4>1, <4>2, <4>3
    <3>4. QED
      BY <3>2, <3>3
  <2>4. Leaving(m, table[i])'
    BY <1>4, <1>6, <2>1, <2>2, <2>3 DEF Leaving, Together
  <2>5. QED
    BY <1>7, <2>1, <2>4 DEF Round
<1>10. QED
  BY <1>8, <1>9

\* A visit that leaves the caller waiting keeps the round: its bit is cleared,
\* the last bit opens the barrier, or the caller is the first to come.
LEMMA WaitKeepsRound ==
    ASSUME TypeOK, OneRowPerMask, NEW m \in Masks, Round(m), CountsAgree', TypeOK',
           NEW t \in m, Waiters(m)' = Waiters(m) \union {t}, left' = left,
           CheckSyncTable(m, t, FALSE), ~smashed'
    PROVE  Round(m)'
<1>1. m \in SUBSET Threads /\ m # {}
  BY SyncConstants
<1>2. Together(left, m) => Together(left', m)
  BY DEF Together
<1>3. ASSUME NEW i \in Rows, table[i].mask = m, ClearBit(i, m, t)
      PROVE  Round(m)'
  <2>1. /\ table'[i] = [mask |-> m, pending |-> table[i].pending \ {t},
                         passed |-> table[i].passed]
        /\ \A j \in Rows \ {i} : table'[j] = table[j] /\ table'[j].mask # m
    BY <1>1, <1>3 DEF ClearBit, TypeOK, OneRowPerMask, Live
  <2>2. Gathering(m, table[i])
    BY <1>3 DEF Round, ClearBit
  <2>3. m \ (table[i].pending \ {t}) \subseteq Waiters(m)'
    BY <2>2 DEF Gathering
  <2>4. Gathering(m, table[i])'
    BY <1>2, <2>1, <2>2, <2>3 DEF Gathering, Together
  <2>5. ASSUME table'[i].pending = {}
        PROVE  Leaving(m, table[i])'
    <3>1. m \subseteq Waiters(m)' /\ m \ Waiters(m)' = {}
      BY <2>1, <2>3, <2>5
    <3>2. \A u \in m : arrived'[u][m] = left'[u][m] + 1
      BY <1>1, <3>1 DEF CountsAgree
    <3>3. Together(arrived', m)
      BY <1>2, <2>2, <3>2 DEF Gathering, Together
    <3>4. table'[i].passed = 0
      BY <2>1, <2>2 DEF Gathering
    <3>5. Cardinality(m \ Waiters(m)') = 0
      BY <3>1, FS_EmptySet
    <3>6. QED
      BY <1>1, <3>1, <3>3, <3>4, <3>5 DEF Leaving, Together
  <2>6. QED
    BY <2>1, <2>4, <2>5 DEF Round
<1>4. ASSUME \A i \in Rows : table[i].mask # m, NEW i \in Rows,
             table' = [table EXCEPT ![i] = [mask |-> m, pending |-> m, passed |-> 0]]
      PROVE  Round(m)'
  <2>1. /\ table'[i] = [mask |-> m, pending |-> m, passed |-> 0]
        /\ \A j \in Rows \ {i} : table'[j] = table[j] /\ table'[j].mask # m
    BY <1>4 DEF TypeOK
  <2>2. Together(left', m)
    BY <1>2, <1>4 DEF Round, NobodyAt
  <2>3. Gathering(m, table[i])'
    BY <2>1, <2>2 DEF Gathering, Together
  <2>4. QED
    BY <1>1, <2>1, <2>3 DEF Round
<1>5. QED
  BY <1>3, <1>4, CheckEffect, Zenon

\* A call for one mask leaves the rows of the others alone.
LEMMA OtherRows ==
    ASSUME TypeOK, NEW m \in Masks, NEW t \in Threads, NEW go \in BOOLEAN,
           CheckSyncTable(m, t, go), NEW k \in Masks \ {m}
    PROVE  \A i \in Rows : table[i].mask = k \/ table'[i].mask = k => table'[i] = table[i]
<1>1. k # {} /\ k # m
  BY SyncConstants
<1>2. ASSUME NEW i \in Rows, table[i].mask = m, PassRow(i, m) \/ ClearBit(i, m, t)
      PROVE  \A j \in Rows : table[j].mask = k \/ table'[j].mask = k => table'[j] = table[j]
  <2>1. table'[i].mask \in {m, {}} /\ \A j \in Rows \ {i} : table'[j] = table[j]
    BY <1>2 DEF PassRow, ClearBit, TypeOK
  <2>2. QED
    BY <1>1, <1>2, <2>1
<1>3. ASSUME NEW i \in Rows, table[i].mask = {},
             table' = [table EXCEPT ![i] = [mask |-> m, pending |-> m, passed |-> 0]]
      PROVE  \A j \in Rows : table[j].mask = k \/ table'[j].mask = k => table'[j] = table[j]
  <2>1. table'[i].mask = m /\ \A j \in Rows \ {i} : table'[j] = table[j]
    BY <1>3 DEF TypeOK
  <2>2. QED
    BY <1>1, <1>3, <2>1
<1>4. QED
  BY <1>2, <1>3, CheckEffect, Zenon

\* A poll of m by t, which was at a SYNC on m or at none, keeps the invariant; a
\* thread that has just come waits, and one that leaves is owed by all of m.
LEMMA PollKeepsBarrier ==
    ASSUME TypeOK, TypeOK', OneRowPerMask, BarrierInv, ~smashed', ~abandoned',
           NEW t \in Threads, NextTurn(t), NEW m \in Masks, t \in m, Poll(t, m),
           phase[t] = "run" \/ syncing[t] = m, syncing'[t] = m,
           \A u \in Threads \ {t} : syncing'[u] = syncing[u],
           arrived' = IF phase[t] = "run" THEN [arrived EXCEPT ![t][m] = arrived[t][m] + 1]
                                          ELSE arrived
    PROVE  /\ BarrierInv'
           /\ \/ left' = left
              \/ /\ phase[t] # "run"
                 /\ left' = [left EXCEPT ![t][m] = left[t][m] + 1]
                 /\ \A u \in m : left[t][m] < arrived[u][m]
<1>1. m \in SUBSET Threads /\ m # {}
  BY SyncConstants
<1>2. t \in Waiters(m) <=> phase[t] # "run"
  BY DEF Waiters
<1>3. \A u \in m : arrived[u][m] = left[u][m] + (IF u \in Waiters(m) THEN 1 ELSE 0)
  BY <1>1 DEF BarrierInv, CountsAgree
<1>4. CASE /\ CheckSyncTable(m, t, TRUE)
           /\ phase' = [phase EXCEPT ![t] = "run"]
           /\ left' = [left EXCEPT ![t][m] = left[t][m] + 1]
  <2>1. PICK i \in Rows : table[i].mask = m /\ PassRow(i, m)
    BY <1>4, CheckEffect
  <2>2. table[i].pending = {} /\ Round(m)
    BY <2>1 DEF PassRow, BarrierInv
  <2>3. t \in Waiters(m)
    BY <2>1, <2>2, StarterWaits
  <2>4. Leaving(m, table[i])
    BY <2>1, <2>2 DEF Round
  <2>5. \A u \in m : left[t][m] < arrived[u][m]
    <3>1. arrived[t][m] = left[t][m] + 1
      BY <1>3, <2>3
    <3>2. \A u \in m : arrived[u][m] = arrived[t][m]
      BY <2>4 DEF Leaving, Together
    <3>3. left[t][m] \in Nat
      BY DEF TypeOK
    <3>4. QED
      BY <3>1, <3>2, <3>3
  <2>6. /\ phase'[t] = "run" /\ \A u \in Threads \ {t} : phase'[u] = phase[u]
        /\ phase[t] # "run" /\ arrived' = arrived
    BY <1>2, <1>4, <2>3 DEF TypeOK
  <2>7. /\ Waiters(m)' = Waiters(m) \ {t}
        /\ \A m2 \in Masks \ {m} : Waiters(m2)' = Waiters(m2) /\ t \notin Waiters(m2)
    BY <2>6 DEF Waiters
  <2>8. /\ left'[t][m] = left[t][m] + 1
        /\ \A u \in Threads, m2 \in Masks : u # t \/ m2 # m => left'[u][m2] = left[u][m2]
    BY <1>4 DEF TypeOK
  <2>9. CountsAgree'
    <3> SUFFICES ASSUME NEW u \in Threads, NEW k \in Masks
                 PROVE  arrived'[u][k] = left'[u][k] + (IF u \in Waiters(k)' THEN 1 ELSE 0)
      BY DEF CountsAgree
    <3>1. /\ arrived[u][k] = left[u][k] + (IF u \in Waiters(k) THEN 1 ELSE 0)
          /\ left[u][k] \in Nat
      BY DEF CountsAgree, BarrierInv, TypeOK
    <3>2. CASE u = t /\ k = m
      BY <2>3, <2>6, <2>7, <2>8, <3>1, <3>2
    <3>3. CASE u # t \/ k # m
      BY <2>6, <2>7, <2>8, <3>1, <3>3
    <3>4. QED
      BY <3>2, <3>3
  <2>10. Round(m)'
    BY <2>1, <2>2, <2>3, <2>6, <2>7, <2>9, PassKeepsRound
  <2>11. ASSUME NEW k \in Masks \ {m} PROVE Round(k)'
    <3>1. Round(k) /\ t \notin Waiters(k) /\ Waiters(k)' = Waiters(k) /\ k \in SUBSET Threads
      BY <2>7, SyncConstants DEF BarrierInv
    <3>2. \A j \in Rows : table[j].mask = k \/ table'[j].mask = k => table'[j] = table[j]
      BY <1>4, OtherRows
    <3>3. \A u \in k : arrived'[u][k] = arrived[u][k] /\ left'[u][k] = left[u][k]
      BY <2>6, <2>8, <3>1
    <3>4. QED
      BY <3>1, <3>2, <3>3, RoundStays
  <2>12. QED
    BY <1>4, <2>3, <2>5, <2>6, <2>9, <2>10, <2>11 DEF BarrierInv
<1>5. CASE /\ CheckSyncTable(m, t, FALSE)
           /\ phase' = [phase EXCEPT ![t] = "sync"]
           /\ left' = left
  <2>1. phase'[t] = "sync" /\ \A u \in Threads \ {t} : phase'[u] = phase[u]
    BY <1>5 DEF TypeOK
  <2>2. /\ Waiters(m)' = Waiters(m) \union {t}
        /\ \A m2 \in Masks \ {m} : Waiters(m2)' = Waiters(m2) /\ t \notin Waiters(m2)
    BY <2>1 DEF Waiters
  <2>3. /\ arrived'[t][m] = IF t \in Waiters(m) THEN arrived[t][m] ELSE arrived[t][m] + 1
        /\ \A u \in Threads, m2 \in Masks :
               u # t \/ m2 # m => arrived'[u][m2] = arrived[u][m2]
    BY <1>2 DEF TypeOK
  <2>4. CountsAgree'
    BY <1>5, <2>2, <2>3 DEF CountsAgree, BarrierInv, TypeOK
  <2>5. Round(m)'
    BY <1>5, <2>2, <2>4, WaitKeepsRound DEF BarrierInv
  <2>6. ASSUME NEW k \in Masks \ {m} PROVE Round(k)'
    <3>1. Round(k) /\ t \notin Waiters(k) /\ Waiters(k)' = Waiters(k) /\ k \in SUBSET Threads
      BY <2>2, SyncConstants DEF BarrierInv
    <3>2. \A j \in Rows : table[j].mask = k \/ table'[j].mask = k => table'[j] = table[j]
      BY <1>5, OtherRows
    <3>3. \A u \in k : arrived'[u][k] = arrived[u][k] /\ left'[u][k] = left[u][k]
      BY <2>3, <1>5, <3>1
    <3>4. QED
      BY <3>1, <3>2, <3>3, RoundStays
  <2>7. QED
    BY <1>5, <2>1, <2>4, <2>5, <2>6 DEF BarrierInv
<1>6. QED
  BY <1>4, <1>5, PollEffect, Zenon

\* Every visit keeps the invariant and is a step of the barrier or leaves it alone.
LEMMA VisitOfBarrier ==
    ASSUME Lockstep, TypeOK, TypeOK', OneRowPerMask, RowInv', BarrierInv,
           NEW t \in Threads, NextTurn(t), Visit(t)
    PROVE  BarrierInv' /\ [B!BarrierNext]_(B!barrierVars)
<1>1. phase[t] \in {"run", "sync"} /\ ~abandoned
  BY DEF BarrierInv
<1>2. ~abandoned' => ~smashed'
  BY Zenon DEF RowInv, OwedRows
<1>3. CASE Compute(t)
  <2>1. UNCHANGED <<table, phase, syncing, arrived, left, abandoned>> /\ phase[t] = "run"
    BY <1>1, <1>3 DEF Compute
  <2>2. \A k : Waiters(k)' = Waiters(k)
    BY <2>1 DEF Waiters
  <2>3. ASSUME NEW k \in Masks PROVE Round(k)'
    <3>1. Round(k) /\ t \notin Waiters(k) /\ Waiters(k)' = Waiters(k)
      BY <2>1, <2>2 DEF BarrierInv, Waiters
    <3>2. \A i \in Rows : table'[i] = table[i]
      BY <2>1
    <3>3. \A u \in k : arrived'[u][k] = arrived[u][k] /\ left'[u][k] = left[u][k]
      BY <2>1
    <3>4. QED
      BY <3>1, <3>2, <3>3, RoundStays
  <2>4. CountsAgree'
    BY <2>1, <2>2 DEF BarrierInv, CountsAgree
  <2>5. QED
    BY <1>1, <2>1, <2>3, <2>4 DEF BarrierInv, B!barrierVars
<1>4. CASE StartSync(t)
  <2>1. phase[t] = "run" /\ abandoned' = abandoned
    BY <1>4 DEF StartSync
  <2>2. PICK m \in Masks :
           /\ t \in m
           /\ arrived' = [arrived EXCEPT ![t][m] = arrived[t][m] + 1]
           /\ syncing' = [syncing EXCEPT ![t] = m]
           /\ Poll(t, m)
    BY <1>4, Zenon DEF StartSync
  <2>3. ~smashed' /\ ~abandoned'
    BY <1>1, <1>2, <2>1, Zenon
  <2>4. syncing'[t] = m /\ \A u \in Threads \ {t} : syncing'[u] = syncing[u]
    BY <2>2 DEF TypeOK
  <2>5. BarrierInv' /\ left' = left
    BY <2>1, <2>2, <2>3, <2>4, PollKeepsBarrier
  <2>6. arrived[t][m] = left[t][m]
    <3>1. t \notin Waiters(m)
      BY <2>1 DEF Waiters
    <3>2. arrived[t][m] = left[t][m] + 0 /\ left[t][m] \in Nat
      BY <3>1 DEF BarrierInv, CountsAgree, TypeOK
    <3>3. QED
      BY <3>2
  <2>7. B!Arrive(t, m)
    BY <2>2, <2>5, <2>6 DEF B!Arrive
  <2>8. QED
    BY <2>2, <2>5, <2>7 DEF B!BarrierNext
<1>5. CASE RetrySync(t)
  <2> DEFINE m == syncing[t]
  <2>1. /\ phase[t] = "sync" /\ abandoned' = abandoned
        /\ syncing' = syncing /\ arrived' = arrived
        /\ Poll(t, m)
    BY <1>5 DEF RetrySync
  <2>2. m \in Masks /\ t \in m
    BY <2>1 DEF TypeOK
  <2>3. ~smashed' /\ ~abandoned'
    BY <1>1, <1>2, <2>1, Zenon
  <2>4. /\ BarrierInv'
        /\ \/ left' = left
           \/ /\ left' = [left EXCEPT ![t][m] = left[t][m] + 1]
              /\ \A u \in m : left[t][m] < arrived[u][m]
    <3>1. phase[t] # "run" /\ syncing'[t] = m /\ \A u \in Threads \ {t} : syncing'[u] = syncing[u]
      BY <2>1
    <3>2. QED
      BY <2>1, <2>2, <2>3, <3>1, PollKeepsBarrier
  <2>5. CASE left' = left
    BY <2>1, <2>4, <2>5 DEF B!barrierVars
  <2>6. CASE /\ left' = [left EXCEPT ![t][m] = left[t][m] + 1]
             /\ \A u \in m : left[t][m] < arrived[u][m]
    <3>1. B!Leave(t, m)
      BY <2>1, <2>2, <2>6 DEF B!Leave, B!Inside
    <3>2. QED
      BY <2>2, <2>4, <3>1 DEF B!BarrierNext
  <2>7. QED
    BY <2>4, <2>5, <2>6
<1>6. QED
  BY <1>1, <1>3, <1>4, <1>5 DEF Visit, Lockstep, FetchStalled, TrapAtStart,
     TrapAtSync, EnterHandler, Resume, Abandon

\* Without lost visits the table is the barrier that SYNC promises: a thread
\* leaves its n-th SYNC on a mask only when all of them have come to theirs.
THEOREM TableIsBarrier ==
    ASSUME Lockstep
    PROVE  Spec => BarrierSafe
<1>1. Init => BarrierInv /\ B!BarrierInit
  <2> SUFFICES ASSUME Init PROVE BarrierInv /\ B!BarrierInit
    OBVIOUS
  <2>1. \A k : Waiters(k) = {}
    BY DEF Init, Waiters
  <2>2. CountsAgree
    BY <2>1 DEF Init, CountsAgree
  <2>3. ASSUME NEW k \in Masks PROVE Round(k)
    <3>1. k \in SUBSET Threads /\ k # {}
      BY SyncConstants
    <3>2. Together(left, k)
      BY <3>1 DEF Init, Together
    <3>3. \A i \in Rows : table[i].mask # k
      BY <3>1 DEF Init, FreeRow
    <3>4. QED
      BY <2>1, <3>2, <3>3 DEF Round, NobodyAt
  <2>4. B!BarrierInit
    BY DEF Init, B!BarrierInit
  <2>5. ~abandoned /\ \A t \in Threads : phase[t] \in {"run", "sync"}
    BY DEF Init
  <2>6. QED
    BY <2>2, <2>3, <2>4, <2>5 DEF BarrierInv
<1>2. TypeOK /\ TypeOK' /\ OneRowPerMask /\ RowInv' /\ BarrierInv /\ [Next]_vars
          => BarrierInv' /\ [B!BarrierNext]_(B!barrierVars)
  <2> SUFFICES ASSUME TypeOK, TypeOK', OneRowPerMask, RowInv', BarrierInv, [Next]_vars
               PROVE  BarrierInv' /\ [B!BarrierNext]_(B!barrierVars)
    OBVIOUS
  <2>1. CASE UNCHANGED vars
    BY <2>1 DEF vars, BarrierInv, CountsAgree, Round, NobodyAt, Gathering, Leaving, Together,
       Waiters, Due, B!barrierVars
  <2>2. ASSUME NEW t \in Threads, NextTurn(t), Visit(t)
        PROVE  BarrierInv' /\ [B!BarrierNext]_(B!barrierVars)
    BY <2>2, VisitOfBarrier
  <2>3. QED
    BY <2>1, <2>2 DEF Next
<1>3. QED
  BY <1>1, <1>2, TypeCorrect, RowsUnambiguous, RowsOwed, PTL
     DEF Spec, BarrierSafe, B!BarrierSpec
=============================================================================
