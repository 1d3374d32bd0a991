---------------------------- MODULE StaticSchedule ----------------------------
(***************************************************************************)
(* The allocation of scratchpads by revisions: generate_alloc.py runs the  *)
(* tests and static_schedule.py again and again, and what one invocation   *)
(* leaves for the next is files.  The first revision puts everything of    *)
(* the blocks that missed their deadline into the scratchpads, to see      *)
(* whether that is enough; the later ones add what costs most, IAlloc      *)
(* instructions and DAlloc addresses at a time.                            *)
(*                                                                         *)
(* runtest.sh, which runs the simulator on the tests, is not in the        *)
(* repository, and neither are the tests: what the profiles say is an      *)
(* input of every invocation.  It does not depend on the files here: they  *)
(* name every address as both ends of a range, and load_spm loads nothing  *)
(* for such a line (static_bound_parser.cpp:72).  Deadlines are met        *)
(* because a test or a program was changed between the invocations.        *)
(***************************************************************************)
EXTENDS Integers, FiniteSets, FiniteSetTheorems, TLAPS

CONSTANTS
    Tests, Blocks, Insts, Datas,
    Loops,         \* the blocks that are loops, the others are sequences
    Profiles,      \* what the simulator may report of the tests
    ISize, DSize,  \* spm_size and dspm_size, 0 when without a limit
    IAlloc, DAlloc     \* spm_alloc and dspm_alloc

ASSUME SizesAssumption ==
    /\ ISize \in Nat /\ DSize \in Nat /\ IAlloc \in Nat /\ DAlloc \in Nat
    /\ IsFiniteSet(Insts) /\ IsFiniteSet(Datas)

\* A test executes instructions and accesses data a number of times in a block,
\* and misses the deadlines of some.
ASSUME ProfilesAssumption ==
    \A p \in Profiles :
        /\ p.pcs \in [Tests -> [Blocks -> [Insts -> Nat]]]
        /\ p.reads \in [Tests -> [Blocks -> [Datas -> Nat]]]
        /\ p.writes \in [Tests -> [Blocks -> [Datas -> Nat]]]
        /\ p.missed \in [Tests -> SUBSET Blocks]

VARIABLES
    order,         \* the order of dict's keys, which are the tests
    profile,       \* what an invocation has loaded of the tests' .pkl files
    ispm, dspm,    \* the addresses of the lines of the allocation files
    saved,         \* the .rev file
    pickled,       \* the .pkl file of the last revision
    phase, driver  \* of an invocation, and of generate_alloc.py

vars == <<order, profile, ispm, dspm, saved, pickled, phase, driver>>

NoList == [held |-> {}, len |-> 0]
\* The files are not read yet, or one of them cannot be opened.
NoProfile == [missed |-> [t \in Tests |-> {}]]

Init ==
    /\ order \in {o \in [1..Cardinality(Tests) -> Tests] :
                     \A i, j \in DOMAIN o : o[i] = o[j] => i = j}
    /\ profile = NoProfile
    /\ ispm = {} /\ dspm = {}
    /\ saved = [exists |-> FALSE, feasability |-> "PENDING", missed |-> FALSE]
    /\ pickled = [inst |-> NoList, data |-> NoList]
    /\ phase = "simulate" /\ driver = "create"

\* runtest.sh: it may fail to write a profile.
Simulate ==
    /\ phase = "simulate" /\ driver \in {"create", "check", "loop"}
    /\ profile' \in Profiles \cup {NoProfile}
    /\ phase' = "allocate"
    /\ UNCHANGED <<order, ispm, dspm, saved, pickled, driver>>

(***************************************************************************)
(* join_missed_deadlines: the first test that missed a block lends it its  *)
(* dictionary, where only what is there already can grow.                  *)
(***************************************************************************)
Missing(b) == {i \in DOMAIN order : b \in profile.missed[order[i]]}
First(b) == order[CHOOSE i \in Missing(b) : \A j \in Missing(b) : i <= j]
join_missed == {b \in Blocks : Missing(b) # {}}
any_deadlines_missed == join_missed # {}

Joined(counts, b, a) ==
    IF b \notin join_missed \/ counts[First(b)][b][a] = 0 THEN 0
    ELSE LET n == {counts[order[i]][b][a] : i \in Missing(b)}
         IN CHOOSE x \in n : \A y \in n : y <= x

Executions == [b \in Blocks |-> [a \in Insts |-> Joined(profile.pcs, b, a)]]
Accesses ==
    [b \in Blocks |-> [a \in Datas |-> Joined(profile.reads, b, a) + Joined(profile.writes, b, a)]]

\* Of a sequence, a count that grows is printed with names that do not exist.
JoinDies ==
    \E b \in join_missed \ Loops : \E i \in Missing(b), a \in Insts :
        0 < profile.pcs[First(b)][b][a] /\ profile.pcs[First(b)][b][a] < profile.pcs[order[i]][b][a]

Ends(next) == phase' = "simulate" /\ driver' = next /\ profile' = NoProfile
Return == Ends(CASE driver = "create" -> "check" [] driver = "check" -> "decide"
                 [] OTHER -> "again")
Unsaved == UNCHANGED <<order, ispm, dspm, saved, pickled>>

\* A profile that cannot be opened, a traceback, deadlines that are all met
\* before a scratchpad is used, or that the feasability check finds missed.
Useless ==
    /\ phase = "allocate"
    /\ \/ profile = NoProfile
       \/ JoinDies
       \/ saved.feasability = "PENDING" /\ ~any_deadlines_missed
       \/ saved.feasability = "VERIFY" /\ any_deadlines_missed
    /\ Unsaved /\ Return

WorksOn == phase = "allocate" /\ profile # NoProfile /\ ~JoinDies

generate_feasability_ispm_file ==
    /\ WorksOn /\ saved.feasability = "PENDING" /\ any_deadlines_missed
    /\ ispm' = {a \in Insts : \E b \in Blocks : Executions[b][a] > 0}
    /\ dspm' = {a \in Datas : \E b \in Blocks : Accesses[b][a] > 0}
    /\ saved' = [exists |-> TRUE, feasability |-> "VERIFY", missed |-> TRUE]
    /\ Return
    /\ UNCHANGED <<order, pickled>>

(***************************************************************************)
(* partial_schedule of what remains after remove_scheduled_inst            *)
(***************************************************************************)
RemainingAll(items, list) == items
Remaining(items, list) == items \ list.held

\* lp_solve: every item once, at most limit items, those that cost most.
lp_solve(cost, items, limit) ==
    LET worth == [a \in items |-> {cost[b][a] : b \in join_missed}]
        open == {a \in items : \E n \in worth[a] : n > 0}
    IN {S \in SUBSET open :
           /\ S = {} \/ Cardinality(S) <= limit
           /\ S = open \/ Cardinality(S) >= limit
           /\ \A a \in S, o \in open \ S :
                 \A n \in worth[o] : \E k \in worth[a] : n <= k}

RoomFixed(size, alloc, list) == alloc
RoomLess(size, alloc, list) == IF alloc >= size - list.len THEN size - list.len - 1 ELSE alloc
Room(size, alloc, list) == IF alloc > size - list.len THEN size - list.len ELSE alloc
ExtendAnew(list, new) == [held |-> new, len |-> Cardinality(new)]
Extend(list, new) == [held |-> list.held \cup new, len |-> list.len + Cardinality(new)]
FileKept(list, size, old) == IF size > 0 /\ list.len >= size THEN old ELSE list.held
\* generate_ispm_file and generate_dspm_file: too long a list writes nothing
File(list, size, old) == IF size > 0 /\ list.len > size THEN old ELSE list.held

Passed ==
    \/ saved.feasability = "PASSED"
    \/ saved.feasability = "VERIFY" /\ ~any_deadlines_missed
partial_schedule ==
    /\ WorksOn /\ Passed
    /\ \E inst \in lp_solve(Executions, Remaining(Insts, pickled.inst),
                            Room(ISize, IAlloc, pickled.inst)),
          data \in lp_solve(Accesses, Remaining(Datas, pickled.data),
                            Room(DSize, DAlloc, pickled.data)) :
          LET all == [inst |-> Extend(pickled.inst, inst), data |-> Extend(pickled.data, data)]
          IN /\ pickled' = all
             /\ ispm' = File(all.inst, ISize, ispm)
             /\ dspm' = File(all.data, DSize, dspm)
    /\ saved' = [exists |-> TRUE, feasability |-> "PASSED", missed |-> any_deadlines_missed]
    /\ Return
    /\ UNCHANGED order

(***************************************************************************)
(* generate_alloc.py: what previous_revision_exists finds decides          *)
(***************************************************************************)
Decide ==
    /\ driver = "decide"
    /\ driver' = IF saved.exists /\ saved.feasability = "PASSED" THEN "loop" ELSE "impossible"
    /\ UNCHANGED <<phase, profile>> /\ Unsaved
Again ==
    /\ driver = "again"
    /\ driver' = IF saved.missed THEN "loop" ELSE "done"
    /\ UNCHANGED <<phase, profile>> /\ Unsaved
\* generate_alloc.py is started another time, with the files there are.
Rerun ==
    /\ driver \in {"done", "impossible"}
    /\ driver' = "create"
    /\ UNCHANGED <<phase, profile>> /\ Unsaved

Next ==
    Simulate \/ Useless \/ generate_feasability_ispm_file \/ partial_schedule
        \/ Decide \/ Again \/ Rerun
Spec == Init /\ [][Next]_vars

-------------------------------------------------------------------------------
Lists(A) == [held : SUBSET A, len : Nat]

\* Types: the files and lists hold addresses of the program, and the state of
\* the feasability check that is saved is never FAILED (static_schedule.py
\* returns before it pickles that).
TypeOK ==
    /\ ispm \subseteq Insts /\ dspm \subseteq Datas
    /\ saved \in [exists : BOOLEAN, feasability : {"PENDING", "VERIFY", "PASSED"}, missed : BOOLEAN]
    /\ saved.exists <=> saved.feasability # "PENDING"
    /\ pickled \in [inst : Lists(Insts), data : Lists(Datas)]
    /\ profile \in Profiles \cup {NoProfile}
    /\ phase \in {"simulate", "allocate"}
    /\ driver \in {"create", "check", "decide", "loop", "again", "done", "impossible"}

\* Every instruction and address is scheduled at most once: what the lists of
\* the earlier revisions hold is removed from the missed blocks
\* (remove_scheduled_inst), and the solver takes an item for one block only.
NothingTwice == \A list \in {pickled.inst, pickled.data} : list.len = Cardinality(list.held)

\* The lists never outgrow the scratchpads, whatever is left of the last
\* portion (ALLOCINST and MAXSIZE of the .dat files).
ListsFit ==
    /\ ISize > 0 => pickled.inst.len <= ISize
    /\ DSize > 0 => pickled.data.len <= DSize

\* From the moment the feasability check is passed, the allocation files hold
\* the lists of the last revision: neither a file that was not written for
\* its size nor the files of the feasability check are left in their place.
FilesArePickled ==
    saved.feasability = "PASSED" =>
        ispm = pickled.inst.held /\ dspm = pickled.data.held

\* All three, over all revisions and however often generate_alloc.py is started:
\* a file that is longer than the scratchpad is never written, one with a line
\* twice would waste a location, and one that is not what the lists say would
\* make the next revision count wrongly.
ListsSound == NothingTwice /\ ListsFit /\ FilesArePickled

\* What was scheduled stays scheduled through all later invocations.
KeepsScheduled ==
    [][ /\ pickled.inst.held \subseteq pickled'.inst.held
        /\ pickled.data.held \subseteq pickled'.data.held ]_vars

\* What was missed and is in no scratchpad yet.
OpenInsts == {a \in Insts \ pickled.inst.held : \E b \in join_missed : Executions[b][a] > 0}
OpenDatas == {a \in Datas \ pickled.data.held : \E b \in join_missed : Accesses[b][a] > 0}

\* A revision that finds something missed that is not scheduled yet schedules
\* more, unless the scratchpad is full (the while loop of generate_alloc.py
\* depends on it); of instructions and data each by itself.
GrowsUnlessFull ==
    [][ partial_schedule =>
          /\ OpenInsts # {} /\ IAlloc > 0 /\ pickled.inst.len < ISize
                => pickled'.inst.held # pickled.inst.held
          /\ OpenDatas # {} /\ DAlloc > 0 /\ pickled.data.len < DSize
                => pickled'.data.held # pickled.data.held ]_vars

\* Once the check is passed it stays passed, also for a generate_alloc.py that is
\* started later, and the allocation files never lose a line: the files of a
\* feasability check never come in their place again.
FilesGrow ==
    [][ saved.feasability = "PASSED" =>
          saved'.feasability = "PASSED" /\ ispm \subseteq ispm' /\ dspm \subseteq dspm' ]_vars

\* Later revisions keep what was scheduled, in the lists and in the files, and
\* add to it.
ScheduleGrows == KeepsScheduled /\ GrowsUnlessFull /\ FilesGrow

-----------------------------------------------------------------------------
(* Theorems about StaticSchedule, for any profiles, tests and sizes.       *)

\* A list holds items of all once each, and no more than there is room for.
ListOK(list, all, size) ==
    /\ list.held \subseteq all
    /\ list.len = Cardinality(list.held)
    /\ size > 0 => list.len <= size

\* The lists are as they should be, and so are the files, which a revision leaves
\* as they were if the lists are too long: they never are.
IInv ==
    /\ ListOK(pickled.inst, Insts, ISize) /\ ListOK(pickled.data, Datas, DSize)
    /\ FilesArePickled

-----------------------------------------------------------------------------
(* One portion                                                             *)

\* Adding a portion keeps a list as it should be.
LEMMA ExtendOK ==
    ASSUME NEW all, IsFiniteSet(all), NEW size \in Nat, NEW alloc \in Nat,
           NEW list, ListOK(list, all, size),
           NEW S, S \subseteq Remaining(all, list),
           S = {} \/ Cardinality(S) <= Room(size, alloc, list)
    PROVE  ListOK(Extend(list, S), all, size)
<1>1. IsFiniteSet(S) /\ IsFiniteSet(list.held) /\ S \cap list.held = {}
  BY FS_Subset DEF ListOK, Remaining
<1>2. /\ Cardinality(list.held) \in Nat /\ Cardinality(S) \in Nat
      /\ Cardinality(list.held \cup S) = Cardinality(list.held) + Cardinality(S)
  <2>1. Cardinality(list.held) \in Nat /\ Cardinality(S) \in Nat
    BY <1>1, FS_CardinalityType
  <2>2. Cardinality(list.held \cap S) = 0
    BY <1>1, FS_EmptySet
  <2>3. Cardinality(list.held \cup S)
          = Cardinality(list.held) + Cardinality(S) - Cardinality(list.held \cap S)
    BY <1>1, FS_Union
  <2> QED BY <2>1, <2>2, <2>3
<1>3. S = {} => Cardinality(S) = 0
  BY FS_EmptySet
<1>4. size > 0 => list.len + Cardinality(S) <= size
  BY <1>2, <1>3 DEF ListOK, Room
<1>5. list.held \cup S \subseteq all
  BY DEF ListOK, Remaining
<1> QED BY <1>2, <1>4, <1>5 DEF ListOK, Extend

-----------------------------------------------------------------------------
(* The invariant                                                           *)

\* A list that fits is written.
LEMMA FileWritten ==
    ASSUME NEW all, IsFiniteSet(all), NEW size \in Nat, NEW list,
           ListOK(list, all, size), NEW old
    PROVE  File(list, size, old) = list.held
<1>1. list.len \in Nat
  BY FS_Subset, FS_CardinalityType DEF ListOK
<1> QED BY <1>1 DEF ListOK, File

\* A revision keeps the lists as they should be, extends them, and writes them.
LEMMA ScheduleKeeps ==
    ASSUME IInv, partial_schedule
    PROVE  /\ IInv'
           /\ pickled.inst.held \subseteq pickled'.inst.held
           /\ pickled.data.held \subseteq pickled'.data.held
<1> USE SizesAssumption
<1>1. PICK inst \in lp_solve(Executions, Remaining(Insts, pickled.inst),
                             Room(ISize, IAlloc, pickled.inst)),
           data \in lp_solve(Accesses, Remaining(Datas, pickled.data),
                             Room(DSize, DAlloc, pickled.data)) :
        LET all == [inst |-> Extend(pickled.inst, inst), data |-> Extend(pickled.data, data)]
        IN /\ pickled' = all
           /\ ispm' = File(all.inst, ISize, ispm)
           /\ dspm' = File(all.data, DSize, dspm)
  BY DEF partial_schedule
<1>2. ListOK(Extend(pickled.inst, inst), Insts, ISize)
  <2>1. /\ inst \subseteq Remaining(Insts, pickled.inst)
        /\ inst = {} \/ Cardinality(inst) <= Room(ISize, IAlloc, pickled.inst)
    BY DEF lp_solve
  <2> QED BY <2>1, ExtendOK DEF IInv
<1>3. ListOK(Extend(pickled.data, data), Datas, DSize)
  <2>1. /\ data \subseteq Remaining(Datas, pickled.data)
        /\ data = {} \/ Cardinality(data) <= Room(DSize, DAlloc, pickled.data)
    BY DEF lp_solve
  <2> QED BY <2>1, ExtendOK DEF IInv
<1>4. pickled'.inst = Extend(pickled.inst, inst) /\ pickled'.data = Extend(pickled.data, data)
  BY <1>1
<1>5. ispm' = pickled'.inst.held
  BY <1>1, <1>2, <1>4, FileWritten
<1>6. dspm' = pickled'.data.held
  BY <1>1, <1>3, <1>4, FileWritten
<1>7. IInv'
  BY <1>2, <1>3, <1>4, <1>5, <1>6 DEF IInv, FilesArePickled
<1>8. /\ pickled.inst.held \subseteq pickled'.inst.held
      /\ pickled.data.held \subseteq pickled'.data.held
  BY <1>4 DEF Extend
<1> QED BY <1>7, <1>8

\* IInv holds initially.
LEMMA InitHolds == Init => IInv
<1>1. Cardinality({}) = 0
  BY FS_EmptySet
<1>2. NoList.held = {} /\ NoList.len = 0
  BY DEF NoList
<1>3. ListOK(NoList, Insts, ISize) /\ ListOK(NoList, Datas, DSize)
  BY <1>1, <1>2, SizesAssumption DEF ListOK
<1>4. Init => /\ pickled.inst = NoList /\ pickled.data = NoList
             /\ saved.feasability = "PENDING"
  BY DEF Init
<1> QED BY <1>3, <1>4 DEF IInv, FilesArePickled

\* The feasability check leaves the lists alone, and its files are not those of
\* a revision yet; the other steps touch neither.
LEMMA OthersKeep ==
    ASSUME IInv, [Next]_vars, ~partial_schedule
    PROVE  IInv' /\ pickled' = pickled
<1>1. CASE generate_feasability_ispm_file
  <2>1. pickled' = pickled /\ saved'.feasability = "VERIFY"
    BY <1>1 DEF generate_feasability_ispm_file
  <2> QED BY <2>1 DEF IInv, FilesArePickled
<1>2. CASE Simulate \/ Useless \/ Decide \/ Again \/ Rerun \/ UNCHANGED vars
  <2>1. UNCHANGED <<pickled, saved, ispm, dspm>>
    BY <1>2 DEF Simulate, Useless, Decide, Again, Rerun, Unsaved, vars
  <2> QED BY <2>1 DEF IInv, FilesArePickled
<1> QED BY <1>1, <1>2 DEF Next

\* IInv holds through every step.
LEMMA Invariance == Spec => []IInv
<1>1. IInv /\ [Next]_vars => IInv'
  BY ScheduleKeeps, OthersKeep
<1> QED BY <1>1, InitHolds, PTL DEF Spec

\* The lists' lengths are counted, and what is saved is a state of the check.
THEOREM TypeCorrect == Spec => []TypeOK
<1>1. Init => TypeOK
  <2>1. NoList \in Lists(Insts) /\ NoList \in Lists(Datas)
    BY DEF NoList, Lists
  <2>2. [inst |-> NoList, data |-> NoList] \in [inst : Lists(Insts), data : Lists(Datas)]
    BY <2>1
  <2> QED BY <2>2 DEF Init, TypeOK
<1>2. TypeOK /\ IInv /\ IInv' /\ [Next]_vars => TypeOK'
  <2> SUFFICES ASSUME TypeOK, IInv, IInv', [Next]_vars PROVE TypeOK'
    OBVIOUS
  <2>0. any_deadlines_missed \in BOOLEAN
    BY DEF any_deadlines_missed
  <2>1. CASE Simulate
    <3>1. profile' \in Profiles \cup {NoProfile}
      BY <2>1 DEF Simulate
    <3>2. phase' = "allocate"
          /\ UNCHANGED <<ispm, dspm, saved, pickled, driver>>
      BY <2>1 DEF Simulate
    <3> QED BY <3>1, <3>2 DEF TypeOK
  <2>2. CASE Useless
    BY <2>2 DEF Useless, Unsaved, Return, Ends, TypeOK
  <2>3. CASE generate_feasability_ispm_file
    BY <2>3 DEF generate_feasability_ispm_file, Return, Ends, TypeOK
  <2>4. CASE partial_schedule
    <3>1. pickled' \in [inst : Lists(Insts), data : Lists(Datas)]
      <4>1. PICK i, d : pickled' = [inst |-> Extend(pickled.inst, i), data |-> Extend(pickled.data, d)]
        BY <2>4 DEF partial_schedule
      <4> QED BY <4>1, SizesAssumption, FS_Subset, FS_CardinalityType DEF IInv, ListOK, Extend, Lists
    <3>2. ispm' \subseteq Insts /\ dspm' \subseteq Datas
      BY <2>4 DEF IInv, ListOK, FilesArePickled, partial_schedule
    <3> QED BY <2>0, <2>4, <3>1, <3>2 DEF partial_schedule, Return, Ends, TypeOK
  <2>5. CASE Decide
    BY <2>5 DEF Decide, Unsaved, TypeOK
  <2>6. CASE Again
    BY <2>6 DEF Again, Unsaved, TypeOK
  <2>7. CASE Rerun
    BY <2>7 DEF Rerun, Unsaved, TypeOK
  <2>8. CASE UNCHANGED vars
    BY <2>8 DEF vars, TypeOK
  <2> QED BY <2>1, <2>2, <2>3, <2>4, <2>5, <2>6, <2>7, <2>8 DEF Next
<1> QED BY <1>1, <1>2, Invariance, PTL DEF Spec

\* Nothing is scheduled twice, over all revisions: remove_scheduled_inst takes
\* what the lists hold away before the solver chooses; the lists never outgrow
\* the scratchpads: the portion is cut to what is left of them (ALLOCINST and
\* MAXSIZE); and so the files hold the lists from the first revision on.
THEOREM AllocationsSound == Spec => []ListsSound
<1>1. IInv => NothingTwice /\ ListsFit /\ FilesArePickled
  BY DEF IInv, ListOK, NothingTwice, ListsFit
<1> QED BY <1>1, Invariance, PTL DEF ListsSound

\* No revision takes anything out of the scratchpads again.
THEOREM ScheduledStays == Spec => KeepsScheduled
<1>1. IInv /\ [Next]_vars =>
          /\ pickled.inst.held \subseteq pickled'.inst.held
          /\ pickled.data.held \subseteq pickled'.data.held
  BY ScheduleKeeps, OthersKeep
<1> QED BY <1>1, Invariance, PTL DEF Spec, KeepsScheduled

-----------------------------------------------------------------------------
(* Every revision adds to the lists                                        *)

\* The solver takes something of what is open if there is room.
LEMMA SolverTakes ==
    ASSUME NEW all, IsFiniteSet(all), NEW size \in Nat, size > 0, NEW alloc \in Nat, alloc > 0,
           NEW list, ListOK(list, all, size), list.len # size, NEW cost,
           NEW a \in Remaining(all, list), NEW b \in join_missed, cost[b][a] > 0,
           NEW S \in lp_solve(cost, Remaining(all, list), Room(size, alloc, list))
    PROVE  S # {} /\ S \cap list.held = {} /\ list.held # list.held \cup S
<1>1. list.len \in Nat /\ list.len < size
  <2>1. list.len \in Nat
    BY FS_Subset, FS_CardinalityType DEF ListOK
  <2>2. list.len <= size
    BY DEF ListOK
  <2> QED BY <2>1, <2>2
<1>2. Room(size, alloc, list) \in Int /\ Room(size, alloc, list) >= 1
  BY <1>1 DEF Room
<1>3. Cardinality({}) = 0
  BY FS_EmptySet
<1> DEFINE items == Remaining(all, list)
           worth == [x \in items |-> {cost[c][x] : c \in join_missed}]
           open == {x \in items : \E n \in worth[x] : n > 0}
<1>4. a \in open
  OBVIOUS
<1>5. S \subseteq open /\ (S = open \/ Cardinality(S) >= Room(size, alloc, list))
  BY DEF lp_solve
<1>6. S \subseteq Remaining(all, list)
  BY <1>5
<1> HIDE DEF open
<1>7. S # {}
  BY <1>2, <1>3, <1>4, <1>5
<1> QED BY <1>6, <1>7 DEF Remaining

\* A revision that finds something open adds to a list that has room.
LEMMA RevisionGrows ==
    ASSUME IInv, partial_schedule
    PROVE  /\ OpenInsts # {} /\ IAlloc > 0 /\ pickled.inst.len < ISize
                => pickled'.inst.held # pickled.inst.held
           /\ OpenDatas # {} /\ DAlloc > 0 /\ pickled.data.len < DSize
                => pickled'.data.held # pickled.data.held
<1> USE SizesAssumption
<1>1. PICK inst \in lp_solve(Executions, Remaining(Insts, pickled.inst),
                             Room(ISize, IAlloc, pickled.inst)),
           data \in lp_solve(Accesses, Remaining(Datas, pickled.data),
                             Room(DSize, DAlloc, pickled.data)) :
        pickled' = [inst |-> Extend(pickled.inst, inst), data |-> Extend(pickled.data, data)]
  BY DEF partial_schedule
<1>2. /\ pickled'.inst.held = pickled.inst.held \cup inst
      /\ pickled'.data.held = pickled.data.held \cup data
  BY <1>1 DEF Extend
<1>3. ListOK(pickled.inst, Insts, ISize) /\ ListOK(pickled.data, Datas, DSize)
  BY DEF IInv
<1>4. /\ pickled.inst.len \in Nat
      /\ pickled.data.len \in Nat
  BY <1>3, FS_Subset, FS_CardinalityType DEF ListOK
<1>5. ASSUME OpenInsts # {}, IAlloc > 0, pickled.inst.len < ISize
      PROVE  pickled'.inst.held # pickled.inst.held
  <2>1. PICK a \in Remaining(Insts, pickled.inst), b \in join_missed : Executions[b][a] > 0
    BY <1>5 DEF OpenInsts, Remaining
  <2>2. ISize > 0 /\ pickled.inst.len # ISize
    BY <1>4, <1>5
  <2> QED BY <1>2, <1>3, <1>5, <2>1, <2>2, SolverTakes
<1>6. ASSUME OpenDatas # {}, DAlloc > 0, pickled.data.len < DSize
      PROVE  pickled'.data.held # pickled.data.held
  <2>1. PICK a \in Remaining(Datas, pickled.data), b \in join_missed : Accesses[b][a] > 0
    BY <1>6 DEF OpenDatas, Remaining
  <2>2. DSize > 0 /\ pickled.data.len # DSize
    BY <1>4, <1>6
  <2> QED BY <1>2, <1>3, <1>6, <2>1, <2>2, SolverTakes
<1> QED BY <1>5, <1>6

\* Of a check that is passed only a revision writes files, which hold its lists.
LEMMA FilesKeep ==
    ASSUME IInv, [Next]_vars, saved.feasability = "PASSED"
    PROVE  saved'.feasability = "PASSED" /\ ispm \subseteq ispm' /\ dspm \subseteq dspm'
<1>1. ispm = pickled.inst.held /\ dspm = pickled.data.held
  BY DEF IInv, FilesArePickled
<1>2. CASE partial_schedule
  <2>1. saved'.feasability = "PASSED"
    BY <1>2 DEF partial_schedule
  <2>2. ispm' = pickled'.inst.held /\ dspm' = pickled'.data.held
    BY <1>2, <2>1, ScheduleKeeps DEF IInv, FilesArePickled
  <2> QED BY <1>1, <1>2, <2>1, <2>2, ScheduleKeeps
<1>3. CASE Simulate \/ Useless \/ Decide \/ Again \/ Rerun \/ UNCHANGED vars
  BY <1>3 DEF Simulate, Useless, Decide, Again, Rerun, Unsaved, vars
<1>4. ~generate_feasability_ispm_file
  BY DEF generate_feasability_ispm_file
<1> QED BY <1>2, <1>3, <1>4 DEF Next

\* A revision adds something of what is missed and not scheduled yet to every
\* list that has room, and none takes anything away, from the lists or, once the
\* check is passed, from the files.
THEOREM ScheduleKeepsGrowing == Spec => ScheduleGrows
<1>1. IInv /\ [Next]_vars =>
          [ partial_schedule =>
              /\ OpenInsts # {} /\ IAlloc > 0 /\ pickled.inst.len < ISize
                    => pickled'.inst.held # pickled.inst.held
              /\ OpenDatas # {} /\ DAlloc > 0 /\ pickled.data.len < DSize
                    => pickled'.data.held # pickled.data.held ]_vars
  BY RevisionGrows
<1>2. IInv /\ [Next]_vars =>
          [ saved.feasability = "PASSED" =>
              saved'.feasability = "PASSED" /\ ispm \subseteq ispm' /\ dspm \subseteq dspm' ]_vars
  BY FilesKeep
<1> QED
  BY <1>1, <1>2, Invariance, ScheduledStays, PTL DEF Spec, ScheduleGrows, GrowsUnlessFull, FilesGrow
===============================================================================
