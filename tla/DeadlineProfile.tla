---------------------------- MODULE DeadlineProfile ----------------------------
(***************************************************************************)
(* The profile csim takes of one watched thread (profile_data.py, stats.py *)
(* and the part of one_step that feeds them): in every round in which the  *)
(* fetch was not stalled, the instruction at the program counter and the   *)
(* label on it are recorded, together with the access of the instruction   *)
(* that was just executed.                                                 *)
(*                                                                         *)
(* The program is the path a thread takes through labelled instructions,   *)
(* as deadline.h writes them around deadline blocks.  An access or a DEAD  *)
(* that stalls is at the program counter for one more round, and its label *)
(* is reached once more: DEADEND has its label on the DEAD itself, and the *)
(* label of DEADSTART is on whatever comes after its DEAD.                 *)
(***************************************************************************)
EXTENDS Integers, Sequences, SequencesExt, FiniteSetsExt

CONSTANTS
    Blocks, Loops,  \* deadline blocks, and those whose labels say _loop
    Paths,          \* sequences of instructions a thread may execute
    Pcs,
    Stack,          \* the addresses get_stack_variable_spm finds a thread for
    MaxStalls       \* bound: rounds lost to stalls

LoopsAssumption == Loops \subseteq Blocks

VARIABLES
    path, at,       \* the instruction at the program counter
    clock, stalls,  \* rounds so far, and those lost
    data,           \* the stats object
    nest,           \* history: the blocks the thread is in, innermost last
    began,          \* history: when it entered them last
    spent,          \* history: the times it took for every block
    misled          \* history: whether a stall was taken for another label
vars == <<path, at, clock, stalls, data, nest, began, spent, misled>>

None == "none"
dblock(type, wc, stamps) ==
    [block_type |-> type, wc_execution_time |-> wc, execution_time |-> stamps, repetition |-> 1,
     pcs |-> [p \in Pcs |-> 0], accesses |-> [a \in {"read", "write"} \X Stack |-> 0]]
Absent == dblock("absent", 0, <<>>)

stats == [stack |-> <<>>, lbreaks |-> [b \in Blocks |-> Absent], loops |-> <<>>,
          nonrt |-> [p \in Pcs |-> 0], all |-> [p \in Pcs |-> 0], died |-> FALSE, dumped |-> FALSE]

exists_lbreak(s, b) == s.lbreaks[b].block_type # "absent"

(***************************************************************************)
(* reached_loop_dblock and reached_sequential_dblock.  Kinds of labels are *)
(* start (_start), end (_end) and exit (_end_end).                         *)
(***************************************************************************)
Stamp(s, b, t) == [s EXCEPT !.lbreaks[b].execution_time = Append(@, t)]
Pop(s) == IF s.stack = <<>> THEN s ELSE [s EXCEPT !.stack = Front(@)]

LoopEntry(s, i, t) ==
    IF exists_lbreak(s, i.block) THEN Stamp(s, i.block, t)
    ELSE [s EXCEPT !.lbreaks[i.block] = dblock("LOOP", 0, <<t>>)]
PushAgain(s, b) == [s EXCEPT !.stack = Append(@, b)]
Push(s, b) == IF b \in Range(s.stack) THEN s ELSE [s EXCEPT !.stack = Append(@, b)]
ExitCopied(s, b) == Pop([s EXCEPT !.loops = Append(@, s.lbreaks[b])])
ExitKept(s, b) == [s EXCEPT !.loops = Append(@, s.lbreaks[b]), !.lbreaks[b] = Absent]
LoopExit(s, b) == Pop([s EXCEPT !.loops = Append(@, s.lbreaks[b]), !.lbreaks[b] = Absent])
reached_loop_dblock(s, i, t) ==
    IF i.block \notin Loops THEN s
    ELSE IF i.kind = "start" THEN LoopEntry(Push(s, i.block), i, t)
    ELSE IF ~exists_lbreak(s, i.block) THEN s
    ELSE IF i.kind = "end" THEN Stamp(s, i.block, t)
    ELSE LoopExit(Stamp(s, i.block, t), i.block)

SequenceEntryFirst(s, b, t) ==
    IF exists_lbreak(s, b) THEN [s EXCEPT !.stack = Append(@, b)]
    ELSE [s EXCEPT !.stack = Append(@, b), !.lbreaks[b] = dblock("SEQUENCE", t, <<>>)]
SequenceEntry(s, b, t) ==
    [s EXCEPT !.stack = Append(@, b), !.lbreaks[b] = dblock("SEQUENCE", t, <<>>)]
SequenceExit(s, b, t) == Pop([s EXCEPT !.lbreaks[b].wc_execution_time = t - @])
reached_sequential_dblock(s, i, t) ==
    IF i.block \notin Blocks \ Loops THEN s
    ELSE IF i.kind = "start" THEN SequenceEntry(s, i.block, t)
    ELSE IF i.kind = "exit" /\ s.stack # <<>> /\ Last(s.stack) = i.block
    THEN SequenceExit(s, i.block, t)
    ELSE IF i.kind = "exit" THEN Pop(s) ELSE s

(***************************************************************************)
(* add_pc_dblock and reached_stack_variables, for the block on top.  A     *)
(* label on the stack without a block ends csim with a KeyError.           *)
(***************************************************************************)
reached_stack_variables(b, access) ==
    IF access = None \/ access[2] \notin Stack THEN b ELSE [b EXCEPT !.accesses[access] = @ + 1]

add_pc_dblock(s, pc, access) ==
    LET counted == [s EXCEPT !.all[pc] = @ + 1]
    IN IF s.stack = <<>> THEN [counted EXCEPT !.nonrt[pc] = @ + 1]
       ELSE IF ~exists_lbreak(s, Last(s.stack)) THEN [s EXCEPT !.died = TRUE]
       ELSE [counted EXCEPT !.lbreaks[Last(s.stack)] =
                [reached_stack_variables(@, access) EXCEPT !.pcs[pc] = @ + 1]]

reached_lbreak(s, i, access, t) ==
    add_pc_dblock(reached_sequential_dblock(reached_loop_dblock(s, i, t), i, t), i.pc, access)

(***************************************************************************)
(* One round of the thread, and one_step after it                          *)
(***************************************************************************)
Init ==
    /\ path \in Paths
    /\ at = 1 /\ clock = 1 /\ stalls = 0
    /\ data = stats
    /\ nest = <<>> /\ began = [b \in Blocks |-> 0] /\ spent = [b \in Blocks |-> <<>>]
    /\ misled = FALSE

Running == at < Len(path) /\ ~data.died
\* What the instructions say themselves, each counted once.
Enter(i) ==
    /\ nest' = IF i.kind = "start" /\ i.block \notin Range(nest) THEN Append(nest, i.block)
               ELSE IF i.kind = "exit" THEN Front(nest) ELSE nest
    /\ began' = IF i.kind = "start" THEN [began EXCEPT ![i.block] = clock + 1] ELSE began
    /\ spent' = IF i.kind \in {"end", "exit"} /\ i.block \in Range(nest)
                THEN [spent EXCEPT ![i.block] = Append(@, clock + 1 - began[i.block])] ELSE spent

Execute ==
    /\ Running
    /\ at' = at + 1 /\ clock' = clock + 1
    /\ data' = reached_lbreak(data, path[at + 1], path[at].access, clock + 1)
    /\ Enter(path[at + 1])
    /\ UNCHANGED <<path, stalls, misled>>

Stalled == Running /\ stalls < MaxStalls /\ stalls' = stalls + 1 /\ clock' = clock + 1
FetchStall ==
    /\ Stalled
    /\ UNCHANGED <<path, at, data, nest, began, spent, misled>>
\* A block is entered a second time, or that of a sequence inside another block
\* is left a second time, and the other with it.
Misleading(i) == i.kind = "start" \/ (i.kind = "exit" /\ i.block \notin Loops /\ nest # <<>>)

\* An access or a deadline that stalls: the access itself is not recorded.
Replay ==
    /\ Stalled
    /\ path[at].dead \/ path[at].access # None
    /\ data' = reached_lbreak(data, path[at], None, clock + 1)
    /\ misled' = (misled \/ Misleading(path[at]))
    /\ UNCHANGED <<path, at, nest, began, spent>>

(***************************************************************************)
(* do_stats: compute_max_execution_time of the loops that have ended       *)
(***************************************************************************)
PeriodsLater(stamps, last) == {0} \cup {stamps[k + 1] - stamps[k] : k \in 2 .. last}
Periods(stamps, last) == {0} \cup {stamps[k + 1] - stamps[k] : k \in 1 .. last}
Largest(S) == CHOOSE x \in S : \A y \in S : y <= x
compute_max_execution_time(b) ==
    LET n == Len(b.execution_time)
    IN [b EXCEPT !.wc_execution_time = Largest(Periods(b.execution_time, n - 2)),
                 !.repetition = n - 1]
do_stats ==
    /\ at = Len(path) /\ ~data.died /\ ~data.dumped
    /\ data' = [data EXCEPT !.dumped = TRUE,
                            !.loops = [k \in DOMAIN @ |-> compute_max_execution_time(@[k])]]
    /\ UNCHANGED <<path, at, clock, stalls, nest, began, spent, misled>>

Next == Execute \/ FetchStall \/ Replay \/ do_stats
Spec == Init /\ [][Next]_vars

-------------------------------------------------------------------------------
Dicts == [block_type : {"absent", "LOOP", "SEQUENCE"}, wc_execution_time : Nat,
          execution_time : Seq(Nat), repetition : Int, pcs : [Pcs -> Nat],
          accesses : [{"read", "write"} \X Stack -> Nat]]

\* Types: the stats object holds labels of the program, and a block that is
\* no loop is never among the loops that ended.
TypeOK ==
    /\ path \in Paths /\ at \in 1 .. Len(path) /\ clock \in Nat /\ stalls \in 0 .. MaxStalls
    /\ data.stack \in Seq(Blocks) /\ nest \in Seq(Blocks)
    /\ \A b \in Blocks : data.lbreaks[b] \in Dicts
    /\ \A k \in DOMAIN data.loops : data.loops[k] \in Dicts /\ data.loops[k].block_type = "LOOP"
    /\ data.nonrt \in [Pcs -> Nat] /\ data.all \in [Pcs -> Nat]

(***************************************************************************)
(* Until the profile is misled.  A loop that has ended and a sequence that *)
(* is inside no other mislead it never, however often their DEAD stalls.   *)
(***************************************************************************)

\* The stack holds the blocks the thread is in, the innermost on top
\* (add_pc_dblock: it is what keeps count of active blocks).
StackIsNest == ~misled /\ ~data.died => data.stack = nest

\* The block on top of the stack is known: a loop that has ended is deleted
\* from _lbreaks and must not be found on the stack (add_pc_dblock).
NoKeyError == ~misled => ~data.died

\* A sequence that has ended has the time of its last execution up to the DEAD
\* at its end, whatever blocks were inside it and wherever the thread was stalled.
MeasuresLast ==
    ~misled => \A b \in Blocks \ Loops :
        b \notin Range(nest) /\ spent[b] # <<>> =>
            data.lbreaks[b].wc_execution_time = Last(spent[b])

\* No instruction is counted for two blocks, nor for a block and as code
\* without a deadline, misled or not; what is missing was counted for an earlier
\* execution of a sequence, which the later one replaces.
CountedOnce ==
    \A p \in Pcs :
        LET ofBlock == MapThenSumSet(LAMBDA b : data.lbreaks[b].pcs[p], Blocks)
            ofLoop == MapThenSumSet(LAMBDA k : data.loops[k].pcs[p], DOMAIN data.loops)
            counted == data.nonrt[p] + ofBlock + ofLoop
        IN /\ counted <= data.all[p]
           /\ ~misled /\ (\A b \in Blocks \ Loops : Len(spent[b]) <= 1 /\ (b \in Range(nest) => spent[b] = <<>>))
                => counted = data.all[p]

\* The time of a loop is at least that of every pass, the last left out
\* (compute_max_execution_time: it is used for the exit block).
LoopIsLargest ==
    ~misled /\ data.dumped => \A b \in Loops : \A k \in DOMAIN data.loops :
        \A n \in 1 .. Len(spent[b]) - 1 : spent[b][n] <= data.loops[k].wc_execution_time

===============================================================================
