--------------------------- MODULE ProgramLoading ---------------------------
(***************************************************************************)
(* How programs get into the memory of the simulator: compile_threads.py   *)
(* lays out a program for every thread and looks whether it fits, the      *)
(* thread controller has the SREC files parsed one after the other, by one *)
(* parser and into one memory, and sets every thread at its start.         *)
(*                                                                         *)
(* Addresses count words from THREAD0_START.  A file is a sequence of the  *)
(* lines that matter; a step of the parser is a line.                      *)
(***************************************************************************)
EXTENDS Integers, Sequences

CONSTANTS
    NumThreads,     \* NUM_THREADS
    Spacing,        \* THREAD_MEM_SIZE and thread_spacing
    Guess,          \* what get_max_address takes the length of a line for
    Line,           \* bound: the words in a line that objcopy writes
    MaxData,        \* bound: the data of a program
    Damaged         \* may a file be missing, cut off, or hold an odd line?

LoadingConstants ==
    /\ NumThreads \in Nat \ {0}
    /\ Spacing \in Nat /\ Spacing > 1 /\ Spacing % 2 = 0
    /\ Guess \in Nat /\ Line \in Nat \ {0}
    /\ MaxData \in Nat
    /\ Damaged \in BOOLEAN

Threads == 0 .. NumThreads - 1
Nobody == NumThreads
Nowhere == -1       \* the address 0, which is below every program

VARIABLES
    phase,          \* "compile", "find", "load", "ready", or "aborted"
    thread,         \* the thread whose file is made or read
    files,          \* the SREC file of every thread
    line,           \* the next line of the file
    startingAddr,   \* srec_parser::_starting_addr
    memory,         \* whose program a word of the memory is from
    pc, sp          \* the program counters and the registers 14 and 30

vars == <<phase, thread, files, line, startingAddr, memory, pc, sp>>

\* prog_addr; Spacing keeps the alignment.
ProgAddr(t) == t * Spacing
Words == 0 .. ProgAddr(NumThreads) + Spacing + MaxData

-----------------------------------------------------------------------------
(* compile_threads.py                                                      *)

\* A section of n words in lines; one with some bytes over ends in an odd line.
Lines(addr, n, odd) ==
    [i \in 1 .. (n + Line - 1) \div Line |->
        [kind |-> IF odd /\ i * Line >= n THEN "odd" ELSE "data",
         addr |-> addr + (i - 1) * Line,
         length |-> IF i * Line <= n THEN Line ELSE n - (i - 1) * Line]]

\* start_at: the text at the address of the thread, the data half-way on.
FileOf(t, text, data, odd) ==
    <<[kind |-> "header", addr |-> 0, length |-> 0]>>
        \o Lines(ProgAddr(t), text, odd)
        \o Lines(ProgAddr(t) + Spacing \div 2, data, FALSE)
        \o <<[kind |-> "start", addr |-> ProgAddr(t), length |-> 0]>>

DataLines(f) == {i \in 1 .. Len(f) : f[i].kind \in {"data", "odd"}}

\* get_max_address: for the length of a line it takes twice that of its address.
MaxAddress(f) == CHOOSE a \in {0} \union {f[i].addr + Guess : i \in DataLines(f)} :
                    \A i \in DataLines(f) : f[i].addr + Guess <= a

Unopened == <<[kind |-> "none", addr |-> 0, length |-> 0]>>
Missing(f) == f = Unopened

\* What becomes of a file between the compiler and the simulator: it is whole, or
\* it is cut off after some line and may be empty, or missing.
Copies(f) ==
    {f} \union (IF Damaged THEN {SubSeq(f, 1, k) : k \in 0 .. Len(f) - 1} \union {Unopened} ELSE {})

\* Mutant: a program may end where the next begins.
CompileTight ==
    /\ phase = "compile"
    /\ \E text \in 1 .. Spacing \div 2, data \in 0 .. MaxData, odd \in {FALSE, Damaged} :
          LET f == FileOf(thread, text, data, odd) IN
          IF MaxAddress(f) <= ProgAddr(thread + 1)
          THEN /\ \E copy \in Copies(f) : files' = [files EXCEPT ![thread] = copy]
               /\ phase' = IF thread + 1 = NumThreads THEN "find" ELSE "compile"
          ELSE phase' = "aborted" /\ UNCHANGED files
    /\ thread' = (thread + 1) % NumThreads
    /\ UNCHANGED <<line, startingAddr, memory, pc, sp>>

\* Mutant: nobody looks whether the program fits.
CompileUnchecked ==
    /\ phase = "compile"
    /\ \E text \in 1 .. Spacing \div 2, data \in 0 .. MaxData, odd \in {FALSE, Damaged} :
          \E copy \in Copies(FileOf(thread, text, data, odd)) :
              files' = [files EXCEPT ![thread] = copy]
    /\ phase' = IF thread + 1 = NumThreads THEN "find" ELSE "compile"
    /\ thread' = (thread + 1) % NumThreads
    /\ UNCHANGED <<line, startingAddr, memory, pc, sp>>

\* A turn of compile_threads, with its assertion.
Compile ==
    /\ phase = "compile"
    /\ \E text \in 1 .. Spacing \div 2, data \in 0 .. MaxData, odd \in {FALSE, Damaged} :
          LET f == FileOf(thread, text, data, odd) IN
          IF MaxAddress(f) < ProgAddr(thread + 1)
          THEN /\ \E copy \in Copies(f) : files' = [files EXCEPT ![thread] = copy]
               /\ phase' = IF thread + 1 = NumThreads THEN "find" ELSE "compile"
          ELSE phase' = "aborted" /\ UNCHANGED files
    /\ thread' = (thread + 1) % NumThreads
    /\ UNCHANGED <<line, startingAddr, memory, pc, sp>>

-----------------------------------------------------------------------------
(* parse_srec_files and srec_parser                                        *)

File == files[thread]
Reads == phase = "load" /\ line <= Len(File) /\ ~Missing(File)

\* The simulator is given the directory of the files, or a file that names it.  It
\* knows the directory by its thread0.srec: without that it reads the directory's
\* name from the directory itself, and then finds no file at all.
FindFiles ==
    /\ phase = "find"
    /\ \E given \in {"directory", "file"} :
          files' = IF given = "directory" /\ Missing(files[0]) THEN [t \in Threads |-> Unopened]
                   ELSE files
    /\ phase' = "load"
    /\ UNCHANGED <<thread, line, startingAddr, memory, pc, sp>>
\* "File or directory not found"
FindNothing ==
    /\ phase = "find" /\ Damaged
    /\ phase' = "aborted"
    /\ UNCHANGED <<thread, files, line, startingAddr, memory, pc, sp>>

\* A header, or a line of another kind, is read and dropped.
DropLine ==
    /\ Reads /\ File[line].kind = "header"
    /\ line' = line + 1
    /\ UNCHANGED <<phase, thread, files, startingAddr, memory, pc, sp>>

\* The words of a line go where they belong, whoever is there.
StoreWords ==
    /\ Reads /\ File[line].kind = "data"
    /\ memory' = [w \in Words |->
           IF w - File[line].addr \in 0 .. File[line].length - 1 THEN thread ELSE memory[w]]
    /\ line' = line + 1
    /\ UNCHANGED <<phase, thread, files, startingAddr, pc, sp>>

\* Mutant: only the line is dropped.
GiveUpLine ==
    /\ Reads /\ File[line].kind = "odd"
    /\ line' = line + 1
    /\ UNCHANGED <<phase, thread, files, startingAddr, memory, pc, sp>>

\* "SREC file malformed": a line whose bytes make no whole words ends the file.
GiveUpFile ==
    /\ Reads /\ File[line].kind = "odd"
    /\ line' = Len(File) + 1
    /\ UNCHANGED <<phase, thread, files, startingAddr, memory, pc, sp>>

\* Mutant: the start is the thread's only if there is none yet.
SetStartOnce ==
    /\ Reads /\ File[line].kind = "start"
    /\ startingAddr' = IF startingAddr = 0 THEN File[line].addr ELSE startingAddr
    /\ line' = line + 1
    /\ UNCHANGED <<phase, thread, files, memory, pc, sp>>

SetStart ==
    /\ Reads /\ File[line].kind = "start"
    /\ startingAddr' = File[line].addr
    /\ line' = line + 1
    /\ UNCHANGED <<phase, thread, files, memory, pc, sp>>

\* The end of the file: the thread gets its stack, below the region of the next,
\* and the start that the parser has last seen, or 0 when fopen has failed.
SetUpThread ==
    /\ phase = "load" /\ (line > Len(File) \/ Missing(File))
    /\ sp' = [sp EXCEPT ![thread] = ProgAddr(thread + 1) - 1]
    /\ pc' = [pc EXCEPT ![thread] = IF Missing(File) THEN Nowhere ELSE startingAddr]
    /\ line' = 1
    /\ thread' = (thread + 1) % NumThreads
    /\ phase' = IF thread + 1 = NumThreads THEN "ready" ELSE "load"
    /\ UNCHANGED <<files, startingAddr, memory>>

Init ==
    /\ phase = "compile" /\ thread = 0
    /\ files = [t \in Threads |-> <<>>] /\ line = 1
    /\ startingAddr = 0
    /\ memory = [w \in Words |-> Nobody]
    /\ pc = [t \in Threads |-> 0] /\ sp = [t \in Threads |-> 0]

Load == FindFiles \/ FindNothing \/ DropLine \/ StoreWords \/ GiveUpFile \/ SetStart \/ SetUpThread
Next == Compile \/ Load
Spec == Init /\ [][Next]_vars

-----------------------------------------------------------------------------
(* Properties                                                              *)

Holds(f) == UNION {f[i].addr .. f[i].addr + f[i].length - 1 : i \in DataLines(f)}

\* What is loaded for one thread overwrites nothing of another: all of every
\* program is in memory when the threads start.
ProgramsIntact ==
    phase = "ready" => \A t \in Threads, w \in Words : memory[w] = t <=> w \in Holds(files[t])

\* Every thread starts at its own program.
StartsAtOwn == phase = "ready" => \A t \in Threads : pc[t] = ProgAddr(t)

\* The first word of a stack is of no program, its own or the next one.
StackTopFree == phase = "ready" => \A t \in Threads : memory[sp[t]] = Nobody

\* Nothing of a program, whole or not, is outside of the region of its thread.
NothingForeign ==
    \A t \in Threads, w \in Words : memory[w] = t => w \in ProgAddr(t) .. ProgAddr(t + 1) - 1

\* The parser serves all threads: one whose file is cut off or has an odd line
\* starts where the last thread before it does whose start was read, one without
\* a file at 0, and all of them at 0 if the directory was lost with thread0.srec.
StartIsRead(f) ==
    /\ f # <<>> /\ f[Len(f)].kind = "start"
    /\ \A i \in 1 .. Len(f) : f[i].kind # "odd"
StartsAtLast ==
    phase = "ready" =>
        \A t \in Threads :
            IF Missing(files[t]) THEN pc[t] = Nowhere
            ELSE \E s \in 0 .. t :
                    /\ pc[t] = ProgAddr(s)
                    /\ s = 0 \/ StartIsRead(files[s])
                    /\ \A r \in s + 1 .. t : ~StartIsRead(files[r])

=============================================================================
