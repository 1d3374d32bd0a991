------------------------------- MODULE Debugger -------------------------------
(***************************************************************************)
(* csim, the command line debugger (csim.py), on the core that             *)
(* python_wrapper.cpp gives it.  A command is typed at the prompt; run,    *)
(* tra and profile then take one step of the core after another.           *)
(*                                                                         *)
(* The core is abstract: a step lets one thread come to the end of the     *)
(* pipeline, where its instruction has executed or has to be repeated, and *)
(* the simulation ends by an exception when a thread fetches End.  What    *)
(* the profile makes of its rounds is the matter of DeadlineProfile.       *)
(***************************************************************************)
EXTENDS Integers, Sequences, SequencesExt

CONSTANTS
    N,            \* threads of the core
    End,          \* the address of the instruction that ends the simulation
    Commands,     \* the commands a user may type
    Counts,       \* numbers of cycles a user may ask for, -1 for all
    Numbers,      \* numbers of threads and breakpoints a user may type
    MaxStalls,    \* bound: rounds lost to stalls
    MaxBreaks,    \* bound: breakpoints and watched threads that are typed in
    MaxEnd        \* bound: steps after the end of the simulation

DebuggerConstants == N \in Nat \ {0} /\ End \in Nat /\ Counts \subseteq Int /\ Numbers \subseteq Int

Threads == 0 .. N - 1
Addresses == 0 .. End

VARIABLES
    cycle, pc, stalled, count,  \* the core, as its accessors show it
    ended, stalls,
    breakpoints, labels,        \* a list, and the addresses that have a label
    threads, skip_fetch_stall,
    status,       \* what csim does: a prompt, a command that steps, a traceback
    asked, ran,   \* the cycles a command asked for, and those it has taken
    typed,        \* changes of breakpoints and threads so far
    met, hit      \* history: breakpoints threads came to while they were set
                  \* and watched, and whether the last step stopped

core == <<cycle, pc, stalled, count, ended, stalls>>
settings == <<breakpoints, labels, threads, skip_fetch_stall, typed>>
vars == <<core, settings, status, asked, ran, met, hit>>

Init ==
    /\ cycle = 0 /\ pc = [t \in Threads |-> 0] /\ stalled = [t \in Threads |-> FALSE]
    /\ count = [t \in Threads |-> 0] /\ ended = 0 /\ stalls = 0
    /\ breakpoints = <<>> /\ labels = {} /\ threads = {0} /\ skip_fetch_stall = FALSE
    /\ status = "prompt" /\ asked = 0 /\ ran = 0 /\ typed = 0
    /\ met = {} /\ hit = FALSE

(***************************************************************************)
(* pret.run(1).  A step lets the thread come round that it then shows,     *)
(* but for the one that fetches End: the stages after the fetch are done,  *)
(* the cycle is not counted, and it returns 0.                             *)
(***************************************************************************)
fetched_thread == cycle % N
Leaving == (cycle + 1) % N
Throws == pc[fetched_thread] = End

\* Its instruction has executed, or is to be repeated: fetch or memory stalled.
Executes(t) ==
    /\ pc[t] < End
    /\ pc' = [pc EXCEPT ![t] = @ + 1] /\ count' = [count EXCEPT ![t] = @ + 1]
    /\ stalled' = [stalled EXCEPT ![t] = FALSE]
    /\ UNCHANGED stalls
Repeats(t) ==
    /\ stalls < MaxStalls /\ stalls' = stalls + 1
    /\ \E fetch \in BOOLEAN : stalled' = [stalled EXCEPT ![t] = fetch]
    /\ UNCHANGED <<pc, count>>
run_for_instruction ==
    /\ \/ Executes(Leaving)
       \/ Repeats(Leaving)
       \/ pc[Leaving] = End /\ UNCHANGED <<pc, stalled, count, stalls>>
    /\ cycle' = IF Throws THEN cycle ELSE cycle + 1
    /\ ended' = IF Throws THEN ended + 1 ELSE ended
    /\ ended < MaxEnd

(***************************************************************************)
(* one_step: what it answers of the thread that is shown after the step    *)
(***************************************************************************)
shown == cycle' % N
Watched(t) == t \in threads
At(t) == pc'[t] \in Range(breakpoints)
BreaksSkipping == Watched(shown) /\ At(shown) /\ ~skip_fetch_stall
Breaks == Watched(shown) /\ At(shown) /\ ~(skip_fetch_stall /\ stalled'[shown])
\* profile looks up the label of a breakpoint, which break has not given it.
LabelMissing == skip_fetch_stall /\ Breaks /\ pc'[shown] \notin labels

\* History: a watched thread comes to a breakpoint, or goes on from one.
Meet ==
    met' = {m \in met : pc'[m[1]] = m[2] /\ ~(Breaks /\ m[1] = shown)}
           \cup {<<t, pc'[t]>> : t \in {t \in Threads :
                    pc'[t] # pc[t] /\ At(t) /\ Watched(t) /\ ~(Breaks /\ t = shown)}}

(***************************************************************************)
(* The commands that step                                                  *)
(***************************************************************************)
Step(next) ==
    /\ run_for_instruction
    /\ ran' = IF asked = -1 THEN 0 ELSE ran + 1
    /\ hit' = Breaks
    /\ Meet
    /\ status' = next
    /\ UNCHANGED <<settings, asked>>

Ended == asked # -1 /\ ran + 1 >= asked
do_run_longer ==
    /\ status = "run"
    /\ Step(IF Throws \/ Breaks \/ (asked # -1 /\ ran >= asked) THEN "prompt" ELSE "run")
do_run_on == status = "run" /\ Step(IF ~Throws /\ (Breaks \/ Ended) THEN "prompt" ELSE "run")
do_run_step == status = "run" /\ Step(IF Throws \/ Breaks \/ Ended THEN "prompt" ELSE "run")

\* tra prints that the end is reached, and goes on.
do_tra_step ==
    /\ status = "tra"
    /\ Step(IF (~Throws /\ Breaks) \/ Ended THEN "prompt" ELSE "tra")

do_profile_step ==
    /\ status = "profile"
    /\ Step(IF LabelMissing THEN "KeyError" ELSE IF Throws THEN "prompt" ELSE "profile")

(***************************************************************************)
(* The commands at the prompt                                              *)
(***************************************************************************)
Types(c) == status = "prompt" /\ c \in Commands
Idle == UNCHANGED <<core, status, asked, ran, met, hit>>
Sets == typed < MaxBreaks /\ typed' = typed + 1

Starts(c, n) ==
    /\ ended = 0
    /\ status' = c /\ asked' = n /\ ran' = 0 /\ hit' = FALSE
    /\ UNCHANGED <<core, settings, met>>
do_run == Types("run") /\ \E n \in Counts \ {0} : Starts("run", n)
do_tra == Types("tra") /\ \E n \in Counts \ {-1, 0} : Starts("tra", n)
do_profile == Types("profile") /\ Starts("profile", -1)
\* Without a number, run prints an error.
do_run_alone == Types("run") /\ Idle /\ UNCHANGED settings

BreakAgain(a) == Append(breakpoints, a)
Break(a) == IF a \in Range(breakpoints) THEN breakpoints ELSE Append(breakpoints, a)
do_break ==
    /\ Types("break") /\ Sets
    /\ \E a \in Addresses : breakpoints' = Break(a)
    /\ Idle /\ UNCHANGED <<labels, threads, skip_fetch_stall>>
\* A breakpoint that is set already gets no label.
do_lbreak ==
    /\ Types("lbreak") /\ Sets
    /\ \E a \in Addresses \ Range(breakpoints) :
          breakpoints' = Append(breakpoints, a) /\ labels' = labels \cup {a}
    /\ Idle /\ UNCHANGED <<threads, skip_fetch_stall>>

\* A negative number counts from the end, and an error when it is too low.
do_unbreak ==
    /\ Types("unbreak")
    /\ \E n \in Numbers :
          LET k == IF n < 0 THEN Len(breakpoints) + n ELSE n
          IN /\ k < Len(breakpoints)
             /\ IF k < 0 THEN status' = "IndexError" /\ UNCHANGED <<breakpoints, met>>
                ELSE /\ breakpoints' = RemoveAt(breakpoints, k + 1)
                     /\ met' = {m \in met : m[2] # breakpoints[k + 1]}
                     /\ UNCHANGED status
    /\ UNCHANGED <<core, labels, threads, skip_fetch_stall, typed, asked, ran, hit>>

do_skipfetch ==
    /\ Types("skipfetch") /\ skip_fetch_stall' = ~skip_fetch_stall
    /\ Idle /\ UNCHANGED <<breakpoints, labels, threads, typed>>
do_thread ==
    /\ Types("thread") /\ Sets
    /\ \E t \in Numbers : threads' = threads \cup {t}
    /\ Idle /\ UNCHANGED <<breakpoints, labels, skip_fetch_stall>>
do_unthread ==
    /\ Types("unthread")
    /\ \E t \in threads : threads' = threads \ {t} /\ met' = {m \in met : m[1] # t}
    /\ UNCHANGED <<core, breakpoints, labels, skip_fetch_stall, typed, status, asked, ran, hit>>

\* reg and dt ask the core for a thread by any number.
Exist(S) == S \subseteq Threads
do_reg ==
    /\ Types("reg")
    /\ \E S \in {{n} : n \in Numbers} \cup {threads} :
          status' = IF Exist(S) THEN status ELSE "no thread"
    /\ UNCHANGED <<core, settings, asked, ran, met, hit>>
\* These only show something, as break and thread without an argument do.
do_instruction_count == Types("instruction_count") /\ Idle /\ UNCHANGED settings
do_cycle == Types("cycle") /\ Idle /\ UNCHANGED settings
do_mem == Types("mem") /\ Idle /\ UNCHANGED settings
\* csim_dir is not defined.
do_reset ==
    /\ Types("reset") /\ status' = "NameError"
    /\ UNCHANGED <<core, settings, asked, ran, met, hit>>
do_quit ==
    /\ Types("quit") /\ status' = "quit"
    /\ UNCHANGED <<core, settings, asked, ran, met, hit>>

Steps == do_run_step \/ do_tra_step \/ do_profile_step
Prompt ==
    \/ do_run \/ do_tra \/ do_profile \/ do_run_alone
    \/ do_break \/ do_lbreak \/ do_unbreak \/ do_skipfetch \/ do_thread \/ do_unthread
    \/ do_reg \/ do_instruction_count \/ do_cycle \/ do_mem \/ do_reset \/ do_quit
Next == Steps \/ Prompt
Spec == Init /\ [][Next]_vars
\* A command that steps goes on by itself; nobody is bound to type one.
FairSpec == Spec /\ WF_vars(Steps)

-------------------------------------------------------------------------------
\* Types: breakpoints are set at addresses, and csim is at the prompt, in one
\* command, or gone.
TypeOK ==
    /\ cycle \in Nat /\ pc \in [Threads -> Addresses] /\ stalled \in [Threads -> BOOLEAN]
    /\ breakpoints \in Seq(Addresses) /\ labels \subseteq Addresses
    /\ threads \subseteq Threads \cup Numbers /\ skip_fetch_stall \in BOOLEAN
    /\ status \in {"prompt", "run", "tra", "profile", "quit",
                   "KeyError", "IndexError", "NameError", "no thread"}
    /\ met \subseteq Threads \X Addresses

\* While run goes on, no watched thread has come to a breakpoint that was set
\* and has not been stopped at, stalls and skipped stalls included (one_step).
StopsAtBreakpoint == status = "run" => met = {}

\* run takes as many cycles as it was asked for, unless a breakpoint or the
\* end of the simulation stops it before (do_run).
RunsAsAsked ==
    [][ do_run_step /\ status' = "prompt" =>
          hit' \/ ended' > ended \/ asked = ran' ]_vars

\* A breakpoint is listed once: the numbers of unbreak are those that break
\* prints (print_breakpoints looks each up by its first place).
ListedOnce == \A i, j \in DOMAIN breakpoints : breakpoints[i] = breakpoints[j] => i = j

\* run comes back to the prompt, since the program ends (do_run).
RunReturns == status = "run" ~> status # "run"

===============================================================================
