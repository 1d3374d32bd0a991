------------------------------ MODULE MCPrograms ------------------------------
(***************************************************************************)
(* For TLC: the scripts around the simulator, and the programs of an       *)
(* example.  A behaviour is one of StaticSchedule ("schedule"), of         *)
(* DeadlineProfile ("profile"), of Debugger ("debugger"), of MazeSearch    *)
(* ("maze", or "moving" with a robot that moves on), of RobotChase         *)
(* ("chase"), or of its roaming robot alone ("roaming"); the parts it is   *)
(* not about stay as they start.                                           *)
(***************************************************************************)
EXTENDS StaticSchedule, Sequences, TLC

CONSTANTS
    Parts,
    t1, t2, seq, loop, i1, i2, i3, d1, d2       \* of StaticSchedule

-----------------------------------------------------------------------------
(* StaticSchedule: what may be reported of two tests of a sequence and a   *)
(* loop: each is missed on one of three paths, or it is in time, of which  *)
(* nothing is joined.                                                      *)

Times(a, b, c) == [i \in Insts |-> CASE i = i1 -> a [] i = i2 -> b [] i = i3 -> c]
Uses(a, b) == [d \in Datas |-> CASE d = d1 -> a [] d = d2 -> b]
Report(p, r, w, m) == [pcs |-> p, reads |-> r, writes |-> w, missed |-> m]

Reports == {
    Report(Times(0, 0, 0), Uses(0, 0), Uses(0, 0), FALSE),
    Report(Times(1, 1, 0), Uses(1, 0), Uses(0, 1), TRUE),
    Report(Times(0, 1, 1), Uses(0, 0), Uses(0, 1), TRUE),
    Report(Times(1, 2, 1), Uses(0, 1), Uses(0, 1), TRUE)}

MCProfiles ==
    {[pcs |-> [t \in Tests |-> [b \in Blocks |-> r[t][b].pcs]],
      reads |-> [t \in Tests |-> [b \in Blocks |-> r[t][b].reads]],
      writes |-> [t \in Tests |-> [b \in Blocks |-> r[t][b].writes]],
      missed |-> [t \in Tests |-> {b \in Blocks : r[t][b].missed}]] :
        r \in [Tests -> [Blocks -> Reports]]}

-----------------------------------------------------------------------------
(* DeadlineProfile: paths with the labels that the macros of deadline.h    *)
(* write: DEADSTART an end at the mov before its DEAD and a start at what  *)
(* comes after it, DEADEND an exit at its DEAD.                            *)

Inst(addr, block, kind, access, dead) ==
    [pc |-> addr, block |-> block, kind |-> kind, access |-> access, dead |-> dead]
Plain(addr, access) == Inst(addr, "none", "none", access, FALSE)
Read == <<"read", "s">>
Write == <<"write", "s">>
Far == <<"read", "g">>

DEADSTART(b, addr, access) ==
    <<Inst(addr, b, "end", "none", FALSE), Inst(addr + 1, "none", "none", "none", TRUE),
      Inst(addr + 2, b, "start", access, FALSE)>>
DEADEND(b, addr) == <<Inst(addr, b, "exit", "none", TRUE)>>

Body(b) == DEADSTART(b, 1, "none") \o <<Plain(4, Read), Plain(5, Write)>> \o DEADEND(b, 6)
Inner(b) == DEADSTART(b, 7, Far) \o DEADEND(b, 10)
Around(b, inside) == DEADSTART(b, 11, "none") \o inside \o DEADEND(b, 14)
Twice(b, inside) ==
    DEADSTART(b, 11, "none") \o inside \o DEADSTART(b, 11, "none") \o <<Plain(4, Read)>>
        \o DEADSTART(b, 11, "none") \o inside \o DEADEND(b, 14)
AfterBlocks == <<Plain(15, Read), Plain(16, "none")>>

MCPaths == {
    <<Plain(0, "none")>> \o Body("A") \o AfterBlocks,
    <<Plain(0, "none")>> \o Body("A") \o Inner("B") \o Body("A") \o AfterBlocks,
    <<Plain(0, Write)>> \o Around("B", Body("A")) \o AfterBlocks,
    <<Plain(0, "none")>> \o Twice("L", Inner("A")) \o Body("B") \o AfterBlocks,
    <<Plain(0, "none")>> \o Around("B", Twice("L", <<Plain(4, Read)>>)) \o AfterBlocks}

VARIABLES
    part,
    path, at, clock, stalls, data, nest, began, spent, misled,      \* DeadlineProfile
    cycle, pc, stalled, count, ended, repeats, breakpoints, labels, \* Debugger
    threads, skip_fetch_stall, status, asked, ran, typed, met, hit,
    method, visited, queue, qhead, qtail, calls, entered, goal,     \* MazeSearch
    robot, outcome, searches,
    roamer, halfway, hunter, wheel, motor, sensors, navCommand,     \* RobotChase
    pc0, goal0, letter, trail, chases, pc4, command, round, rested, where, lefts

profileVars == <<path, at, clock, stalls, data, nest, began, spent, misled>>
debugVars == <<cycle, pc, stalled, count, ended, repeats, breakpoints, labels,
               threads, skip_fetch_stall, status, asked, ran, typed, met, hit>>
mazeVars == <<method, visited, queue, qhead, qtail, calls, entered, goal,
              robot, outcome, searches>>
roamVars == <<roamer, halfway>>
gameVars == <<hunter, wheel, motor, sensors, navCommand, pc0, goal0, letter, trail,
              chases, pc4, command, round, rested, where, lefts>>

Profile == INSTANCE DeadlineProfile WITH
    Blocks <- {"A", "B", "L"}, Loops <- {"L"}, Paths <- MCPaths, Pcs <- 0 .. 16,
    Stack <- {"s"}, MaxStalls <- 3

\* Two threads, a program of two instructions, two breakpoints or threads; of the
\* numbers that are typed one is below and one above those there are.
Debug == INSTANCE Debugger WITH
    N <- 2, End <- 2, Counts <- {-1, 0, 2}, Numbers <- {-1, 0, 1, 2},
    Commands <- {"run", "tra", "profile", "break", "lbreak", "unbreak", "skipfetch",
                 "thread", "unthread", "reg", "instruction_count", "cycle", "mem",
                 "reset", "quit"},
    MaxStalls <- 1, MaxBreaks <- 2, MaxEnd <- 2, stalls <- repeats

-----------------------------------------------------------------------------
(* Mazes                                                                   *)

Border(height, width) ==
    {c \in (0 .. height - 1) \X (0 .. width - 1) :
        c[1] \in {0, height - 1} \/ c[2] \in {0, width - 1}}

\* A small maze with a loop, a dead end and a room that cannot be reached, and a
\* ring for seven cells.
Standing == INSTANCE MazeSearch WITH
    Cells <- (0 .. 5) \X (0 .. 6),
    Walls <- Border(6, 7) \union {<<2, 2>>, <<3, 2>>, <<2, 4>>, <<4, 4>>, <<3, 5>>},
    Starts <- {<<1, 1>>, <<4, 3>>, <<4, 5>>}, Goals <- {<<1, 5>>, <<4, 1>>, <<4, 5>>},
    Ring <- 8, Methods <- {"bfs", "dfs"}, Moving <- FALSE, Searches <- 2
Moving == INSTANCE MazeSearch WITH
    Cells <- (0 .. 5) \X (0 .. 6),
    Walls <- Border(6, 7) \union {<<2, 2>>, <<3, 2>>, <<2, 4>>, <<4, 4>>, <<3, 5>>},
    Starts <- {<<1, 1>>, <<4, 3>>}, Goals <- {<<4, 1>>},
    Ring <- 8, Methods <- {"bfs", "dfs"}, Moving <- TRUE, Searches <- 1

\* A maze of seven cells, four units to a cell.
Game == INSTANCE RobotChase WITH
    Cells <- (0 .. 3) \X (0 .. 5), Walls <- Border(4, 6) \union {<<2, 4>>},
    Starts <- {<<1, 1>>}, Roamers <- {<<1, 4>>},
    Sub <- 4, Sensor <- 1, Searches <- 2,
    robot <- hunter, goal <- goal0, visited <- trail, searches <- chases

\* The maze of the example, seven units to a cell.
ExampleWalls == Border(11, 15) \union
    {<<9, 4>>, <<8, 13>>, <<6, 3>>, <<6, 10>>, <<4, 10>>, <<3, 11>>, <<2, 12>>}
Example == INSTANCE RobotChase WITH
    Cells <- (0 .. 10) \X (0 .. 14), Walls <- ExampleWalls,
    Starts <- {<<1, 1>>}, Roamers <- ((0 .. 10) \X (0 .. 14)) \ ExampleWalls,
    Sub <- 7, Sensor <- 2, Searches <- 1,
    robot <- hunter, goal <- goal0, visited <- trail, searches <- chases

ASSUME ProfileAssumption == Profile!LoopsAssumption
ASSUME DebugAssumption == Debug!DebuggerConstants
ASSUME MazeAssumption == Standing!MazeConstants /\ Moving!MazeConstants
ASSUME GameAssumption == Game!WorldConstants /\ Game!ChaseConstants /\ Example!WorldConstants

-----------------------------------------------------------------------------

\* The initial states of the parts that have several are pinned if they rest.
ProgramsInit ==
    /\ part \in Parts
    /\ Init
    /\ part # "schedule" => order[1] = t1
    /\ Profile!Init /\ (part # "profile" => path = CHOOSE p \in MCPaths : TRUE)
    /\ Debug!Init
    /\ IF part = "moving" THEN Moving!Init
       ELSE /\ Standing!Init
            /\ part # "maze" => method = "bfs" /\ goal = <<1, 5>> /\ robot = <<1, 1>>
    /\ IF part = "roaming" THEN Example!Init ELSE Game!Init

Schedules ==
    /\ part = "schedule" /\ Next
    /\ UNCHANGED <<part, profileVars, debugVars, mazeVars, roamVars, gameVars>>
Profiling ==
    /\ part = "profile" /\ Profile!Next
    /\ UNCHANGED <<part, vars, debugVars, mazeVars, roamVars, gameVars>>
Debugs ==
    /\ part = "debugger" /\ Debug!Next
    /\ UNCHANGED <<part, vars, profileVars, mazeVars, roamVars, gameVars>>
Searches ==
    /\ part = "maze" /\ Standing!Next
    /\ UNCHANGED <<part, vars, profileVars, debugVars, roamVars, gameVars>>
SearchesMoving ==
    /\ part = "moving" /\ Moving!Next
    /\ UNCHANGED <<part, vars, profileVars, debugVars, roamVars, gameVars>>
Chases ==
    /\ part = "chase" /\ Game!Next
    /\ UNCHANGED <<part, vars, profileVars, debugVars, mazeVars>>
Roams ==
    /\ part = "roaming" /\ Example!Roam
    /\ UNCHANGED <<part, vars, profileVars, debugVars, mazeVars, gameVars>>

ProgramsNext ==
    Schedules \/ Profiling \/ Debugs \/ Searches \/ SearchesMoving \/ Chases \/ Roams
allVars == <<part, vars, profileVars, debugVars, mazeVars, roamVars, gameVars>>

\* The fairness of Debugger and of MazeSearch.
ProgramsSpec ==
    /\ ProgramsInit /\ [][ProgramsNext]_allVars
    /\ WF_debugVars(part = "debugger" /\ Debug!Steps)
    /\ WF_mazeVars(part = "maze" /\ Standing!Searching)
    /\ WF_mazeVars(part = "moving" /\ Moving!Searching)

-----------------------------------------------------------------------------

\* What csim tells is so: profiles have the blocks, times and counts of the path
\* until a DEAD or an access that stalls misleads them, and csim stops at
\* breakpoints.
ToolsTell ==
    /\ part = "schedule" => TypeOK
    /\ part = "profile" =>
          Profile!TypeOK /\ Profile!StackIsNest /\ Profile!NoKeyError
              /\ Profile!MeasuresLast /\ Profile!CountedOnce /\ Profile!LoopIsLargest
    /\ part = "debugger" => Debug!TypeOK /\ Debug!StopsAtBreakpoint /\ Debug!ListedOnce

\* Letters lead to the goal, on a shortest way when the robot stands still; a
\* search fails only without a way; the goal is a place of the opponent, no robot
\* is turned too often, and the one that roams gets into no wall.
RobotsFind ==
    /\ part = "maze" =>
          Standing!TypeOK /\ Standing!ShortestWay /\ Standing!FailsOnlyWithoutWay
              /\ Standing!LettersLead /\ Standing!CallsAreTheWay
    /\ part = "moving" => Moving!CallsAreTheWay /\ Moving!LettersLead
    /\ part = "chase" => Game!TypeOK /\ Game!GoalIsHisPlace /\ Game!NoTurnTooMany
    /\ part = "roaming" => Example!NeverCrashes

\* What is commanded is done: run takes the cycles it was asked for and comes
\* back, turns are taken as often as they are asked for, and a search ends
\* however the robot moves.
CommandsRun ==
    /\ Debug!RunsAsAsked /\ Debug!RunReturns
    /\ Game!TurnsAreObeyed
    /\ part \in {"maze", "moving"} => Standing!SearchEnds
=============================================================================
