----------------------------- MODULE RobotChase -----------------------------
(***************************************************************************)
(* The path_search example in the game it is played in: thread 0 looks for *)
(* a way to the opponent and names the direction for every cell, thread 4  *)
(* turns the robot, PretController takes their commands to the robot and   *)
(* the sensors of the robot to them, and the simulator moves both robots.  *)
(*                                                                         *)
(* A round of the game is a step of the core, one of the controller and    *)
(* one of the world.  In the core's step a thread makes one access to a    *)
(* volatile word, or none does: a cycle has one visit to the memory stage. *)
(***************************************************************************)
EXTENDS Integers, Sequences

-----------------------------------------------------------------------------
(* simulator.py of the robot simulator: the maze, the robots in it, and    *)
(* the robot that roams it on its own.                                     *)
(*                                                                         *)
(* A cell is Sub units long, and a robot moves a unit at a time.  The code *)
(* has a million steps to a cell and feels a wall a hundred steps ahead.   *)

CONSTANTS
    Cells,          \* the cells of the maze, pairs <<y, x>>
    Walls,          \* those with a 'w' in grid.txt
    Sub,            \* bound: the units in a cell
    Sensor,         \* bound: how many units ahead a wall is felt
    Roamers         \* bound: the cells where the roaming robot may be put

Free == Cells \ Walls

WorldConstants ==
    /\ Cells \subseteq Nat \X Nat
    /\ Walls \subseteq Cells
    /\ Sub \in Nat \ {0} /\ Sensor \in 1 .. Sub - 1
    /\ Roamers \subseteq Free

VARIABLES
    roamer,         \* the RandomRobot
    halfway         \* it moves at half the speed of the other robot

\* get_heading_string, and the heading it stands for.
Headings == {"r", "u", "l", "d"}
Vector(h) == CASE h = "r" -> <<0, 1>> [] h = "u" -> <<1, 0>>
               [] h = "l" -> <<0, -1>> [] h = "d" -> <<-1, 0>>
LeftOf(h) == CASE h = "r" -> "u" [] h = "u" -> "l" [] h = "l" -> "d" [] h = "d" -> "r"

\* A robot in the middle of a cell; the code adds half a cell to round.
Robot(c, h, speed) == [y |-> c[1] * Sub + Sub \div 2, x |-> c[2] * Sub + Sub \div 2,
                       heading |-> h, speed |-> speed]
CellOf(r) == <<r.y \div Sub, r.x \div Sub>>

SteerLeft(r) == [r EXCEPT !.heading = LeftOf(r.heading)]
Ahead(r, n) == [r EXCEPT !.y = @ + n * Vector(r.heading)[1], !.x = @ + n * Vector(r.heading)[2]]

Crashed(r) == CellOf(r) \in Walls
WallDetection(r) == CellOf(Ahead(r, Sensor * r.speed)) \in Walls

\* Robot.increment_time.
Moved(r) == Ahead(r, r.speed)

\* Mutant: the wall is felt no farther ahead than the robot stands.
RoamedBlind(r) == Moved(IF Crashed(r) THEN SteerLeft(r) ELSE r)

\* RandomRobot.increment_time: in front of a wall it turns left, and then moves
\* on without a look in the new direction.
Roamed(r) == Moved(IF WallDetection(r) THEN SteerLeft(r) ELSE r)

\* caught_opponent
Caught(r, s) == CellOf(r) = CellOf(s)

\* increment_time for the robot that roams, in every second unit.
Roam ==
    /\ halfway' = ~halfway
    /\ roamer' = IF halfway /\ ~Crashed(roamer) THEN Roamed(roamer) ELSE roamer

RoamInit ==
    /\ \E c \in Roamers : roamer = Robot(c, "r", 1)
    /\ halfway = FALSE

-----------------------------------------------------------------------------
(* Properties                                                              *)

\* The roaming robot gets into no wall, although it never looks where it turns.
NeverCrashes == ~Crashed(roamer)

-----------------------------------------------------------------------------

CONSTANTS
    Starts,         \* bound: the cells where the robot is put
    Searches        \* bound: the searches of thread 0; 10 in main

ChaseConstants ==
    /\ Starts \subseteq Free
    /\ Searches \in Nat \ {0}

VARIABLES
    robot,          \* the robot of the controller
    wheel, motor,   \* the words WHEEL and MOTOR
    sensors,        \* the words behind the sensors: cell, heading, opponent
    navCommand,     \* the word NAV_COMMAND; "none" for '\0'
    pc0,            \* what thread 0 does next
    goal,           \* goaly and goalx
    letter,         \* what turn has read of the maze
    visited,        \* bfsvisited
    searches,       \* the searches begun
    pc4,            \* what thread 4 does next
    command,        \* nav_command, its copy of the word
    round,          \* whose step of the round is next: "core", "controller", "world", "over"
    rested,         \* the threads that went round their loops since the robots moved
    where,          \* history: the cells of the opponent while thread 0 reads its place
    lefts           \* history: the turns asked for by this command, up to 4

thread0 == <<pc0, goal, letter, visited, searches, where>>
thread4 == <<pc4, command, lefts>>
words == <<wheel, motor, sensors, navCommand>>
world == <<robot, roamer, halfway>>
vars == <<thread0, thread4, words, world, round, rested>>

-----------------------------------------------------------------------------
(* The search of thread 0 (module MazeSearch), while the robot stands still. *)

Toward(c, h) == <<c[1] + Vector(h)[1], c[2] + Vector(h)[2]>>

\* The directions from a cell, in the order that bfs looks at them, each with
\* the letter of the way back.
Looks == <<<<"u", "d">>, <<"l", "r">>, <<"d", "u">>, <<"r", "l">>>>

RECURSIVE Bfs(_, _, _)
Bfs(letters, queue, stop) ==
    IF queue = <<>> \/ Head(queue) = stop THEN letters
    ELSE LET c == Head(queue)
             new(k) == letters[Toward(c, k[1])] = "0"
             fresh == SelectSeq(Looks, new)
             cells == [i \in 1 .. Len(fresh) |-> Toward(c, fresh[i][1])]
         IN  Bfs([d \in Cells |->
                     IF \E i \in 1 .. Len(fresh) : cells[i] = d
                     THEN fresh[CHOOSE i \in 1 .. Len(fresh) : cells[i] = d][2]
                     ELSE letters[d]],
                 Tail(queue) \o cells, stop)

Prefire(g) == [c \in Cells |-> IF c = g THEN "^" ELSE IF c \in Walls THEN "w" ELSE "0"]

\* bfsvisited when the robot has been come upon.
Letters == [g \in Cells, c \in Free |-> IF g \in Free THEN Bfs(Prefire(g), <<g>>, c) ELSE Prefire(g)]

-----------------------------------------------------------------------------
(* Thread 0: search_loop and turn                                          *)

GoesRound(t) == rested' = rested \union {t}

\* Mutant: one of the coordinates is the robot's own.
ReadOwnX ==
    /\ pc0 = "goalx"
    /\ goal' = <<0, sensors.cell[2]>>
    /\ where' = {sensors.other}
    /\ pc0' = "goaly"
    /\ GoesRound(0)
    /\ UNCHANGED <<letter, visited, searches, thread4, words>>

\* Where the other robot is takes two reads, and so two places.
ReadGoalX ==
    /\ pc0 = "goalx"
    /\ goal' = <<0, sensors.other[2]>>
    /\ where' = {sensors.other}
    /\ pc0' = "goaly"
    /\ GoesRound(0)
    /\ UNCHANGED <<letter, visited, searches, thread4, words>>

\* The search has no word to read but the place of a robot that stands still.
\* With no way to the opponent the chase starts all the same.
ReadGoalY ==
    /\ pc0 = "goaly"
    /\ goal' = <<sensors.other[1], goal[2]>>
    /\ where' = where \union {sensors.other}
    /\ visited' = Letters[goal', sensors.cell]
    /\ searches' = searches + 1
    /\ pc0' = "go"
    /\ GoesRound(0)
    /\ UNCHANGED <<letter, thread4, words>>

Go ==
    /\ pc0 = "go"
    /\ motor' = "go"
    /\ pc0' = "check"
    /\ GoesRound(0)
    /\ UNCHANGED <<goal, letter, visited, searches, where, thread4, wheel, sensors, navCommand>>

\* The condition of the loop.
Check ==
    /\ pc0 = "check"
    /\ pc0' = IF visited[sensors.cell] = "^" THEN "stop" ELSE "turn"
    /\ GoesRound(0)
    /\ UNCHANGED <<goal, letter, visited, searches, where, thread4, words>>

\* turn, which reads the place of the robot for itself.
Turn ==
    /\ pc0 = "turn"
    /\ letter' = visited[sensors.cell]
    /\ pc0' = "name"
    /\ UNCHANGED <<goal, visited, searches, where, thread4, words, rested>>

Name ==
    /\ pc0 = "name"
    /\ navCommand' = letter
    /\ pc0' = "check"
    /\ UNCHANGED <<goal, letter, visited, searches, where, thread4, wheel, motor, sensors, rested>>

\* The robot has got to the goal.  After the last search the simulation ends.
StopMotor ==
    /\ pc0 = "stop"
    /\ motor' = "stop"
    /\ pc0' = IF searches = Searches THEN "end" ELSE "goalx"
    /\ GoesRound(0)
    /\ UNCHANGED <<goal, letter, visited, searches, where, thread4, wheel, sensors, navCommand>>

Thread0 == ReadGoalX \/ ReadGoalY \/ Go \/ Check \/ Turn \/ Name \/ StopMotor

-----------------------------------------------------------------------------
(* Thread 4: navigation_loop                                               *)

Poll ==
    /\ pc4 = "poll"
    /\ command' = navCommand
    /\ pc4' = CASE navCommand \in Headings -> "look"
                [] navCommand = "none" -> "poll"
                [] OTHER -> "halt"
    /\ lefts' = 0
    /\ GoesRound(4)
    /\ UNCHANGED <<thread0, words>>

Look ==
    /\ pc4 = "look"
    /\ pc4' = IF command # sensors.heading THEN "left" ELSE "clear"
    /\ UNCHANGED <<thread0, command, lefts, words, rested>>

Left ==
    /\ pc4 = "left"
    /\ wheel' = "left"
    /\ lefts' = IF lefts = 4 THEN 4 ELSE lefts + 1
    /\ pc4' = "look"
    /\ UNCHANGED <<thread0, command, motor, sensors, navCommand, rested>>

Clear ==
    /\ pc4 = "clear"
    /\ navCommand' = "none"
    /\ pc4' = "poll"
    /\ UNCHANGED <<thread0, command, lefts, wheel, motor, sensors, rested>>

\* The default of the switch, which also prints the maze.
Halt ==
    /\ pc4 = "halt"
    /\ motor' = "stop"
    /\ pc4' = "poll"
    /\ UNCHANGED <<thread0, command, lefts, wheel, sensors, navCommand, rested>>

Thread4 == Poll \/ Look \/ Left \/ Clear \/ Halt

-----------------------------------------------------------------------------
(* The rounds of Game.MainLoop                                             *)

\* pret.run: a thread has its access.  The run fails when a thread ends the
\* simulation, as thread 1 does when its own searches are over.
Core(access) ==
    /\ round = "core"
    /\ access /\ round' = "controller"
    /\ UNCHANGED world

CoreIdle == Core(UNCHANGED <<thread0, thread4, words, rested>>)

SimulationEnds ==
    /\ round = "core"
    /\ round' = "over"
    /\ UNCHANGED <<thread0, thread4, words, world, rested>>

\* Mutant: the sensors go first, and the turn after them.
RunControllerLate ==
    /\ round = "controller"
    /\ robot' = [robot EXCEPT
           !.heading = IF wheel = "left" THEN LeftOf(@) ELSE @,
           !.speed = CASE motor = "go" -> 1 [] motor = "stop" -> 0 [] OTHER -> @]
    /\ wheel' = "none" /\ motor' = "none"
    /\ sensors' = [cell |-> CellOf(robot), heading |-> robot.heading, other |-> CellOf(roamer)]
    /\ round' = IF Crashed(robot) THEN "over" ELSE "world"
    /\ UNCHANGED <<thread0, thread4, navCommand, roamer, halfway, rested>>

\* Mutant: the word of the wheel is not cleared.
RunControllerAgain ==
    /\ round = "controller"
    /\ robot' = [robot EXCEPT
           !.heading = IF wheel = "left" THEN LeftOf(@) ELSE @,
           !.speed = CASE motor = "go" -> 1 [] motor = "stop" -> 0 [] OTHER -> @]
    /\ motor' = "none"
    /\ sensors' = [cell |-> CellOf(robot'), heading |-> robot'.heading, other |-> CellOf(roamer)]
    /\ round' = IF Crashed(robot) THEN "over" ELSE "world"
    /\ UNCHANGED <<thread0, thread4, wheel, navCommand, roamer, halfway, rested>>

\* run_controller: a crash ends the game; the commands are taken from their
\* words, and what the robot sees is put in its own.
RunController ==
    /\ round = "controller"
    /\ IF Crashed(robot)
       THEN round' = "over" /\ UNCHANGED <<robot, wheel, motor, sensors>>
       ELSE /\ robot' = [robot EXCEPT
                   !.heading = IF wheel = "left" THEN LeftOf(@) ELSE @,
                   !.speed = CASE motor = "go" -> 1 [] motor = "stop" -> 0 [] OTHER -> @]
            /\ wheel' = "none" /\ motor' = "none"
            /\ sensors' = [cell |-> CellOf(robot'), heading |-> robot'.heading,
                           other |-> CellOf(roamer)]
            /\ round' = "world"
    /\ UNCHANGED <<thread0, thread4, navCommand, roamer, halfway, rested>>

\* The simulated time until the robots have gone a unit is far longer than a
\* turn of either loop.
UnitPasses ==
    /\ rested = {0, 4}
    /\ rested' = {}
    /\ robot' = IF Crashed(robot) THEN robot ELSE Moved(robot)
    /\ Roam

\* increment_time: a robot that is caught ends the game.
IncrementTime(moves) ==
    /\ round = "world"
    /\ moves
    /\ round' = IF Caught(robot', roamer') THEN "over" ELSE "core"
    /\ UNCHANGED <<thread0, thread4, words>>

World == IncrementTime(UnitPasses) \/ IncrementTime(UNCHANGED <<world, rested>>)

Init ==
    /\ RoamInit
    /\ \E c \in Starts : robot = Robot(c, "r", 0)
    /\ wheel = "none" /\ motor = "none" /\ navCommand = "none"
    /\ sensors = [cell |-> CellOf(robot), heading |-> robot.heading, other |-> CellOf(roamer)]
    /\ pc0 = "goalx" /\ goal = <<0, 0>> /\ letter = "none" /\ visited = Prefire(<<0, 0>>)
    /\ searches = 0 /\ where = {}
    /\ pc4 = "poll" /\ command = "none" /\ lefts = 0
    /\ round = "core" /\ rested = {}

Rounds == Core(Thread0) \/ Core(Thread4) \/ CoreIdle \/ RunController \/ World
Next == Rounds \/ SimulationEnds
Spec == Init /\ [][Next]_vars

\* The game goes round, a thread gets its turn in every rotation of the
\* pipeline, and the robots get on as long as the threads do.
FairSpec ==
    /\ Spec
    /\ WF_vars(Rounds)
    /\ SF_vars(Core(Thread0)) /\ SF_vars(Core(Thread4))
    /\ SF_vars(IncrementTime(UnitPasses))

-----------------------------------------------------------------------------
(* Properties                                                              *)

Letter == Headings \union {"0", "w", "^", "none"}

TypeOK ==
    /\ {robot.heading, roamer.heading, sensors.heading} \subseteq Headings
    /\ robot.speed \in {0, 1} /\ halfway \in BOOLEAN
    /\ {CellOf(robot), CellOf(roamer), sensors.cell, sensors.other, goal} \subseteq Cells
    /\ wheel \in {"none", "left"} /\ motor \in {"none", "go", "stop"}
    /\ {navCommand, command, letter} \subseteq Letter
    /\ visited \in [Cells -> Letter]
    /\ pc0 \in {"goalx", "goaly", "go", "check", "turn", "name", "stop", "end"}
    /\ pc4 \in {"poll", "look", "left", "clear", "halt"}
    /\ searches \in 0 .. Searches /\ lefts \in 0 .. 4
    /\ round \in {"core", "controller", "world", "over"} /\ rested \subseteq {0, 4}
    /\ where \subseteq Cells

\* The goal, put together from two reads, is a cell that the opponent was in:
\* its two coordinates never change together.
GoalIsHisPlace == pc0 \in {"go", "check", "turn", "name"} => goal \in where

\* No turn is asked for that the heading, read back through the sensors, does
\* not call for: three lefts are the most there are.
NoTurnTooMany == lefts <= 3

\* The robot is turned as often as it was asked to be, and never more often.
TurnsAreObeyed ==
    [][robot'.heading # robot.heading =>
            wheel = "left" /\ robot'.heading = LeftOf(robot.heading) /\ wheel' = "none"]_vars

=============================================================================
