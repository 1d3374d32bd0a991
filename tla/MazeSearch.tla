----------------------------- MODULE MazeSearch -----------------------------
(***************************************************************************)
(* search_loop of the path_search example: the breadth-first search of     *)
(* thread 0, with its ring of cells, and the depth-first search of thread  *)
(* 1, with its calls, from the goal until they come upon the robot.        *)
(*                                                                         *)
(* A step is one turn of the loop of bfs, or one call of dfs, a descent or *)
(* a return.  Between any two of them the robot may have moved on: where   *)
(* it is is read from the sensors again and again.                         *)
(***************************************************************************)
EXTENDS Integers, Sequences, FiniteSets

CONSTANTS
    Cells,          \* the cells of the maze, pairs <<y, x>>
    Walls,          \* those with a 'w' in grid.txt
    Ring,           \* MAXQUEUESIZE / 2: the cells that the queue can hold
    Methods,        \* the searches, of {"bfs", "dfs"}
    Starts,         \* bound: where the robot is at first
    Goals,          \* bound: where its opponent is
    Moving,         \* does the robot move during a search?
    Searches        \* bound: the searches of a thread; 10 in main

Free == Cells \ Walls
Directions == {"u", "d", "l", "r"}

MazeConstants ==
    /\ Cells \subseteq Nat \X Nat
    /\ Walls \subseteq Cells
    /\ Ring \in Nat \ {0}
    /\ Methods \subseteq {"bfs", "dfs"}
    /\ Starts \subseteq Free /\ Goals \subseteq Free
    /\ Moving \in BOOLEAN
    /\ Searches \in Nat \ {0}

VARIABLES
    method,         \* the search that the thread was compiled with
    visited,        \* bfsvisited or dfsvisited
    queue, qhead, qtail,
    calls,          \* the cells of the calls of dfs under way, the first call first
    entered,        \* has the last of these just been called?
    goal,           \* goaly and goalx
    robot,          \* where the sensors say that the robot is
    outcome,        \* "none" while the search goes on, what it returned
    searches        \* the searches begun

search == <<visited, queue, qhead, qtail, calls, entered, goal, outcome, searches>>
vars == <<method, search, robot>>

\* The cell that a letter sends the robot to.
Toward(c, l) == CASE l = "u" -> <<c[1] + 1, c[2]>>
                  [] l = "d" -> <<c[1] - 1, c[2]>>
                  [] l = "l" -> <<c[1], c[2] - 1>>
                  [] l = "r" -> <<c[1], c[2] + 1>>

\* Mutant: each gets the letter that leads on to it.
AroundOnward(c) == <<[cell |-> Toward(c, "u"), letter |-> "u"],
                     [cell |-> Toward(c, "l"), letter |-> "l"],
                     [cell |-> Toward(c, "d"), letter |-> "d"],
                     [cell |-> Toward(c, "r"), letter |-> "r"]>>

\* The neighbours in the order of the searches, each with the letter that leads
\* back from it.
Around(c) == <<[cell |-> Toward(c, "u"), letter |-> "d"],
               [cell |-> Toward(c, "l"), letter |-> "r"],
               [cell |-> Toward(c, "d"), letter |-> "u"],
               [cell |-> Toward(c, "r"), letter |-> "l"]>>

\* The macro empty: no wall, and not seen before.
Empty(letters, c) == letters[c] = "0"

\* prefire, but for the queue.
Cleared == [c \in Cells |-> IF c \in Walls THEN "w" ELSE "0"]

\* Mutant: prefire leaves the queue to the next search.
BeginAnywhere(g) ==
    /\ outcome' = "none"
    /\ goal' = g
    /\ visited' = [Cleared EXCEPT ![g] = "^"]
    /\ queue' = [queue EXCEPT ![qhead] = g]
    /\ qhead' = (qhead + 1) % Ring
    /\ calls' = <<g>> /\ entered' = TRUE
    /\ searches' = searches + 1
    /\ UNCHANGED <<qtail, method, robot>>

\* search_loop up to the search: prefire, and the goal is where the tree starts.
Begin(g) ==
    /\ outcome' = "none"
    /\ goal' = g
    /\ visited' = [Cleared EXCEPT ![g] = "^"]
    /\ queue' = [queue EXCEPT ![0] = g]
    /\ qhead' = 1 % Ring /\ qtail' = 0
    /\ calls' = <<g>> /\ entered' = TRUE
    /\ searches' = searches + 1
    /\ UNCHANGED <<method, robot>>

BeginSearch ==
    /\ outcome # "none"
    /\ searches < Searches
    /\ \E g \in Goals : Begin(g)

-----------------------------------------------------------------------------
(* bfs                                                                     *)

Ends(result) == outcome' = result /\ UNCHANGED <<visited, queue, qhead, calls, entered>>

\* Mutant: a cell gets the letter that leads on from it.
MarkedOnward(c) ==
    [d \in Cells |-> IF Empty(visited, d) /\ \E l \in Directions : Toward(c, l) = d
                     THEN CHOOSE l \in Directions : Toward(c, l) = d
                     ELSE visited[d]]

\* Mutant: a cell that has been looked at stays empty.
MarkedNot(c) == visited

\* The letters once the neighbours of c have been looked at.
Marked(c) ==
    [d \in Cells |-> IF Empty(visited, d) /\ \E l \in Directions : Toward(d, l) = c
                     THEN CHOOSE l \in Directions : Toward(d, l) = c
                     ELSE visited[d]]

\* Mutant: of the neighbours of a cell one is marked and not enqueued.
EnqueueFewer(fresh) ==
    LET some == IF Len(fresh) > 1 THEN Tail(fresh) ELSE fresh IN
    /\ queue' = [i \in 0 .. Ring - 1 |->
           LET k == ((i - qhead) % Ring) + 1 IN IF k <= Len(some) THEN some[k].cell ELSE queue[i]]
    /\ qhead' = (qhead + Len(some)) % Ring

\* The new cells behind those that wait; a ring that is full is not noticed.
Enqueue(fresh) ==
    /\ queue' = [i \in 0 .. Ring - 1 |->
           LET k == ((i - qhead) % Ring) + 1 IN IF k <= Len(fresh) THEN fresh[k].cell ELSE queue[i]]
    /\ qhead' = (qhead + Len(fresh)) % Ring

\* One turn of the loop of bfs.
Dequeue ==
    /\ method = "bfs" /\ outcome = "none" /\ qtail # qhead
    /\ qtail' = (qtail + 1) % Ring
    /\ LET c == queue[qtail]
           new(n) == Empty(visited, n.cell)
       IN  IF c = robot
           THEN Ends("found")
           ELSE /\ visited' = Marked(c)
                /\ Enqueue(SelectSeq(Around(c), new))
                /\ UNCHANGED <<calls, entered, outcome>>
    /\ UNCHANGED <<method, goal, robot, searches>>

QueueEmpty ==
    /\ method = "bfs" /\ outcome = "none" /\ qtail = qhead
    /\ Ends("failed")
    /\ UNCHANGED <<method, qtail, goal, robot, searches>>

-----------------------------------------------------------------------------
(* dfs                                                                     *)

Deepest == calls[Len(calls)]
DfsRuns == method = "dfs" /\ outcome = "none"

\* A call looks for the robot first.
EnterCell ==
    /\ DfsRuns /\ entered
    /\ entered' = FALSE
    /\ outcome' = IF Deepest = robot THEN "found" ELSE outcome
    /\ UNCHANGED <<method, visited, queue, qhead, qtail, calls, goal, robot, searches>>

\* The first neighbour that is empty is marked and searched; those before it
\* have been searched or were not empty, and will not be empty again.
Descend ==
    /\ DfsRuns /\ ~entered
    /\ \E k \in 1 .. 4 :
          LET n == Around(Deepest)[k] IN
          /\ Empty(visited, n.cell)
          /\ \A j \in 1 .. k - 1 : ~Empty(visited, Around(Deepest)[j].cell)
          /\ visited' = [visited EXCEPT ![n.cell] = n.letter]
          /\ calls' = Append(calls, n.cell)
    /\ entered' = TRUE
    /\ UNCHANGED <<method, queue, qhead, qtail, goal, robot, outcome, searches>>

ReturnFalse ==
    /\ DfsRuns /\ ~entered
    /\ \A k \in 1 .. 4 : ~Empty(visited, Around(Deepest)[k].cell)
    /\ calls' = SubSeq(calls, 1, Len(calls) - 1)
    /\ outcome' = IF Len(calls) = 1 THEN "failed" ELSE outcome
    /\ UNCHANGED <<method, visited, queue, qhead, qtail, entered, goal, robot, searches>>

-----------------------------------------------------------------------------
\* The robot gets into the next cell.
RobotMoves ==
    /\ Moving
    /\ outcome = "none"
    /\ \E l \in Directions : Toward(robot, l) \in Free /\ robot' = Toward(robot, l)
    /\ UNCHANGED <<method, search>>

Init ==
    /\ method \in Methods
    /\ goal \in Goals
    /\ robot \in Starts
    /\ visited = [Cleared EXCEPT ![goal] = "^"]
    /\ queue = [i \in 0 .. Ring - 1 |-> IF i = 0 THEN goal ELSE <<0, 0>>]
    /\ qhead = 1 % Ring /\ qtail = 0
    /\ calls = <<goal>> /\ entered = TRUE
    /\ outcome = "none"
    /\ searches = 1

Searching == Dequeue \/ QueueEmpty \/ EnterCell \/ Descend \/ ReturnFalse
Next == BeginSearch \/ Searching \/ RobotMoves
Spec == Init /\ [][Next]_vars

\* A thread of the pipeline gets its turn in every rotation.
FairSpec == Spec /\ WF_vars(Searching)

-----------------------------------------------------------------------------
(* Properties                                                              *)

\* The cells that a letter was given to, or the goal's '^'.
Reached == {c \in Free : visited[c] # "0"}

TypeOK ==
    /\ method \in Methods
    /\ visited \in [Cells -> Directions \union {"0", "w", "^"}]
    /\ queue \in [0 .. Ring - 1 -> Cells]
    /\ qhead \in 0 .. Ring - 1 /\ qtail \in 0 .. Ring - 1
    /\ calls \in Seq(Cells) /\ entered \in BOOLEAN
    /\ goal \in Cells /\ robot \in Cells
    /\ outcome \in {"none", "found", "failed"}
    /\ searches \in 1 .. Searches

\* The cells that wait in the ring.
Waiting == {queue[(qtail + k) % Ring] : k \in 0 .. ((qhead - qtail) % Ring) - 1}

\* Following the letters for n steps.
After[c \in Cells, n \in 0 .. Cardinality(Free)] ==
    IF n = 0 \/ visited[c] \notin Directions THEN c ELSE After[Toward(c, visited[c]), n - 1]

\* From wherever a letter was left, and so from where the robot was found, the
\* letters lead to the goal and into no wall on the way.
LettersLead == \A c \in Reached : After[c, Cardinality(Free)] = goal

\* The letters of the breadth-first search lead there on a shortest way: no cell
\* would be nearer to the goal by way of another of its neighbours.
ShortestWay ==
    method = "bfs" =>
        \A c \in Reached, l \in Directions, n \in 0 .. Cardinality(Free) - 1 :
            Toward(c, l) \in Reached /\ After[Toward(c, l), n] = goal => After[c, n + 1] = goal

\* A search that gives up has looked at all there is to reach, and for a robot
\* that stands still it gives up only when there is no way.
FailsOnlyWithoutWay ==
    outcome = "failed" =>
        /\ \A c \in Reached, l \in Directions : Toward(c, l) \in Free => Toward(c, l) \in Reached
        /\ Moving \/ robot \notin Reached

\* The calls under way are the way from the deepest one back to the goal.
CallsAreTheWay ==
    method = "dfs" /\ calls # <<>> =>
        /\ calls[1] = goal
        /\ \A k \in 2 .. Len(calls) : Toward(calls[k], visited[calls[k]]) = calls[k - 1]

\* Every search comes to an end, however the robot moves.
SearchEnds == outcome = "none" ~> outcome # "none"
=============================================================================
