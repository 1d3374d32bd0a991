\* Allocations for two tests, profiles of five paths, commands of the debugger,
\* and mazes that are searched and chased through.
SPECIFICATION ProgramsSpec
CONSTANTS
    Parts = {"schedule", "profile", "debugger", "maze", "moving", "chase", "roaming"}
    t1 = t1
    t2 = t2
    seq = seq
    loop = loop
    i1 = i1
    i2 = i2
    i3 = i3
    d1 = d1
    d2 = d2
    Tests = {t1, t2}
    Blocks = {seq, loop}
    Insts = {i1, i2, i3}
    Datas = {d1, d2}
    Loops = {loop}
    Profiles <- MCProfiles
    ISize = 2
    DSize = 2
    IAlloc = 2
    DAlloc = 1
INVARIANTS ListsSound ToolsTell RobotsFind
PROPERTIES ScheduleGrows CommandsRun
CHECK_DEADLOCK FALSE
