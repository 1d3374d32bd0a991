\* Queues of two commands, screens of three rows, one picture on a blank screen.
SPECIFICATION FairSpec
CONSTANTS
    Size = 3
    Rows = 3
    Pictures = {one}
    Update = Update
    NoCommand = NoCommand
    Blank = Blank
    Junk = Junk
INVARIANT Undisturbed
PROPERTIES InOrder DriverProceeds
