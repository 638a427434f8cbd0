CONSTANTS
    Procs = {p1, p2, p3}
    None = None
    ALL_CHILDS = ALL_CHILDS
    Operators = {"call", "waitReturn", "return"}
    MaxWaits = 2
    Commands = {"suspend", "resume"}
    MaxCommands = 2
SPECIFICATION FairSpec
INVARIANT SleeperHasWaker
PROPERTIES DeadIsErased FatherGoesOn
CHECK_DEADLOCK FALSE
