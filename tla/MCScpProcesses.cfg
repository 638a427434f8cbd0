CONSTANTS
    Procs = {p1, p2, p3}
    None = None
    ALL_CHILDS = ALL_CHILDS
    Operators = {"nop", "callReturn", "call", "waitReturn", "halt", "return", "event", "sys_wait", "error"}
    MaxWaits = 1
    Commands = {"suspend", "resume", "terminate"}
    MaxCommands = 2
SPECIFICATION Spec
SYMMETRY ProcSymmetry
INVARIANTS OnceScheduled SleeperHasWaker HooksFindAsleep
CHECK_DEADLOCK FALSE
