CONSTANTS
    Conns = {c1}
    Els = {e1, e2}
    Iterators = {}
    Activities = {}
    Waits = {}
    None = None
    Local = Local
    Unread = Unread
    Commands <- ChangeCommands
    Vanishing = {}
    MaxDepth = 0
SPECIFICATION Spec
INVARIANT EveryAnswerMatches
CHECK_DEADLOCK FALSE
