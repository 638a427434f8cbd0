CONSTANTS
    Conns = {c1, c2}
    Els = {e1}
    Iterators = {i1, i2, i3}
    Activities = {a1, a2}
    Waits = {}
    None = None
    Local = Local
    Unread = Unread
    Commands <- LiveCommands
    Vanishing = {}
    MaxDepth = 2
SPECIFICATION FairSpec
INVARIANT UidsSound
PROPERTY RequestAnswered
CHECK_DEADLOCK FALSE
