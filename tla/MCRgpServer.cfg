CONSTANTS
    Conns = {c1, c2}
    Els = {e1}
    Iterators = {}
    Activities = {a1, a2}
    Waits = {w1}
    None = None
    Local = Local
    Unread = Unread
    Commands <- AnyCommands
    Vanishing = {c1, c2}
    MaxDepth = 2
SPECIFICATION Spec
SYMMETRY RgpSymmetry
INVARIANTS ObjectsHeld ProxiesInPlace AnswersMatch
CHECK_DEADLOCK FALSE
