CONSTANTS
    Agents = {p1, p2}
    Contexts = {s1, s2, s3}
    None = None
    Sets = {w1}
    MaxItems = 1
    CallerKinds = {"agent"}
SPECIFICATION PSpec
INVARIANT ZombieDetachSafe
CHECK_DEADLOCK FALSE
