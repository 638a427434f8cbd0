CONSTANTS
    Agents = {p1, p2}
    Contexts = {s1, s2, s3}
    None = None
    Sets = {w1}
    MaxItems = 2
    CallerKinds = {"agent"}
SPECIFICATION FairPSpec
INVARIANTS QueuesHoldWaiters NoLostWakeup CallerStaysInCall
PROPERTIES GetServed CallReturns
CHECK_DEADLOCK FALSE
