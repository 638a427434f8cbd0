CONSTANTS
    Waits = {h1, h2, o1}
    Lists = {in1, in2, out}
    PreLists = {in1, in2}
    InSets = {in1, in2}
    Once = {o1}
    Agents = {a1, a2}
    Nobody = Nobody
SPECIFICATION LiveSpec
INVARIANTS Linked EachInOneList CallsEachOnce
PROPERTIES WalksEnd
CHECK_DEADLOCK FALSE
