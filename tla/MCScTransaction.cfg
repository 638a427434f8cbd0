CONSTANTS
    Elements = {e1, e2, e3}
    None = None
    MaxEnds = 2
    MaxLog = 2
    UsedTypes = {"node", "connector"}
SPECIFICATION TSpec
SYMMETRY ElementSymmetry
INVARIANTS ErasuresReferenced FreedOnlyByOthers NoDanglingEnds CountersNeverLow
PROPERTIES RollbackRestores
CHECK_DEADLOCK FALSE
