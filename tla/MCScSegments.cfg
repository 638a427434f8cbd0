CONSTANTS
    Sessions = {s1, s2, s3}
    Uris = {u1, u2}
    Segments = {g1, g2}
    Signs = {q1, q2, q3}
    Iters = {i1}
    Slots = {0, 1}
    None = None
    MaxRefs = 5
SPECIFICATION Spec
SYMMETRY MCSymmetry
INVARIANTS BitsDenoteOpened RefsMatchHolders SignsHeld
