CONSTANTS
    node = node
    arc1 = arc1
    arc2 = arc2
    arc3 = arc3
    Nodes = {node}
    Arcs = {arc1, arc2, arc3}
    Copies = 2
    Iters = {i}
    Agents = {p, q}
    Handled = {arc2}
    Ends <- MCEnds
    Iterated <- MCIterated
    MaxDepth = 5
    None = None
SPECIFICATION LiveSpec
INVARIANTS CountsExact ListsMatchArcs CrashNeedsHandlerOrCycle
PROPERTIES ErasureEnds ImplementsArcSet
CHECK_DEADLOCK FALSE
